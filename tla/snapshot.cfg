SPECIFICATION Spec
CONSTANTS
    N = 2
    Tracked = {1}
    n1 = n1
    n2 = n2
    n3 = n3
    n4 = n4
    Inodes <- MCInodes
    NoInode = NoInode
    Blocks = 2
    Data = {"a", "b"}
    MaxFiles = 2
    MaxWrites = 2
    MaxClock = 2
SYMMETRY Symmetry
INVARIANTS
    TypeOK
    FreshMeansUnchanged
    NoFalseAlarm
CHECK_DEADLOCK FALSE
