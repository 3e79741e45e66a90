SPECIFICATION Spec
CONSTANTS
    p1 = p1
    p2 = p2
    p3 = p3
    Paths <- MCPaths
    DevNull = DevNull
    Foreign = Foreign
    MaxFiles = 2
    MaxHunks = 3
    MaxCount = 2
SYMMETRY Symmetry
INVARIANTS
    TypeOK
    GitAgrees
    WithinCeilings
CHECK_DEADLOCK FALSE
