SPECIFICATION BothSpec
CONSTANTS
    N = 2
    Kind <- MCKind
    Covered <- MCCovered
    MaxEdits = 0
    MaxFaults = 0
    MaxCrashes = 0
INVARIANTS
    SuccessIsWhole
