SPECIFICATION FairSpec
CONSTANTS
    N = 4
    Kind <- MCKind
    Covered <- MCCovered
    MaxEdits = 2
    MaxFaults = 2
    MaxCrashes = 2
INVARIANTS
    TypeOK
    NoMixedSuccess
    Converged
    RefusalChangesNothing
    CrashesNeverBlock
    UserWorkSurvives
PROPERTIES
    Settles
    AppliesAtomically
    LoopsEnd
