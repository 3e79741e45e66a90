SPECIFICATION EitherSpec
CONSTANTS
    Limit <- MCLimit
    PipeSize = 2
    MaxWrites = 3
    GitPipeSize = 1
    MaxInput = 2
    Lingers = FALSE
INVARIANTS
    TypeOK
    CompleteOutput
    NothingOutlivesAKill
    AgentIsGone
    GitTypeOK
    GitComplete
    OnlyDescendantsAreAwaited
PROPERTIES
    Ends
    GitEnds
