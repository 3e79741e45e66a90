SPECIFICATION Spec
CONSTANTS
    c1 = c1
    c2 = c2
    Clients <- MCClients
    Requests <- Changes
    CacheLimit = 1
    TerminalLimit = 1
    MaxRecent = 1
    MaxJobs = 2
    MaxRestarts = 1
SYMMETRY Symmetry
INVARIANTS
    TypeOK
    SingleFlight
    AppliedAtMostOnce
    AppliedIsTrue
    ResentSubmitBeginsOnce
PROPERTIES
    IsPanelService
