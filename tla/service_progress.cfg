SPECIFICATION FairSpec
CONSTANTS
    c1 = c1
    c2 = c2
    Clients <- MCClients
    Requests <- OneProposal
    CacheLimit = 1
    TerminalLimit = 1
    MaxRecent = 1
    MaxJobs = 1
    MaxRestarts = 1
PROPERTIES
    EveryRequestAnswered
    InvestigationEnds
