SPECIFICATION FairSpec
CONSTANTS
    MaxProposals = 2
INVARIANTS
    TypeOK
    GoneStaysGone
PROPERTIES
    StatusCatchesUp
