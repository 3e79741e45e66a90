SPECIFICATION FairSpec
CONSTANTS
    Limit <- MCLimit
    PipeSize = 2
    MaxWrites = 3
    Lingers = TRUE
PROPERTIES
    Ends
