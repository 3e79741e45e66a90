SPECIFICATION Spec
CONSTANTS
    k1 = k1
    k2 = k2
    Calls <- MCCalls
    MaxDeaths = 1
INVARIANTS
    TypeOK
    FailureHasCause
PROPERTIES
    IsRemoteCall
    ConnectionsEnd
    CallsEnd
CHECK_DEADLOCK FALSE
