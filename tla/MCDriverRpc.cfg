SPECIFICATION RpcLiveSpec
CONSTANTS
    Connect = 2
    MaxTrips = 4
    LargeSets <- MCLargeSets
CHECK_DEADLOCK FALSE
INVARIANTS
    AnswersMatch
    KillIsReported
PROPERTIES
    NeverHangs
