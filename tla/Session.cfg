SPECIFICATION LogFairSpec
CONSTANTS
    k1 = k1
    k2 = k2
    Calls <- TwoCalls
    MaxMessages = 3
INVARIANTS
    LogTypeOK
    FailedCallFindsLoss
    FailedStartReleases
    NoJobDestroyed
    LogKeepsOrder
    LogPrecedesReturn
PROPERTIES
    SessionLifecycleSpec
    CallsReturn
    SessionEnds
CHECK_DEADLOCK FALSE
