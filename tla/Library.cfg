SPECIFICATION FairSpec
CONSTANTS
    s1 = s1
    s2 = s2
    s3 = s3
    d1 = d1
    d2 = d2
    NoSession = NoSession
    Nothing = Nothing
    Sessions <- ThreeSessions
    Definitions <- TwoDefinitions
INVARIANTS
    LossIsAnnounced
    OneWindowPerOutage
    NothingLeftBehind
PROPERTIES
    CallsReturn
CHECK_DEADLOCK FALSE
