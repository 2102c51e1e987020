SPECIFICATION FairSpec
CONSTANTS
    c1 = c1
    c2 = c2
    c3 = c3
    Modes = {"tcp", "stdio"}
    Clients <- ThreeClients
    Phases <- NotBooting
INVARIANTS
    TypeOK
    FailureIsReal
    NoRequestCutOff
PROPERTIES
    StopEndsProcess
CHECK_DEADLOCK FALSE
