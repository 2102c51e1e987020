SPECIFICATION FairSpec
CONSTANTS
    c1 = c1
    c2 = c2
    c3 = c3
    Modes = {"tcp", "stdio"}
    Clients <- OneClient
    Phases <- WhileStarting
PROPERTY
    SignalEndsProcess
CHECK_DEADLOCK FALSE
