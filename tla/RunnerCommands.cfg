SPECIFICATION FairSpec
CONSTANTS
    k1 = k1
    k2 = k2
    k3 = k3
    NoCall = NoCall
    Calls <- ThreeCalls
    Exiting <- OneExits
    MaxMessages = 1
INVARIANTS
    TypeOK
    NoCommandLost
    LogsPrecedeResponse
PROPERTIES
    ServiceSpec
    HandlersReturn
CHECK_DEADLOCK FALSE
