CONSTANTS
    c1 = c1
    c2 = c2
    s1 = s1
    s2 = s2
    m1 = m1
    None = None
    Callers <- TwoCallers
    Stoppers <- OneStopper
    Inbound <- NoInbound
    MaxRequests = 3
    MaxIncoming = 1
    AutoClose = TRUE
    RequestTimeout = TRUE
SPECIFICATION Spec
SYMMETRY CallerSymmetry
INVARIANTS
    TypeOK
    NoStrandedRequest
    OwnResponse
PROPERTIES
    ClosureIsReported
    LifecycleSpec
CHECK_DEADLOCK FALSE
