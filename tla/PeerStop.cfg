SPECIFICATION DrainedSpec
CONSTANTS
    c1 = c1
    c2 = c2
    s1 = s1
    s2 = s2
    m1 = m1
    None = None
    Callers <- OneCaller
    Stoppers <- TwoStoppers
    Inbound <- OneInbound
    MaxRequests = 1
    MaxIncoming = 1
    AutoClose = TRUE
    RequestTimeout = TRUE
INVARIANTS
    QuietAfterStop
PROPERTIES
    StopReturns
    ClosureEndsCalls
CHECK_DEADLOCK FALSE
