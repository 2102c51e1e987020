SPECIFICATION Spec
CONSTANTS
    Class <- Classes
    Json <- MCJson
    Depth <- MCDepth
    Height <- MCHeight
    Elements <- MCElements
    Inputs <- MCInputs
    FromDict <- Converted
    MaxSize = 2
    Handlers <- MCHandlers
    Notified <- MCNotified
    Waiting <- MCWaiting
INVARIANTS
    FramesAreFound
    EveryRequestAnswered
    ResponsesSettle
    ParamsAreRead
    ReadsBack
CHECK_DEADLOCK FALSE
