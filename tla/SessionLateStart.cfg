SPECIFICATION FairSpec
CONSTANTS
    k1 = k1
    Calls <- OneCall
PROPERTY
    TimedOutStartEnds
CHECK_DEADLOCK FALSE
