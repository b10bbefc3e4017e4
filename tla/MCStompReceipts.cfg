SPECIFICATION FairSpec
CONSTANTS
    Threads = {t1, t2}
    Calls <- AllCalls
    None = None
    MaxTime = 1
    MaxCalls = 2
INVARIANT
    ReturnsAfterAnAnswer
PROPERTY CallEnds
CHECK_DEADLOCK FALSE
