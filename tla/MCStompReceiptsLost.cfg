SPECIFICATION FairSpec
CONSTANTS
    Threads = {t1, t2}
    Calls <- OperationCalls
    None = None
    MaxTime = 1
    MaxCalls = 1
PROPERTY ReceiptEndsWait
CHECK_DEADLOCK FALSE
