CONSTANTS
    Procs = {p1, p2, p3}
    NoProc = NoProc
    nlog = 3
    nhome = 2
    Values = {0, 1}
    MAX_CONCURRENT_LOG_CLIENTS = 2
    Requests <- MixedRequests
    WORD = 64
    MaxCalls = 3
    MaxCrashes = 2
SPECIFICATION FairSpec
CHECK_DEADLOCK FALSE
INVARIANT LogSafe
PROPERTIES RefinesAtomicDisk BeginReturns
