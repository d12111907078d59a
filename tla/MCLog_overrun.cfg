CONSTANTS
    Procs = {p1, p2, p3}
    NoProc = NoProc
    nlog = 3
    nhome = 3
    Values = {0, 1}
    MAX_CONCURRENT_LOG_CLIENTS = 2
    Requests <- SmallRequests
    WORD = 64
    MaxCalls = 3
    MaxCrashes = 1
SPECIFICATION Spec
SYMMETRY Symmetry
CHECK_DEADLOCK FALSE
INVARIANT EntriesInLog
