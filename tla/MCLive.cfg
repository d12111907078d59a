SPECIFICATION LiveSpec
CONSTANTS
    Procs = {init, p1, p2}
    InitProc = init
    None = None
    MAX_PROCESSES = 3
    MaxCalls = 3
    MaxKills = 2
    Threads = {t1, t2, t3}
    CPUs = {c1}
    MaxEvents = 2
    MaxAttempts = 1
\* a system whose init was killed stops
CHECK_DEADLOCK FALSE
PROPERTIES OrphansReaped RunnableRuns
