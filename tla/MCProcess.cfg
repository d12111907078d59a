CONSTANTS
    Procs = {init, p1, p2, p3}
    InitProc = init
    None = None
    MAX_PROCESSES = 4
    MaxCalls = 2
    MaxKills = 2
SPECIFICATION Spec
SYMMETRY Symmetry
CHECK_DEADLOCK FALSE
INVARIANT ProcessSafe
PROPERTY StackOutlivesExit
