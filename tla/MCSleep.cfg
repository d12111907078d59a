SPECIFICATION Spec
CONSTANTS
    Procs = {p1, p2, p3}
    CPUs = {c1, c2}
    None = None
    MaxEvents = 2
    MaxAttempts = 2
INVARIANT SleepSafe
PROPERTY RefinesWaitQueue
SYMMETRY Symmetry
