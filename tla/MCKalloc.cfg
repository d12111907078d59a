CONSTANTS
    CPUs = {c1, c2}
    MemStart = 4
    MemEnd = 9
    PAGE_ALLOC_MAX_ORDER = 2
    Objects = {o1, o2}
    None = None
    Kobjects = {k1, k2}
    Attributes = 1
    SysThreads = {t1, t2}
    MaxInum = 3
SPECIFICATION MCSpec
SYMMETRY Symmetry
\* the statistics may never return
CHECK_DEADLOCK FALSE
INVARIANTS MemoryExact SysfsSafe
