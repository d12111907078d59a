SPECIFICATION Spec
CONSTANTS
    NProcs = {p1, p2}
    NsNames = {"a", "x"}
    NsPaths <- Paths
    NsCalls = {"open", "creat", "mkdir", "mknod", "link", "unlink", "rmdir", "chdir"}
    Dens = {1, 2, 3, 4}
    Inums = {1, 2, 3, 4}
    MaxLru = 1
    MaxCalls = 3
INVARIANTS
    CacheAgrees NamesExact
CHECK_DEADLOCK FALSE
SYMMETRY Symmetry
