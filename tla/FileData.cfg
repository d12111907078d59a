SPECIFICATION FdSpec
CONSTANTS
    ND = 1
    NI = 2
    BS = 2
    DiskBlocks = {1, 2, 3, 4, 5, 6, 7, 8}
    TruncTo = {8}
    WriteLens = {3, 7, 12}
    MaxFdOps = 3
INVARIANT
    PreviousBlocksKept
CHECK_DEADLOCK FALSE
