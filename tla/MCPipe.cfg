SPECIFICATION Spec
CONSTANTS
    Procs = {p1, p2, p3}
    NoProc = NoProc
    Bytes = {0, 1}
    PIPE_SIZE = 2
    WORD = 4
    MaxRequest = 2
INVARIANTS TypeOK NoUseAfterFree NoLostWakeup
PROPERTY RefinesFifo
SYMMETRY ProcSymmetry
VIEW View
\* a reader may wait for ever, and a pipe nobody uses is at its end
CHECK_DEADLOCK FALSE
