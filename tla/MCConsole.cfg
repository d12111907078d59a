CONSTANTS
    Readers = {p1, p2}
    NoReader = NoReader
    Chars = {"a", "cr", "eof", "del"}
    Modes <- CookedAndRaw
    INPUT_BUF_SIZE = 2
    WORD32 = 4
    MaxRead = 2
SPECIFICATION ConSpec
VIEW View
SYMMETRY Symmetry
INVARIANT ConsoleSafe
PROPERTY RefinesTty
