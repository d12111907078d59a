SPECIFICATION Spec
VIEW PartView
CONSTANTS
    RamPages = 9 RamVa = 20 TrampolineVa = 40 EarlyPages = 3 PtesPerTable = 4 EarlyTables = 8
    MmioBase = 50 MaxDevices = 2 DeviceMem <- MCDeviceMem
    VProcesses = {"p", "q"} InitProcess = "p" Slots = {0, 1} Ptes = 2
    Frames = {1, 2, 3, 4, 5, 6, 7, 8, 9, 10, 11, 12, 13, 14, 15, 16, 17, 18, 19, 20, 21, 22, 23, 24}
    HeapLimit = 6 StackHigh = 6 StackMax = 2 TrapframeVa = 7
    Programs <- MCPrograms Increments <- MCIncrements MaxVmCalls = 5
    AllocsLeft = {0, 1, 2, 3, 4, 5, 6, 7, 8, 9, 10, 11, 12, 13, 14, 15, 16, 17, 18, 19, 20, 60}
    Harts = {0, 1} BootHart = 0 Stacks = {1, 2} FirstStack = 1 NoStack = NoStack
    MaxIpi = 2 MaxTimer = 1 MaxSmpCalls = 4
    NodeNames <- MCNodeNames PropNames = {"phandle", "#size-cells"} Values <- MCValues
    BufSizes = {17, 26} Ranges <- MCRanges MaxCell = 3 MaxFdtOps = 4
    Bases <- MCBases Overlays <- MCOverlays MaxU32 = 15 MaxOverlays = 3
    Dtbs <- MCDtbs CellBase = 16 MaxDevs = 10 MaxMaps = 2 MaxClocks = 2 MaxRanges = 2
    LockCpus = {c1, c2} LockThreads = {t1, t2, t3} SleepLocks = {a, b} Nobody = nobody MaxLockOps = 6
    CredProcs = {1, 2} InitProc = 1 Ids = {0, 1} Files = {f1} Modes <- MCModes InitMode <- MCInitMode FlagWords <- MCFlagWords
    Lists = {l1, l2, l3} NoList = nolist MaxCredOps = 4
    MountProcs = {1, 2} Dentries = {d1, d2, d3} BaseDentry = base Supers = {m1, m2} RootSuper = root
    None = none MaxMounts = 6
    Writers = {"w1", "w2"} Printers = {"p"} Handler = "h" UART_TX_BUF_SIZE = 2 FifoBytes = 3
    MaxPuts = 2 MaxInput = 1
    ND = 1 NI = 2 BS = 2 DiskBlocks = {1, 2, 3, 4, 5, 6, 7, 8} TruncTo = {1, 5, 8, 11, 13}
    WriteLens = {3, 7, 12} MaxFdOps = 3
    BLOCK_SIZE = 2 NDirect = 1 InodesPerBlock = 9 BitsPerBlock = 40 ImageSizes = {15, 31, 33}
    HostFiles <- MCHostFiles HostDirs <- MCHostDirs HostNames = {"n", "y"} Owners = {0, 1} MaxMkfsRuns = 4
    Lines <- MCLines MaxExecArgs = 4 MaxShProcs = 8
    Strings <- MCStrings Arrays <- MCArrays WordBytes = 2 Bits = 5 MaxDigits = 3
    Formats <- MCFormats RingBytes = 4
    HeapUnits = 9 CoreUnits = 4 HeaderBytes = 2 MaxRequest = 4 HeapBlocks = {1, 2, 3}
    Content <- MCContent NewLine = 9 MaxLine = 3
INVARIANTS
    BootMapSafe AddressSpacesSafe SmpSafe BlobHoldsTree OverlayApplied DevicesReady LocksSafe
      UartSafe FileDataExact ImagesExact ShellSafe LibCorrect
PROPERTIES
    IdsOnlyByExec MountsAsStack
CHECK_DEADLOCK FALSE
