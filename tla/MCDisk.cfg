SPECIFICATION Spec
CONSTANTS
    VProcs = {p1, p2, p3}
    VBlocks = {d1}
    VValues = {x, y}
    VIRTIO_DESCRIPTORS = 7
    IDX = 14
    ServedBefore = 12
    MaxRw = 1
    Nobody = Nobody
    BClients = {c1, c2}
    BBlocks = {1, 2}
    BData = {v, w}
    BufIds = {1, 2, 3}
    LeastMin = 1
    MinChoices = {2}
    MaxFreeChoices = {0}
    RawRanges <- MCRawRanges
    MaxOps = 3
    NoBlock = NoBlock
    NoClient = NoClient
INVARIANTS
    VirtioSafe
    BioSafe
PROPERTIES
    IsBlockDevice RwCallsReturn BufferGranted
CHECK_DEADLOCK FALSE
