CONSTANTS
    WordBits = 2
    WordCount = 3
    MaxNonce = 15
    MaxReorderedDatagrams = 12
    Nonces <- MCNonces
    UnitSize = 2
    WindowMaxUnits = 12
    Windows = {1, 2}
    PreallocatedWindows = 1
    Large = {101}
    Requests = {2, 3, 5}
    MaxBlocks = 3
    TSRange = 32
    Window = 4
    TimeBias = 4
    Delays = {1, 2, 3}
    Offsets <- MCOffsets
    Gaps = {1, 2, 3}
    Start = 20
    MaxTime = 31
    Clients = {c1, c2}
    Ips = {i1, i2}
    MaximumConnectionsPerAddress = 1
    FloodConnectionsPerMinute = 1
    BinDuration = 1
    KeyInterval = 2
    Overlap = TRUE
    None = None
    kMaxViewBytes = 3
    kBytesChunk = 4
    kMinWriteBytes = 1
    kOutputFileThresholdBytes = 2
    Granularity = 2
    NameField = 2
    DiskSizes = {1, 5, 7}
    BufferSizes = {0, 1, 3}
    NameLengths = {0, 1}
    Deficits = {1, 3, 6}
    MaxFiles = 2
    MaxChannel = 2
    MaxFaults = 1
    Keys = {k1, k2, k3}
    Conns = {x1, x2}
    NoConn = NoConn
    HashBits = 3
    Hashes <- MCHashes
SPECIFICATION StructuresSpec
INVARIANTS
    StruckIsDuplicate
    FreshIsNotDuplicate
    IntegrityCheck
    TimeExact
    CookieLasts
    Delivered
PROPERTIES
    ImplementsHeap
    ImplementsMap
CHECK_DEADLOCK FALSE
