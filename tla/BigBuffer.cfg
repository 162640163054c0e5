SPECIFICATION FileSpec
CONSTANTS
    kMaxViewBytes = 3
    kBytesChunk = 4
    kMinWriteBytes = 1
    kOutputFileThresholdBytes = 2
    Granularity = 2
    NameField = 2
    DiskSizes = {5}
    BufferSizes = {7}
    NameLengths = {0, 1}
    Deficits = {1, 3, 6}
    MaxFiles = 2
    MaxChannel = 2
    MaxFaults = 0
INVARIANT ProgressExact
CHECK_DEADLOCK FALSE
