CONSTANTS
    MaxPackets = 3
    MaxCopies = 1
    MaxAcks = 1
    MaxRecoveries = 0
    Rows = {}
    WindowLimit = 2
    LaneCount = 2
    SubwindowSize = 1
    RemoveThreshold = 1
SPECIFICATION FairSpec
CHECK_DEADLOCK FALSE
PROPERTIES
    EverythingDelivered
    EncoderDrains
    AcksCease
