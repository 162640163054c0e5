CONSTANTS
    MaxPackets = 3
    MaxCopies = 2
    MaxAcks = 1
    MaxRecoveries = 2
    Rows = {r1}
    WindowLimit = 3
    LaneCount = 1
    SubwindowSize = 1
    RemoveThreshold = 1
SPECIFICATION Spec
CHECK_DEADLOCK FALSE
INVARIANT UnorderedNeverTwice
