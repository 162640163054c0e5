CONSTANTS
    MaxColumns = 5
    MaxRows = 3
    WindowLimit = 7
    LaneCount = 1
    SumsPerLane = 2
    RowSums <- MCRowSums
    SubwindowSize = 1
    RemoveThreshold = 2
    CauchyThreshold = 2
    SumResetThreshold = 2
    MaximumLossRecoveryCount = 3
SPECIFICATION CodecSpec
INVARIANT OutOfOrderHandled
CHECK_DEADLOCK FALSE
