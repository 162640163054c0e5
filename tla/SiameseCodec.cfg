CONSTANTS
    MaxColumns = 5
    MaxRows = 3
    WindowLimit = 7
    LaneCount = 1
    SumsPerLane = 2
    RowSums <- MCRowSums
    SubwindowSize = 1
    RemoveThreshold = 2
    CauchyThreshold = 2
    SumResetThreshold = 2
    MaximumLossRecoveryCount = 3
SPECIFICATION CodecSpec
INVARIANTS
    InOrderNeverDisables
    RecoversExactly
    RegionCurrent
CHECK_DEADLOCK FALSE
