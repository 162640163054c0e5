CONSTANTS
    Section = 8
    Alloc = 8
    Ring = 10
    FrameBytes = 1
    SplitMinimum = 2
    MaxReliable = 12
    MaxUnreliable = 5
    Channels = {1, 2}
    Sizes = {2, 9}
    Shorts <- MCShorts
    Padding = 1
    MaxSent = 2
    MaxShorts = 1
    MaxWire = 0
    NoBuffer = NoBuffer
SPECIFICATION FairSpec
CHECK_DEADLOCK FALSE
INVARIANTS HistorySynchronised MessagesInOrder
PROPERTY AllDelivered
