CONSTANTS
    Section = 8
    Alloc = 9
    Ring = 20
    FrameBytes = 1
    SplitMinimum = 2
    MaxReliable = 12
    MaxUnreliable = 5
    Channels = {1}
    Sizes = {2, 9}
    Shorts <- MCShorts
    Padding = 1
    MaxSent = 3
    MaxShorts = 0
    MaxWire = 0
    NoBuffer = NoBuffer
SPECIFICATION Spec
CHECK_DEADLOCK FALSE
INVARIANT AlwaysSynchronised
