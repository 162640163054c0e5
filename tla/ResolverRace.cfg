CONSTANTS
    Kinds = {"outgoing"}
    MayDeny = FALSE
    MaxLookups = 1
    MaxFlushes = 0
    MaxSends = 0
SPECIFICATION Spec
CHECK_DEADLOCK FALSE
INVARIANT GoneFromMaps
