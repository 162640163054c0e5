CONSTANTS
    Kinds = {"incoming"}
    MayDeny = TRUE
    MaxLookups = 0
    MaxFlushes = 0
    MaxSends = 1
SPECIFICATION Spec
CHECK_DEADLOCK FALSE
INVARIANT ShutdownUnused
