CONSTANTS
    Kinds = {"outgoing", "incoming"}
    MayDeny = TRUE
    MaxLookups = 2
    MaxFlushes = 2
    MaxSends = 3
SPECIFICATION FairSpec
CHECK_DEADLOCK FALSE
INVARIANTS RefCountExact DeletedUnused CloseIsLast
PROPERTIES CloseReported FreedIsDeleted
