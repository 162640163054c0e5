SPECIFICATION FairPort
CONSTANTS
    Ports = {p}
    First = p
    kPortMappingRetries = 2
    MaxRequests = 4
    MaxTroubles = 1
INVARIANTS PointersLive ReportedIsMapped
PROPERTIES Mapped
CHECK_DEADLOCK FALSE
