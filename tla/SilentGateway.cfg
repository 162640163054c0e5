SPECIFICATION SilentPort
CONSTANTS
    Ports = {p, q}
    First = p
    kPortMappingRetries = 2
    MaxRequests = 1
    MaxTroubles = 1
PROPERTY Mapped
CHECK_DEADLOCK FALSE
