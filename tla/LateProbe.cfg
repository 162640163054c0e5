CONSTANTS
    Conns = {c1, p1}
    P2P = {p1}
    Sockets = {s1, s2}
    Main = s1
    Addrs = {a1, a2}
    ShortIds = 1
    IdCount = 2
    MaximumClients = 2
    MaxTasks = 1
    MaxReading = 1
    None = None
SPECIFICATION Spec
INVARIANT PeersGoneFromMaps
CHECK_DEADLOCK FALSE
