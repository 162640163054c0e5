CONSTANTS
    Conns = {c1, p1}
    P2P = {p1}
    Sockets = {s1}
    Main = s1
    Addrs = {a1, a2}
    ShortIds = 1
    IdCount = 3
    MaximumClients = 2
    MaxTasks = 1
    MaxReading = 1
    None = None
SPECIFICATION Spec
SYMMETRY Symmetry
INVARIANTS IdsExact CacheCoherent EntriesCurrent
CHECK_DEADLOCK FALSE
