CONSTANTS
    Conns = {c1, c2, c3}
    P2P = {}
    Sockets = {s1}
    Main = s1
    Addrs = {a1, a2}
    ShortIds = 1
    IdCount = 3
    MaximumClients = 1
    MaxTasks = 1
    MaxReading = 1
    None = None
SPECIFICATION Spec
SYMMETRY Symmetry
INVARIANT ClientsBounded
CHECK_DEADLOCK FALSE
