CONSTANTS
    Conns = {c1}
    P2P = {}
    Sockets = {s1}
    Main = s1
    Addrs = {a1, a2}
    ShortIds = 1
    IdCount = 2
    MaximumClients = 3
    MaxTasks = 3
    MaxReading = 1
    None = None
SPECIFICATION Spec
PROPERTY MovesOnHandshake
CHECK_DEADLOCK FALSE
