CONSTANTS
    Clients = {c1, c2, c3}
    Ips = {i1, i2}
    MaximumConnectionsPerAddress = 2
    FloodConnectionsPerMinute = 1
    BinDuration = 2
    KeyInterval = 2
    Overlap = TRUE
    None = None
SPECIFICATION FloodSpec
INVARIANT PerAddressLimit
