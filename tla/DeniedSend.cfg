CONSTANTS
    Main = main
    Probes = {p1}
    Connections = {c1}
    MaxQueue = 2
    MaxSends = 1
SPECIFICATION SessionSpec
INVARIANT NoSendOutstanding
CHECK_DEADLOCK FALSE
