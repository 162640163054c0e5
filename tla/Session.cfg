CONSTANTS
    Main = main
    Probes = {p1}
    Connections = {c1, c2}
    MaxQueue = 2
    MaxSends = 1
SPECIFICATION FairSession
INVARIANT EndsQuiet
PROPERTIES NeverReopened ShutdownEnds
CHECK_DEADLOCK FALSE
