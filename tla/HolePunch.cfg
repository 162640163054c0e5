CONSTANTS
  Peers = {a, b}
  TieBreaker = a
  NumPorts = 1
  NATs = {"any", "twin"}
  RandomRound = 3
  MaxNet = 1
  MaxTasks = 1
  MaxLost = 1
SPECIFICATION FairHolePunch
INVARIANT RouteExact
PROPERTY EstablishedMeet
CHECK_DEADLOCK FALSE
