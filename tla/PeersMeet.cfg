CONSTANTS
  Peers = {a, b}
  TieBreaker = a
  NumPorts = 1
  NATs = {"any", "twin"}
  RandomRound = 2
  MaxNet = 1
  MaxTasks = 1
  MaxLost = 1
SPECIFICATION FairHolePunch
PROPERTY Meet
CHECK_DEADLOCK FALSE
