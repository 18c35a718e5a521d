SPECIFICATION FairSpec
CONSTANTS
  MaxConnections = 1
  Backlog = 1
  MaxFD = 4
  MaxConns = 1
  MaxData = 1
  Hazards = {"sync", "stop"}
CHECK_DEADLOCK FALSE
PROPERTY StopEnds
