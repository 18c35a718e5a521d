SPECIFICATION FairSpec
CONSTANTS
  MaxConnections = 2
  Backlog = 1
  MaxFD = 6
  MaxConns = 4
  MaxData = 1
  Hazards = {"abort", "fault", "sync", "stop"}
CHECK_DEADLOCK FALSE
INVARIANTS TypeOK DescriptorsMatch NotifiedInPairs DescriptorsAccounted
PROPERTIES Served StopEndsUnlessSilent
