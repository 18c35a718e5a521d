SPECIFICATION FairSpec
CONSTANTS
  Clients = {c1, c2}
  Trackers = {1, 2}
  MaxConnections = 2
  Backlog = 0
  InitiallyUp = {2}
  MaxTyped = 2
  MaxStarts = 1
  None = None
  Mirror = Mirror
CHECK_DEADLOCK FALSE
INVARIANTS TypeOK LinksMatch RunOnce ReplyMatches
PROPERTIES CommandEnds MirrorEnds
