SPECIFICATION Spec
CONSTANTS
  Clients = {c1, c2}
  Names = {alice}
  Passwords = {secret}
  Groups = {g1}
  FileNames = {f1}
  Hashes = {h1}
  Blank = Blank
  None = None
  Trackers = {1, 2}
  MaxConnections = 2
  Requests <- AccountRequests
  InitiallyUp = {1}
  Hazards = {"crash", "crowd", "burst", "busy_join", "reorder"}
  MaxTx = 3
  MaxStarts = 3
SYMMETRY Symmetry
CHECK_DEADLOCK FALSE
INVARIANTS RunAtMostOnce RecordComplete
