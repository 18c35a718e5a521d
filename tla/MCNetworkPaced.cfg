SPECIFICATION Spec
CONSTANTS
  Clients = {c1, c2}
  Names = {alice, bob}
  Passwords = {secret}
  Groups = {g1}
  FileNames = {f1}
  Hashes = {h1}
  Blank = Blank
  None = None
  Trackers = {1, 2}
  MaxConnections = 2
  Requests <- CommonRequests
  InitiallyUp = {2}
  Hazards = {}
  MaxTx = 8
  MaxStarts = 1
SYMMETRY Symmetry
CHECK_DEADLOCK FALSE
INVARIANTS TypeOK EveryTrackerSound RecordComplete Agreement
PROPERTY BehavesAsOneTracker
