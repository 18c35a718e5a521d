SPECIFICATION Spec
CONSTANTS
  Clients = {c1}
  Names = {alice}
  Passwords = {secret}
  Groups = {g1}
  FileNames = {f1}
  Hashes = {h1}
  Blank = Blank
  None = None
  Trackers = {1, 2}
  MaxConnections = 2
  Requests <- FewRequests
  InitiallyUp = {1}
  Hazards = {}
  MaxTx = 2
  MaxStarts = 1

CHECK_DEADLOCK FALSE
INVARIANT RecordTellsAll
