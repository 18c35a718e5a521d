SPECIFICATION Spec
CONSTANTS
  Clients = {c1, c2}
  Names = {alice}
  Passwords = {secret}
  Groups = {g1}
  FileNames = {f1}
  Hashes = {h1}
  Blank = Blank
  None = None
  Trackers = {1, 2}
  MaxConnections = 2
  Requests <- SharingRequests
  InitiallyUp = {2}
  Hazards = {}
  MaxTx = 6
  MaxStarts = 1

CHECK_DEADLOCK FALSE
INVARIANT SeederAgreement
