SPECIFICATION FairSpec
CONSTANTS
  Clients = {c1, c2}
  Names = {alice}
  Passwords = {secret}
  Groups = {g1}
  FileNames = {f1}
  Hashes = {h1}
  Blank = Blank
  None = None
  Trackers = {1, 2}
  MaxConnections = 2
  Requests <- AccountRequests
  InitiallyUp = {2}
  Hazards = {"crash"}
  MaxTx = 3
  MaxStarts = 3

CHECK_DEADLOCK FALSE
PROPERTIES StartCompletes EventuallyEverywhere
