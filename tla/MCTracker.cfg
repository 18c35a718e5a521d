SPECIFICATION Spec
CONSTANTS
  Clients = {c1, c2}
  Names = {alice, bob}
  Passwords = {secret}
  Groups = {g1}
  FileNames = {f1, f2}
  Hashes = {h1, h2}
  Blank = Blank
  None = None
  MaxMade = 3
SYMMETRY Symmetry
INVARIANTS TypeOK PendingNotMember OneEntryPerFile
PROPERTIES AdmittedByOwner RecreatedIsStranger GroupsKeepTheirFiles
