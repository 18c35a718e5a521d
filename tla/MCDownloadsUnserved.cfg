SPECIFICATION Spec
CONSTANTS
  a = a  b = b  c = c  fa = fa  fb = fb  fe = fe  pa = pa  pb = pb  pc1 = pc1  p1 = p1  p2 = p2
  Files = {fa, fb}
  PiecesOf <- DistinctPieces
  Paths = {pa, pb, pc1}
  NameOf <- Names
  Peers = {p1, p2}
  Answers <- OneHonest
  InitialDisk <- EmptyDisk
  Zero = Zero
  None = None
  MaxPieces = 3
  MaxDownloads = 2
CHECK_DEADLOCK FALSE
INVARIANT AnnouncedServable
