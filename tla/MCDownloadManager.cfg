SPECIFICATION FairSpec
CONSTANTS
  a = a  b = b  c = c  fa = fa  fb = fb  fe = fe  pa = pa  pb = pb  pc1 = pc1  p1 = p1  p2 = p2
  Files = {fa, fb, fe}
  PiecesOf <- SomeRepeated
  Paths = {pa, pb}
  NameOf <- Names
  Peers = {p1, p2}
  Answers <- AnyFailure
  InitialDisk <- OwnFile
  Zero = Zero
  None = None
  MaxPieces = 3
  MaxDownloads = 2
CHECK_DEADLOCK FALSE
INVARIANTS TypeOK CompleteOnDisk  ServedPieceValid
PROPERTIES FinishedFilesStay DownloadsComplete CompletionReported QuitEnds
