CONSTANTS
  t1 = t1
  t2 = t2
  None = None
  Threads = {t1, t2}
  WindowChars = 3
  OverlapChars = 1
  RowsPerBlock = 2
  MaxTableChars = 2
  MaxOps = 3
  MaxFaults = 1
  Submissions <- AllSubmissions
  Alone <- OneOperation
  Legacies <- OldCorpora
SPECIFICATION CorpusSpec
SYMMETRY ThreadSymmetry
INVARIANT CorpusTypeOK
INVARIANT ReadyIsEarned
INVARIANT ManifestIsServed
INVARIANT ChildrenAreServed
INVARIANT OrderIsExact
INVARIANT JobTellsManifest
CHECK_DEADLOCK FALSE
