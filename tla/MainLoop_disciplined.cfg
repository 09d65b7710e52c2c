SPECIFICATION LoopSpec
CONSTANTS
  Pairs <- ThreePairs
  RangeQueries <- NoRanges
  val_min = 0
  val_max = 9
  FLUSH_THRESHOLD = 2
  Frames = {f1, f2}
  FreshInserts = TRUE
  SettledLookups = TRUE
  QuietShutdown = TRUE
  LossyRemove = FALSE
SYMMETRY FrameSymmetry
INVARIANT AbsentKeysAreAbsent
INVARIANT PendingInsertIsNew
PROPERTY ImplementsStore
