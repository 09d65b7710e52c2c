SPECIFICATION LoopSpec
CONSTANTS
  Pairs <- TwoPairs
  RangeQueries <- NoRanges
  val_min = 0
  val_max = 9
  FLUSH_THRESHOLD = 2
  Frames = {f1}
  FreshInserts = TRUE
  SettledLookups = TRUE
  QuietShutdown = FALSE
  LossyRemove = FALSE
INVARIANT RequestKeepsIterator
