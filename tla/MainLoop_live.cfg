SPECIFICATION FairLoopSpec
CONSTANTS
  Pairs <- TwoPairs
  RangeQueries <- NoRanges
  val_min = 0
  val_max = 9
  FLUSH_THRESHOLD = 2
  Frames = {f1, f2}
  FreshInserts = FALSE
  SettledLookups = FALSE
  QuietShutdown = TRUE
  LossyRemove = TRUE
PROPERTIES
  ImplementsStore
  AnswersArePrinted
  ProgramEnds
  FlushesComplete
