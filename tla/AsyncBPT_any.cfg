SPECIFICATION Spec
CONSTANTS
  Pairs <- ThreePairs
  RangeQueries <- CrossRange
  val_min = 0
  val_max = 9
  FLUSH_THRESHOLD = 2
  Frames = {f1, f2}
  FreshInserts = FALSE
  SettledLookups = FALSE
  QuietShutdown = FALSE
SYMMETRY FrameSymmetry
INVARIANTS
  TypeOK
  CountExact
  FlushExcludesLookups
  WaitingFlushHasWaker
  FlagMeansFlushing
  PassedEntriesApplied
PROPERTIES
  ContentChangesByRequest
  AnswersAsOfIssue
