SPECIFICATION Spec
CONSTANTS
  Requests = {r1, r2, r3}
  Entries = 2
  CqEntries = 2
  Wrap = 4
  batch_submit_threshold = 2
  FlushEvery = 2
  PartialSubmits = TRUE
  null = null
INVARIANT EachRequestOnce
PROPERTY RequestsComplete
PROPERTY PollsReturn
