SPECIFICATION Spec
CONSTANTS
  Lookups = {l1, l2}
  Modifications = {m1}
  References = {r1, r2}
  Acquisitions = {a1, a2}
  Evictions = {e1}
  Loads = {s1}
  Requests = {q1}
  Prefetches = {b1}
  main = main
SYMMETRY FrameSymmetry
CHECK_DEADLOCK FALSE
INVARIANT HandlesExact
INVARIANT FramesHeld
INVARIANT NoStrandedWaiter
PROPERTY OutcomesKnown
