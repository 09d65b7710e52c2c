SPECIFICATION Spec
CONSTANTS
  s0 = s0
  s1 = s1
  s2 = s2
  s3 = s3
  p1 = p1
  p2 = p2
  p3 = p3
  p4 = p4
  p5 = p5
  t1 = t1
  t2 = t2
  t3 = t3
  t4 = t4
  Slots = {s0, s1, s2}
  slot_0 = s0
  Pages = {p1, p2}
  Tasks = {t1, t2}
  Prefetchers = {}
  Depth = 1
  OrderedIO = FALSE
  NoSlot = NoSlot
  NoPage = NoPage
SYMMETRY Symmetry
INVARIANT ReadsLastWrite
