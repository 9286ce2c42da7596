SPECIFICATION OneProcessSpec
CONSTANTS
  c1 = c1
  c2 = c2
  w1 = w1
  w2 = w2
  p1 = p1
  p2 = p2
  NoOne = NoOne
  Instances = {p1}
  Callers = {c1, c2}
  Writers = {w1, w2}
  Home <- OneHome
  NullVersions = {1}
  k1 = k1
  k2 = k2
  k3 = k3
  Calls = {k1, k2, k3}
  Threshold = 2
  OpenFor = 3
  Timeout = 2
SYMMETRY CallSymmetry
CHECK_DEADLOCK FALSE
INVARIANTS
  TypeOK
  AckedInvalidationSticks
  StaleOnlyIfOwed
  SingleFlight
  MarkDiesWithLoads
  DirectReadsFresh
