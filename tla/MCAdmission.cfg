SPECIFICATION Spec
CONSTANTS
  Requests = {r1, r2}
  Checks = {c1}
  Depth = 2
  TTL = 1
  Timeout = 1
  MaxScans = 2
  MaxFaults = 1
INVARIANTS DenyNeedsStableNorm StalenessBounded WaitersHaveFlight
SYMMETRY RequestSymmetry
PROPERTIES CacheNeverGoesBack
CHECK_DEADLOCK FALSE
