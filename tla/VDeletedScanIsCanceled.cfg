SPECIFICATION Spec
CONSTANTS
  Keys = {k1}
  Specs <- SpecPair
  Workers = 1
  Second = 2
  RetryBase = 1
  MaxTime = 2
  MaxEdits = 3
  MaxFaults = 1
INVARIANT DeletedScanIsCanceled
CHECK_DEADLOCK FALSE
