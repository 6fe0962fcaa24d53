SPECIFICATION FairSpec
CONSTANTS
  Keys = {k1}
  Specs <- SpecKinds
  Workers = 1
  Second = 1
  RetryBase = 1
  MaxTime = 1
  MaxEdits = 2
  MaxFaults = 1
PROPERTIES DueIsScanned PauseIsShown RunningResolved
CHECK_DEADLOCK FALSE
