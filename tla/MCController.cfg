SPECIFICATION Spec
CONSTANTS
  Keys = {k1}
  Specs <- SpecPair
  Workers = 1
  Second = 2
  RetryBase = 1
  MaxTime = 2
  MaxEdits = 3
  MaxFaults = 1
INVARIANTS TypeOK ConditionsCoherent
PROPERTIES ScheduleHonoured StatusNeverRegresses NeverMarksStoppedResource
CHECK_DEADLOCK FALSE
