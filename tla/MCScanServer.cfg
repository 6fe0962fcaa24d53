SPECIFICATION Spec
CONSTANTS
  Requests = {r1, r2}
  Streams = {s1}
  Keys = {k1}
  Schedulers = {d1, d2}
  Jobs = {j1}
  DispatchWorkers = 1
  None = None
INVARIANTS TypeOK OneScanAtATime SavesInTimestampOrder TriggerSlotExact OneScheduler BackgroundCounted TriggersDrained
CHECK_DEADLOCK FALSE
