SPECIFICATION FairSpec
CONSTANTS
  Requests = {r1}
  Streams = {s1}
  Keys = {}
  Schedulers = {d1, d2}
  Jobs = {}
  DispatchWorkers = 1
  None = None
PROPERTIES TriggerSlotFreed ShutdownReturns NewTermIsScheduled
CHECK_DEADLOCK FALSE
