SPECIFICATION Spec
CONSTANTS
  f1 = f1
  f2 = f2
  s1 = s1
  Findings = {f1, f2}
  Critical = {f1, f2}
  Matches <- OnePair
  Deliveries = {d1, d2}
  TTL = 1
  MaxPerPost = 1
  Never = Never
  MaxTime = 2
  MaxAcks = 1
  MaxFaults = 1
INVARIANT SlackRemembersPosted
CHECK_DEADLOCK FALSE
