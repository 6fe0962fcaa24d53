SPECIFICATION FairSpec
CONSTANTS
  f1 = f1
  f2 = f2
  s1 = s1
  Findings = {f1}
  Critical = {f1}
  Matches <- OnePair
  Deliveries = {d1, d2}
  TTL = 1
  MaxPerPost = 1
  Never = Never
  MaxTime = 2
  MaxAcks = 1
  MaxFaults = 1
INVARIANTS TypeOK SlackOncePerWindow WebhookOncePerWindow WebhookRemembersDelivered AckQuiets
PROPERTY WebhookDelivered
CHECK_DEADLOCK FALSE
