CONSTANTS
  c1 = c1
  f1 = f1
  f2 = f2
  i1 = i1
  i2 = i2
  n1 = n1
  n2 = n2
  Null = Null
  Former = Former
  NoHolder = NoHolder
  Workers = {c1, f1, f2}
  Flushers = {f1, f2}
  Items = {i1, i2}
  Instances = {n1, n2}
  Instance <- Apart
  Weight <- Weights
  MailCap = 2
  JobTicks = 2
  MaxPresses = 1
  MaxFaults = 1
  ReclaimTicks = 1
  MaxAttempts = 2
  AttemptBound = 3
  Backoff <- MCBackoff
SPECIFICATION FairSpec
INVARIANTS TypeOK OneInstanceFlushes NoUnexplainedMail HeldItemsAreKept
PROPERTIES ImplementsOutbox CollectedItemsAreMailed
CHECK_DEADLOCK FALSE
