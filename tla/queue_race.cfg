CONSTANTS
  c1 = c1
  f1 = f1
  f2 = f2
  r1 = r1
  r2 = r2
  i1 = i1
  i2 = i2
  p1 = p1
  p2 = p2
  Null = Null
  Workers = {c1, f1, r1}
  Checks = {c1}
  Flushers = {f1}
  Requests = {r1}
  Items = {i1}
  Posts = {p1, p2}
  Mode = "review"
  SendTicks = 2
  SlotTicks = 1
  LastSlot = 2
  PlanCap = 2
  MaxEchoes = 2
  MaxPresses = 2
  MaxFaults = 1
  ReclaimTicks = 1
  MaxAttempts = 2
  AttemptBound = 3
  Backoff <- MCBackoff
SPECIFICATION Spec
INVARIANTS TypeOK SentWasPublished NoUnexplainedDuplicate DraftsWaitForOwner DeletedFeedsStaySilent HandledItemsAreQueued
SYMMETRY Symmetry
CHECK_DEADLOCK FALSE
