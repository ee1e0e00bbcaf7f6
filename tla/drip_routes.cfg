CONSTANTS
  c1 = c1
  f1 = f1
  i1 = i1
  i2 = i2
  p1 = p1
  p2 = p2
  Null = Null
  Workers = {c1, f1}
  Flushers = {f1}
  Items = {i1, i2}
  Processes = {p1, p2}
  Process <- TwoProcesses
  DripLimit = 1
  QueueCap = 1
  DowngradeBatch = 1
  WindowTicks = 1
  ReclaimTicks = 1
  MaxAttempts = 0
  AttemptBound = 1
  Backoff <- MCBackoff
  Routes = {"toggle", "limit", "retry", "give_up"}
  MaxFaults = 1
SPECIFICATION Spec
PROPERTY DeliveredForGood
