CONSTANTS
  c1 = c1
  f1 = f1
  i1 = i1
  i2 = i2
  f2 = f2
  i3 = i3
  p1 = p1
  p2 = p2
  Null = Null
  Workers = {c1, f1, f2}
  Flushers = {f1, f2}
  Items = {i1, i2, i3}
  Processes = {p1}
  Process <- OneProcess
  DripLimit = 1
  QueueCap = 1
  DowngradeBatch = 1
  WindowTicks = 1
  ReclaimTicks = 1
  MaxAttempts = 2
  AttemptBound = 3
  Backoff <- MCBackoff
  Routes = {}
  MaxFaults = 0
SPECIFICATION Spec
INVARIANTS TypeOK HeldItemsHavePayload HourlyCap QueueWithinCap
SYMMETRY Symmetry
