CONSTANTS
  w1 = w1
  e1 = e1
  i1 = i1
  i2 = i2
  u1 = u1
  u2 = u2
  Null = Null
  Workers = {w1}
  Echoes = {e1}
  Items = {i1, i2}
  Urls = {u1, u2}
  ReclaimTicks = 1
  LeaseTicks = 1
  MaxAttempts = 0
  AttemptBound = 1
  Backoff <- MCBackoff
  Window = 1
  Filtered = {}
  Validators = FALSE
  Backdating = FALSE
  ReadEnabled = FALSE
  Routes = {"edit", "init", "retry", "give_up"}
  MaxFaults = 0
SPECIFICATION Spec
INVARIANT NoUnexplainedDuplicate
PROPERTY SettledForGood
