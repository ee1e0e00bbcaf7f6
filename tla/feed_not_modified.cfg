CONSTANTS
  w1 = w1
  e1 = e1
  i1 = i1
  i2 = i2
  u1 = u1
  Null = Null
  Workers = {w1}
  Echoes = {e1}
  Items = {i1, i2}
  Urls = {u1}
  ReclaimTicks = 2
  LeaseTicks = 3
  MaxAttempts = 2
  AttemptBound = 3
  Backoff <- MCBackoff
  Window = 2
  Filtered = {}
  Validators = TRUE
  Backdating = FALSE
  ReadEnabled = FALSE
  Routes = {}
  MaxFaults = 0
SPECIFICATION FairSpec
PROPERTY FailedPostsAreRetried
