CONSTANTS
  Nobody = Nobody
  Wrong = Wrong
  i1 = i1
  i2 = i2
  i3 = i3
  Clients = {q1, q2}
  Requests = {q1, q2}
  MaxLinks = 3
  ResendLimit = 1
  MaxFailures = 1
  MaxForgot = 1
  MaxEpoch = 2
  MaxRequests = 3
  MaxFaults = 1
  Users = {u1, u2}
  Browsers = {n1}
  States = {s1, s2}
  MaxClients = 2
  MaxCookies = 2
  MaxCallbacks = 2
  AccountUsers = {a1, a2, v1, v2}
  Admins = {a1, a2}
  Emails = {u1, u2}
  Codes = {c1}
  Sweepers = {j1}
  AccountPresses = 3
  AccountFaults = 1
  Keys = {m1, k1, h1, g1, b1, b2}
  Mastodon = {m1}
  Bluesky = {k1}
  Webhooks = {h1}
  GitHub = {g1}
  Microblog = {b1, b2}
  Given = {m1}
  Rows = {r1, r2, r3, r4}
  Echoes = {e1}
  DestCap = 2
  DestPresses = 4
  Feeds = {f1, f2}
  Urls = {x1, x2}
  Folders = {d1}
  Phrases = {u1, u2}
  Checks = {w1}
  FeedCap = 1
  FeedPresses = 3
  Items = {i1, i2, i3}
  Date <- Dates
  MaxId = 4
  ItemCap = 2
  StarCap = 1
  PageSize = 1
  MaxActs = 4
  Kinds = {"mastodon", "email", "bluesky", "microblog", "matrix", "discord", "telegram", "webhook", "github"}
  NImages = 2
  MaxSessions = 2
  MaxClaims = 2
  MaxEvents = 2
  ReclaimTicks = 1
  MaxAttempts = 2
  AttemptBound = 3
  Backoff <- NextTick
SPECIFICATION TenantSpec
INVARIANTS PartsTypeOK SignInIsSound AccountsAreSound ConnectionsAreSound DestinationsAreSound  ReaderIsSound SendersAreSound
PROPERTIES StepsAreSound
SYMMETRY Symmetry
CHECK_DEADLOCK FALSE
