SPECIFICATION Spec
CONSTANTS
  Clients = {c1, c2}
  Requests = {r1, r2}
  None = none
  Ttl = 3
  PerSecond = 2
  NewTtls = {1, 3}
  MaxRetries = 2
  Tokens = {t1}
  Lives = {1, 2}
  ListTime = 1
  Window = 4
  MaxRequests = 2
  Delay = 1
  MaxTime = 4
  Salts = {x1, x2}
  s1 = s1
  s2 = s2
  s3 = s3
  MaxConnections = 1
  People = {"ann", "bob"}
  Reviewers = {"ann"}
  MaxAttempts = 2
  MaxMoves = 1
  Other = other
  MaxCalls = 4
  ToolWindow = 2
  Prompts = {"text", "trick"}
  Suspect = {"trick"}
  Second = 1
  Memory = 3
  MaxRapid = 1
  MaxSimilar = 1
  Signals = {"SIGTERM", "SIGINT"}
  Messages = {"a", "b", "c", "d", "bad"}
  Malformed = {"bad"}
  CacheTtl = 2
  MaxCacheSize = 3
  MaxAccepted = 5
  Authenticated = {"request"}
  Keys = {k1, k2}
  FirstKey = k1
  Alien = alien
  CacheMaxAge = 2
  MaxTokenAge = 2
  Moments = 3
  MaxOpen = 2
  MaxFaults = 1
  Environments = {"production", "development", "test"}
  Strategies = {"ignore", "error"}
  MaxMishaps = 2
  Life = 3
  Cap = 6

INVARIANT LimitIsPerMinute
CHECK_DEADLOCK FALSE
