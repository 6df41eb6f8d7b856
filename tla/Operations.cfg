SPECIFICATION MCSpec
CONSTANTS
  p1 = p1
  p2 = p2
  c1 = c1
  c2 = c2
  c3 = c3
  la = la
  lb = lb
  q1 = q1
  q2 = q2
  q3 = q3
  v1 = v1
  v2 = v2
  LogProcs = {p1, p2}
  Changes = {c1, c2, c3}
  Refused = {c3}
  Loggers = {la, lb}
  ChangeOf <- MCChangeOf
  AsCoded = AsCoded
  HealthProcs = {p1, p2}
  Views = {v1, v2}
  Checks <- MCChecks
  VersionOf <- MCVersionOf
  Engines = {"rw"}
  Queries <- MCQueries
  MaxChanges = 2
  Callbacks = {k1, k2, k3, k4}
  Enabling = {k1, k2}
  Selects = {q1, q2, q3}
  TextOf <- MCTextOf
  SetupThreads = {main, other}
  Main = main
  Channels = {a, b}
  MaxObjects = 4
INVARIANTS
  OperationsTypeOK
  RestoredOrNewer
  
  RedisDownIsReported
  ListenerOfRepository
  ExplainedOnce
  SubscriptionsKept
CHECK_DEADLOCK FALSE
