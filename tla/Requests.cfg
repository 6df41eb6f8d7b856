SPECIFICATION MCSpec
CONSTANTS
  r1 = r1
  r2 = r2
  r3 = r3
  BindThreads = {t1, t2}
  MaxSwitches = 2
  Tabs = {tab1, tab2}
  Secrets = {"s1", "s2"}
  None = None
  MaxEvents = 3
  MaxRequests = 1
  Conns = {c1, c2}
  SqlStatements = {s1, s2, s3, s4}
  Tables = {ta, tb}
  ea = ea
  eb = eb
  ga = ga
  Extras <- MCExtras
  Gauges <- MCGauges
  SampleOf <- MCSampleOf
  TryNumber = 2
  WaitTimeout = 4
  Tries = 3
  MaxTime = 6
  Receivers = {r1, r2, r3}
  PidOf <- MCPidOf
  ThreadNames = {h1, h2}
  Frames = {f1, f2}
  Sizes = {1, 2, 3}
  Limits = {0, 2, 3}
  MaxObjs = 5
INVARIANTS
  RequestsTypeOK
  BindComesBack
  CheckTriesItsEngine
  LinkedIsAccepted
  LogoutHolds
  LoneLoginCompletes
  FailureIsCounted
  ObservedOnce
  SuccessIsComplete
  CauseIsRaised
  NoFalsePass
  ScrapeIsASet
  StacksAreComplete
  BiggestAreKept
CHECK_DEADLOCK FALSE
