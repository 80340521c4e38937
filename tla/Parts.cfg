\* No check for deadlock: every part ends, at its bound.
CONSTANTS
  Reconcilers = {r1, r2}
  Groups = {"cluster"}
  DefaultExports = {"workspace", "core"}
  GroupOf <- MCGroupOf
  MaxClaimRetries = 2
  MaxSetbacks = 1
  Binaries = {"core", "bootstrap", "control-plane", "nutanix", "infrastructure", "demo"}
  Consumers = {w1, w2}
  None = None
  WebhookFlags = {None, w1}
  GateFlags <- MCGateFlags
  DemoWorkspaces = {w1}
  MaxFailedCalls = 1
  MaxRestarts = 1
  Workspaces = {1, 2, 3}
  Reasons = {r1, r2}
  TopN = 2
  MaxFailureReasons = 1
  MaxReconciles = 3
  MaxFailures = 2
  MaxExported = 4
  Calls = {c1, c2, c3}
  Hosts = {h1, h2}
  Nobody = Nobody
  Indexes = 2
  BrokenHosts = {h2}
  MaxIndexErrors = 1
  Waiters = {w1, w2}
  Targets = {1, 2}
  MaxBegins = 2
  MaxCompletions = 4
  MaxLag = 3
  MaxPause = 1
  MaxNoise = 1
  Quiet = 4
  Deadline = 9
  Peak = 4
  Curves <- MCCurves
  Retains = {0, 2}
  Work = 1
  MaxTransients = 2
  Clusters = {"*", "w1"}
  Kinds <- MCKinds
  MaxRequests = 3
  FastSteps <- MCFastSteps
  SlowSteps <- MCSlowSteps
  NeedsOf <- MCNeedsOf
  Capabilities = {"container runtime", "registry"}
  MaxChanges = 2
  MaxBytes = 5
  MaxPiece = 3
SPECIFICATION PartsSpec
CHECK_DEADLOCK FALSE
INVARIANTS
  ReadyMeansGranted
  NobodyMissed
  FieldsAreIndexed
  CleanExitIsDrained
  SeriesConserved
  AccountsBalance
  ShardVerdictsAreTrue
  ReachedIsWoken
  VerdictIsRight
  RetentionIsExact
  
  FitIsTheTrend
  TrafficIsReal
  ZeroMeansAllRan
  TimelineIsWhole
PROPERTIES
  RaceIsSurvived
  NoNameIsRejected
  BoundIsServed
