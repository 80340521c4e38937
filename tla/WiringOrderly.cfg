CONSTANTS
  Engagements = {e1, e2}
  Workspaces = {1, 2}
  None = None
  MaxRunnables = 1
  DuplicateEngage = FALSE
  RejoinEarly = FALSE
  LeaveDuringEngage = TRUE
  Reasons = {"manager-unavailable", "setup-failed"}
  TopN = 1
  MaxFailureReasons = 2
  MaxReconciles = 0
  MaxFailures = 2
  MaxSnapshots = 1
SPECIFICATION WTSpec
CHECK_DEADLOCK FALSE
SYMMETRY EngagementSymmetry
INVARIANTS
  HeldForASetup
  CountIsOfTheServed
  RejoinedIsWired
PROPERTIES
  ServesInTurn
