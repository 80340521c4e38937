CONSTANTS
  Engagements = {e1, e2}
  Workspaces = {1}
  None = None
  MaxRunnables = 1
  DuplicateEngage = TRUE
  RejoinEarly = TRUE
  LeaveDuringEngage = TRUE
SPECIFICATION FairSpec
CHECK_DEADLOCK FALSE
INVARIANTS
  OneOwner
  StopMeansQuiet
  FailedIsUnwired
PROPERTIES
  LeavingReleases
  StartReturnsEventually
