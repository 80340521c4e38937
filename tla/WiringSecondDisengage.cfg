CONSTANTS
  Engagements = {e1, e2}
  Workspaces = {1}
  None = None
  MaxRunnables = 1
  DuplicateEngage = FALSE
  RejoinEarly = TRUE
  LeaveDuringEngage = FALSE
SPECIFICATION Spec
CHECK_DEADLOCK FALSE
PROPERTY DisengageSparesOthers
