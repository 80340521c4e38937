\* No check for deadlock: a run, and a binary that was told to, ends.
SPECIFICATION FairSpec
CONSTANTS
  Hosts = {"binary", "demo"}
  Workspaces = {1, 2, 3}
  BinaryWorkspaces = {1, 2}
  MaxFailures = 1
  None = None
  Runs <- MCRuns
  Providers <- MCProviders
  Nutanix = "nutanix"
CHECK_DEADLOCK FALSE
INVARIANTS
  NilMeansAllEnded
  NeverForbidden
  EngagedBeforeObjects
  SuccessMeansReady
  TenantsAreApart
PROPERTIES
  RunnerLeavesNothing
  RunEnds
  Onboarded
