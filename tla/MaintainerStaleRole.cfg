CONSTANTS
  Reconcilers = {r1}
  Groups = {g1}
  Starts = {"initialized"}
  MaxBinds = 1
  MaxUnbinds = 1
  MaxTakeOvers = 0
  MaxFailures = 0
  MaxVersion = 9
SPECIFICATION FairSpec
CHECK_DEADLOCK FALSE
PROPERTIES
  RolesFollowBindings
