\* No check for deadlock: both controllers come to rest.
CONSTANTS
  Exports = {"core", "bootstrap", "acme"}
  Order <- MCOrder
  ContractOf <- MCContractOf
  KnownContracts = {"core", "bootstrap", "control-plane", "infrastructure"}
  Named <- MCNamed
  Wanted <- MCWanted
  MaxIdentities = 3
  MaxWithdrawals = 1
  MaxPublishes = 2
  MaxTrouble = 2
  MaxFaults = 1
  Reconcilers = {r1}
  Groups = {g1, g2}
  Starts = {"initialized", "absent", "foreign"}
  MaxBinds = 1
  MaxUnbinds = 1
  MaxTakeOvers = 1
  MaxFailures = 1
  MaxVersion = 6
SPECIFICATION ControllersSpec
CHECK_DEADLOCK FALSE
INVARIANT ClaimsAreAttributed
PROPERTIES
  ClaimsConverge
  ForeignRolesKept
  WritesChangeTheRole
  RolesGrowWithBindings
