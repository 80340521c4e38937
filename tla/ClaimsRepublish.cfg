CONSTANTS
  Exports = {"core", "bootstrap", "acme"}
  Order <- MCOrder
  ContractOf <- MCContractOf
  KnownContracts = {"core", "bootstrap", "control-plane", "infrastructure"}
  Named <- MCNamed
  Wanted <- MCWanted
  MaxIdentities = 2
  MaxWithdrawals = 0
  MaxPublishes = 2
  MaxTrouble = 2
  MaxFaults = 0
SPECIFICATION ClaimsSpec
CHECK_DEADLOCK FALSE
PROPERTIES
  RepublishKeepsClaims
