\* Every call returns in the end, and no other is made.
CONSTANTS
  Calls = {c1, c2}
  Hosts = {h1}
  Nobody = Nobody
  Indexes = 2
  BrokenHosts = {}
  MaxIndexErrors = 1
SPECIFICATION ShardSpec
CHECK_DEADLOCK FALSE
INVARIANT EngagedIsWhole
