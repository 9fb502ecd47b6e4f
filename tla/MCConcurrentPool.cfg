SPECIFICATION FairSpec
CONSTANTS
  alice = alice
  bob = bob
  red = red
  blue = blue
  Nothing = Nothing
  Nobody = Nobody
  Workers <- TwoWorkers
  Values <- TwoValues
  MaxCalls = 2
  MaxIds = 4
INVARIANTS
  TypeOK
  PoolsAgree
PROPERTIES
  ImplementsPool
  CallsReturn
CHECK_DEADLOCK FALSE
