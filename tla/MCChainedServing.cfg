SPECIFICATION FairSpec
CONSTANTS
  Calls = {c1, c2}
  Producers = {p1, p2}
  Consumers = {k1}
  Deployments <- MCDeployments
  MaxFan = 2
  Nobody = Nobody
INVARIANTS
  OwnReference
  GathersAll
  CleanIsConsumed
PROPERTY
  DriverReturns
CHECK_DEADLOCK FALSE
