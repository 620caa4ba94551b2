SPECIFICATION FairSpec
CONSTANTS
  ours = ours
  other = other
  NoClass = NoClass
  NoPool = NoPool
  Workers = {ours, other}
  Reconciler = ours
  Classes = {"web", "db"}
  Needs <- MCNeeds
  ClassMaps <- MCClassMaps
  Sizes <- MCSizes
  Offers <- MCOffers
  Capacity <- MCCapacity
  Requests <- MCRequests
  ClassTTL = 1
  SizeTTL = 1
  MaxCall = 1
  PoolNames = {"system", "a", "b"}
  System = "system"
  NodePools <- MCNodePools
  Topologies <- MCTopologies
  MaxNodes = 1
  OtherRequests <- MCOther
  Disruptions = {"azure", "listing", "crash", "edit", "portal", "scale"}
  MaxDisruptions = 1
INVARIANTS TypeOK
PROPERTIES PoolsConverge
CHECK_DEADLOCK FALSE
