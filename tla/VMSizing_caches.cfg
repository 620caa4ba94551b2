SPECIFICATION FairSizing
CONSTANTS
  NoClass = NoClass
  Workers = {w1, w2}
  Classes = {"web", "db"}
  Needs <- MCNeeds
  ClassMaps <- MCClassMaps
  Sizes <- MCSizes
  Offers <- MCOffers
  Capacity <- MCCapacity
  Requests <- MCRequests
  ClassTTL = 1
  SizeTTL = 1
  MaxCall = 1
  Disruptions = {"listing", "crash", "classes", "offer"}
  MaxDisruptions = 2

INVARIANTS SizingTypeOK SizeExplained
PROPERTIES SizesCatchUp
CHECK_DEADLOCK FALSE
