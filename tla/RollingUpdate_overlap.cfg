SPECIFICATION Spec
CONSTANTS
  NoPod = NoPod
  Settings <- OneSetting
  HostIdentity = FALSE
  LeaderElect = FALSE
  Specs <- OneSpec
  AzureErrors = {"AuthorizationFailed"}
  Disruptions = {}
  MaxDisruptions = 0
INVARIANTS NeverTheSameOne
CHECK_DEADLOCK FALSE
