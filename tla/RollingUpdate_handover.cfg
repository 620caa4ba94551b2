SPECIFICATION FairSpec
CONSTANTS
  NoPod = NoPod
  Settings <- MCSettings
  HostIdentity = FALSE
  LeaderElect = TRUE
  Specs <- MCSpecs
  AzureErrors = {"AuthorizationFailed"}
  Disruptions = {"delete", "crash", "startup", "portal", "secret"}
  MaxDisruptions = 1
INVARIANTS TypeOK ElectedActAsOne HandoverInv WorkScheduled UsablePodRemains
PROPERTIES KeepsLifecycle OperatorSurvives Converges CredentialsStored DeletionEnds
CHECK_DEADLOCK FALSE
