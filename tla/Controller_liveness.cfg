SPECIFICATION FairSpec
CONSTANTS
  Specs <- MCSpecs
  AzureErrors = {"AuthorizationFailed", "OperationNotAllowed"}
  Disruptions = {"api", "azure", "crash", "edit", "delete", "recreate"}
  MaxDisruptions = 2
INVARIANTS AccessImpliesKubeconfig AnnotationBacked
PROPERTIES DeletionCompletes StateCollected Converges CredentialsStored
CHECK_DEADLOCK FALSE
