SPECIFICATION Spec
CONSTANTS
  Specs <- OneSpec
  AzureErrors = {"ServicePrincipalNotFound"}
  Disruptions = {"azure", "delete"}
  MaxDisruptions = 2
INVARIANTS NoOrphan
CHECK_DEADLOCK FALSE
