SPECIFICATION Spec
CONSTANTS
  Specs <- MCSpecs
  AzureErrors = {"ResourceNotFound", "ResourceGroupNotFound", "AuthorizationFailed", "OperationNotAllowed", "Timeout"}
  Disruptions = {"api", "azure", "crash", "edit", "delete", "recreate", "portal", "secret"}
  MaxDisruptions = 2
INVARIANTS TypeOK NoOrphan PassActsForItsCR GuardInv WorkScheduled
PROPERTIES KeepsLifecycle
CHECK_DEADLOCK FALSE
