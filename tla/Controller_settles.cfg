SPECIFICATION FairSpec
CONSTANTS
  Specs <- MCSpecs
  AzureErrors = {}
  Disruptions = {"edit", "delete"}
  MaxDisruptions = 3
PROPERTIES SecretConverges ReadyAfterRecord
CHECK_DEADLOCK FALSE
