SPECIFICATION FairSpec
CONSTANTS
  Specs <- OneSpec
  AzureErrors = {}
  Disruptions = {"crash"}
  MaxDisruptions = 1
PROPERTIES AccessRecorded
