SPECIFICATION FairSpec
CONSTANTS
  Specs <- OneSpec
  AzureErrors = {}
  Disruptions = {"portal"}
  MaxDisruptions = 1
PROPERTIES KubeconfigIsCurrent
