SPECIFICATION Spec
CONSTANTS
  Specs <- OneSpec
  AzureErrors = {}
  Disruptions = {}
  MaxDisruptions = 0
PROPERTIES NoNeedlessPut
