SPECIFICATION FairSpec
CONSTANTS
  Config <- ShippedConfigs
  MaxDelay = 3
  MaxWindow = 1
  MaxOpens = 3
  MaxCount = 3
  MaxCalls = 3
  MaxOps = 0
PROPERTIES RecoversWhenHealthy
