SPECIFICATION FairSpec
CONSTANTS
  Config <- SoundConfigs
  MaxDelay = 3
  MaxWindow = 2
  MaxOpens = 3
  MaxCount = 3
  MaxCalls = 3
  MaxOps = 2
INVARIANTS TypeOK HalfOpenAdmits OpenHasAttempt
PROPERTIES BackoffGrows RecoversWhenHealthy
