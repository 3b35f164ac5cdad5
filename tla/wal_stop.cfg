CONSTANTS
  Intent = {i1}
  Thread = {t1, t2}
  Sentinel = Sentinel
  QueueSize = 2
  MaxCalls = 2
  MaxErrors = 1
  MayClose = TRUE
SPECIFICATION Spec
INVARIANT TypeOK
INVARIANT AppendedIsPersisted
INVARIANT StopDrains
CHECK_DEADLOCK FALSE
