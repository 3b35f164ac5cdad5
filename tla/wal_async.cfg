CONSTANTS
  Intent = {i1, i2}
  Thread = {t1, t2}
  Sentinel = Sentinel
  QueueSize = 4
  MaxCalls = 2
  MaxErrors = 0
  MayClose = FALSE
SPECIFICATION FairSpec
PROPERTY ImplementsSyncJournal
PROPERTY WritesLand
\* The threads stop after MaxCalls calls.
CHECK_DEADLOCK FALSE
