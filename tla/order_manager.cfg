SPECIFICATION FairSpec
CONSTANTS
  c1 = c1
  c2 = c2
  c3 = c3
  i1 = i1
  i2 = i2
  Call = {c1, c2, c3}
  Intent = {i1, i2}
  IntentOf <- MCIntentOf
  Twap = {c2, c3}
  NoCall = NoCall
  TwapId = TwapId
  EmptyId = EmptyId
  Reported = {"FILLED"}
  MaxRestart = 1
  MaxRefused = 1
INVARIANTS TypeOK OneOrderPerIntent
PROPERTIES RestartKnowsOrders CallersAnswered
CHECK_DEADLOCK FALSE
