SPECIFICATION Spec
CONSTANTS
  c1 = c1  c2 = c2  c3 = c3
  k1 = k1  k2 = k2  i1 = i1
  NoCall = NoCall
  Call = {c1, c2, c3}
  Key = {k1, k2}
  Intent = {i1}
  KeyOf <- MCKeyOf
  IntentOf <- MCIntentOf
  WalJournal = FALSE
  MaxCrash = 1
  MaxExpire = 0
  MaxRefused = 0
  MaxError = 1
  CacheSize = 1
SYMMETRY Retries
INVARIANTS TypeOK OneOrderPerRemembering CallerTold DurableTruth
CHECK_DEADLOCK FALSE
