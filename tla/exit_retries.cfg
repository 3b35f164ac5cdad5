SPECIFICATION Spec
CONSTANTS
  b1 = b1
  b2 = b2
  p1 = p1
  nifty = nifty
  Name = {nifty}
  Bar = {b1, b2}
  Price = {p1}
  PriceOf <- MCPriceOf
  Reason = {"SL_HIT", "TARGET_HIT"}
  Key <- MCKey
  CacheSize = 4
  MaxRefused = 0
  ExitRetries = 2
PROPERTIES GivenUpAfterRetries
