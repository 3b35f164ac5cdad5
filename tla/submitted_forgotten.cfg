SPECIFICATION FairSpec
CONSTANTS
  Order = {o1}
  NoOrder = NoOrder
PROPERTY SubmittedFollowedUp
CHECK_DEADLOCK FALSE
