SPECIFICATION Spec
CONSTANTS
  o1 = o1
  o2 = o2
  s1 = s1
  s2 = s2
  Order = {o1, o2}
  Symbol = {s1, s2}
  SymbolOf <- MCSymbolOf
  Unidentified = {o2}
  IssueLimit = 1
INVARIANTS TypeOK StaleIsMissed FlagFollowsService
