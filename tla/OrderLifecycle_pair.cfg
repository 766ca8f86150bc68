\* Two orders of one spec; the first may be canceled.
SPECIFICATION Spec
CONSTANTS
  o1 = o1
  o2 = o2
  s1 = s1
  s2 = s2
  Poll = Poll
  Other = Other
  Orders <- TwoOrders
  SpecOf <- SameSpecs
  Foreign <- NoForeign
  NewForeign = {}
  Amount = 1
  StartTime = 0
  MaxTime = 0
  Tolerance = 0
  MaxCancels <- OneCancel
  MaxRestarts = 0
  ReplaceId = {TRUE, FALSE}
  Faults = FALSE
INVARIANTS
  ClaimsDisjoint
\* Every order may be done.
CHECK_DEADLOCK FALSE
