\* Two orders of one spec, a cancel of each, no fault.
SPECIFICATION Spec
CONSTANTS
  o1 = o1
  o2 = o2
  s1 = s1
  s2 = s2
  Poll = Poll
  Other = Other
  Orders <- TwoOrders
  SpecOf <- SameSpecs
  Foreign <- NoForeign
  NewForeign = {}
  Amount = 1
  StartTime = 0
  MaxTime = 0
  Tolerance = 0
  MaxCancels <- OneEach
  MaxRestarts = 0
  ReplaceId = {FALSE}
  Faults = FALSE
INVARIANTS
  CancelOnlyOwn
\* Every order may be done.
CHECK_DEADLOCK FALSE
