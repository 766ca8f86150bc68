\* One order and one cancel, no fault.
SPECIFICATION Spec
CONSTANTS
  o1 = o1
  o2 = o2
  s1 = s1
  s2 = s2
  Poll = Poll
  Other = Other
  Orders <- OneOrder
  SpecOf <- OneSpec
  Foreign <- NoForeign
  NewForeign = {}
  Amount = 1
  StartTime = 1
  MaxTime = 1
  Tolerance = 0
  MaxCancels <- OneCancel
  MaxRestarts = 0
  ReplaceId = {FALSE}
  Faults = FALSE
PROPERTIES
  CreatedOnce
\* Every order may be done.
CHECK_DEADLOCK FALSE
