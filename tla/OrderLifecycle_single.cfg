\* One order; a foreign order of the same spec; a restart and faults.
SPECIFICATION Spec
CONSTANTS
  o1 = o1
  o2 = o2
  s1 = s1
  s2 = s2
  Poll = Poll
  Other = Other
  Orders <- OneOrder
  SpecOf <- OneSpec
  Foreign <- ForeignTwin
  NewForeign = {}
  Amount = 2
  StartTime = 1
  MaxTime = 2
  Tolerance = 0
  MaxCancels <- OneCancel
  MaxRestarts = 1
  ReplaceId = {TRUE, FALSE}
  Faults = TRUE
INVARIANTS
  TypeOK
  CanceledIsConfirmed
  CanceledIsOffBook
  CancelOnlyOwn

  
\* Every order may be done.
CHECK_DEADLOCK FALSE
