\* One order and two cancels under fairness; other orders come and go.
SPECIFICATION FairSpec
CONSTANTS
  o1 = o1
  o2 = o2
  s1 = s1
  s2 = s2
  Poll = Poll
  Other = Other
  Orders <- OneOrder
  SpecOf <- OneSpec
  Foreign <- NoForeign
  NewForeign <- NewOtherSpec
  Amount = 1
  StartTime = 1
  MaxTime = 1
  Tolerance = 0
  MaxCancels <- TwoCancels
  MaxRestarts = 0
  ReplaceId = {TRUE}
  Faults = FALSE
PROPERTIES
  ConfirmedCancelSettles
\* Every order may be done.
CHECK_DEADLOCK FALSE
