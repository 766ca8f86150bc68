\* No fault and no other wallet: what concurrency alone does.
SPECIFICATION Spec
CONSTANTS
  r1 = r1
  r2 = r2
  r3 = r3
  None = None
  Requests <- TwoRequests
  MaxOutside = 0
  Faults = FALSE
INVARIANTS
  ConcurrentBroadcastsAdmitted
\* All requests may settle.
CHECK_DEADLOCK FALSE
