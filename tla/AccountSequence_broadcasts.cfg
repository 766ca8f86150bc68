\* Three concurrent broadcasts, one transaction of another wallet, faults.
SPECIFICATION FairSpec
CONSTANTS
  r1 = r1
  r2 = r2
  r3 = r3
  None = None
  Requests <- ThreeRequests
  MaxOutside = 1
  Faults = TRUE
INVARIANTS
  TypeOK
  QueryAloneInLock
PROPERTIES
  FreshReservation
  ImplementsBroadcastOnce
  EveryBroadcastSettles
\* All requests may settle.
CHECK_DEADLOCK FALSE
