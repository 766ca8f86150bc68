\* Two orders at one price, other trades at it, one restart.
SPECIFICATION Spec
CONSTANTS
  Orders <- TwoOrders
  Other = Other
  Stranger = Stranger
  Buckets <- OneBucket
  BucketOf <- SameBucket
  Amount <- TwoLots
  Sizes = {1, 2}
  HistoryLimit = 2
  MaxTrades = 2
  MaxTime = 2
  MaxRestarts = 1
  Faults = TRUE
INVARIANTS
  TypeOK
  CreditsWithinTrade
  
  
PROPERTIES
  
  
  ImplementsPriceFills
\* Every order and trade may be past.
CHECK_DEADLOCK FALSE
