\* Two pairs, requests that fail, a websocket that comes and goes.
SPECIFICATION FairSpec
CONSTANTS
  Pairs <- TwoPairs
  Levels = {"bid", "ask"}
  Bids = {"bid"}
  Moving <- OneMoving
  MaxAmount = 1
  Trades = {"t1", "t2"}
  Window = 2
  MaxTrades = 2
  Unpolled = Unpolled
  FirstPairs <- BothPairs
  Faults = TRUE
INVARIANTS
  TypeOK
  StreamRebuildsBook
  TapeInOrder
PROPERTIES
  TradesPublished
