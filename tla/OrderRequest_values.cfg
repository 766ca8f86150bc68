\* One order and its cancel: every price, amount, exponents, id and key.
SPECIFICATION Spec
CONSTANTS
  PriceSigDigits = 2
  Markets <- SomeMarkets
  Steps = {1, 3, 7, 25, 99, 100, 101, 250}
  Lots = {1, 2, 3, 4, 5, 8, 200}
  Keys <- KeyBytes
  HashOf <- Hashes
  Hrp <- Bze
  ClientIds <- SomeIds
  OrderId <- SomeId
  Gas = 250001
  GasPrice <- SomeGasPrice
  Account <- SomeAccount
  Names <- SomeNames
  MaxTrades = 2
  None = None
INVARIANTS
  TypeOK
  ArrivesAsAsked
  RefusesWithTheChain
  TradesRecognised
\* The order ends.
CHECK_DEADLOCK FALSE
