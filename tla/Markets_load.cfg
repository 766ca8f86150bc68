\* Two markets of one name, two tasks that load, requests that fail.
SPECIFICATION FairSpec
CONSTANTS
  Listing <- AltFirst
  AtFirst = {2}
  Denoms <- TwoTokens
  Native = "bze"
  Symbol <- SameSymbols
  RawSymbol <- OwnSymbols
  Getters = {"orders"}
  Refresher = "refresher"
  Wallet <- Holdings
  Bank = 2
  AtStart <- OneEach
  RawScale = 10
  None = None
  Faults = TRUE
INVARIANTS
  TypeOK
  CacheConsistent
PROPERTIES
  MarketsStayKnown
  MetadataHeals
  BalancesSettle
