SPECIFICATION FairSpec
CONSTANTS
  Key = {k1}
  TradeTerms <- OneLong
  LimitTerms <- NoOrder
  Prices = {2, 3}
  MaxOpens = 2
  MaxMoves = 1
  MaxFaults = 0
  maxRetries = 2
PROPERTIES DueIsExecuted
