SPECIFICATION FairSpec
CONSTANTS
  Key = {k1}
  TradeTerms <- OneLong
  LimitTerms <- OneOrder
  Prices = {1, 3}
  MaxOpens = 2
  MaxMoves = 1
  MaxFaults = 1
  maxRetries = 2
INVARIANTS KeeperTypeOK InHandIsQueued WatchesWhatIsOpen WatchInv
PROPERTIES DueUnlessRaced
