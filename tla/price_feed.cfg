SPECIFICATION FairSpec
CONSTANTS
  Symbols = {btc, eth}
  Quotes <- ThreeQuotes
  Excess = 10
  ChanCap = 1
  MaxWire = 2
  MaxFaults = 2
INVARIANTS PriceFeedTypeOK
PROPERTIES FreshPrice StopsWhenCanceled
CHECK_DEADLOCK FALSE
