SPECIFICATION Spec
CONSTANTS
  usdcScale = 10
  pScale = 1
  PairsCount = 2
  GroupOf <- OneGroup
  Thresholds = {80, 90}
  ListedWith <- Listed
  Rates = {415}
  Amounts = {30}
  Active = {1}
  Trades <- LongAndShort
  MaxOps = 2
  MaxLedger = 2
  MaxErrors = 1
  MaxPasses = 1
  maxAttempts = 2
INVARIANTS PairSyncTypeOK OiExact RatesExact FeesNeverAhead NeverEarly LiqIsLossThreshold CleanPassHeals
PROPERTIES PassAdvances
CHECK_DEADLOCK FALSE
