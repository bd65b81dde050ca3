SPECIFICATION FairSpec
CONSTANTS
  Client = {c1}
  Trader = {t1}
  SendCap = 1
  BroadcastCap = 1
  MaxChanges = 2
  MaxTicks = 1
  MaxCommands = 2
CHECK_DEADLOCK FALSE
INVARIANTS HubTypeOK ClosedIsForgotten OnlyOverflowPanics CurrentStateIsSent
PROPERTIES CacheNeverBlocked
