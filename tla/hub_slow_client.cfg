SPECIFICATION Spec
CONSTANTS
  Client = {c1}
  Trader = {t1}
  SendCap = 1
  BroadcastCap = 1
  MaxChanges = 2
  MaxTicks = 0
  MaxCommands = 0
CHECK_DEADLOCK FALSE
INVARIANTS RunsUntilCanceled
