SPECIFICATION ReplaySpec
CONSTANTS
  Key = {k1, k2}
  Slot = {k1}
  Holder = {k1}
  PairZero <- InPairZero
  FloatExact = 4
  Terms <- OneTerm
  Prices = {5}
  Topics = {"opened", "updated_tp_sl", "closed", "tp_sl_executed", "deposit", "withdraw", "burn", "oi_add", "oi_sub", "placed", "executed"}
  OldTopics = {}
  MaxEvents = 3
  MaxLedgers = 3
  Window = 9
  StartLedger = 1
  PageLimit = 2
  ScanWindow = 9
  MaxCrashes = 1
  MaxApplyFaults = 0
  MaxCursorFaults = 0
  Mode = "boot"
  MaxReplayFaults = 1
INVARIANTS ReplayRestores ReplayCountsOnce
