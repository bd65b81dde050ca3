SPECIFICATION Spec
CONSTANTS
  Key = {k1, k2}
  Slot = {k1}
  Holder = {k1, k2}
  PairZero <- InPairZero
  FloatExact = 4
  Terms <- LongTerms
  Prices = {5}
  Topics = {"opened", "updated_tp_sl", "closed", "tp_sl_executed", "liq", "placed", "updated_limit", "executed", "canceled", "deposit", "withdraw", "transfer", "burn", "oi_add", "oi_sub", "rollover_rate", "funding_rate"}
  OldTopics = {"closed", "liq"}
  MaxEvents = 3
  MaxLedgers = 2
  Window = 9
  StartLedger = 1
  PageLimit = 2
  ScanWindow = 9
  MaxCrashes = 1
  MaxApplyFaults = 0
  MaxCursorFaults = 1
INVARIANTS TypeOK LiveTablesMirror HistoryFaithful CountedOnce AuditComplete
