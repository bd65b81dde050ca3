SPECIFICATION ConsumerSpec
CONSTANTS
  Key = {k1}
  Slot = {k1}
  Holder = {k1}
  PairZero <- Itself
  FloatExact = 4
  Terms <- TwoTerms
  Prices = {1}
  Topics = {"opened", "updated_tp_sl", "closed", "placed", "updated_limit", "executed", "canceled"}
  OldTopics = {}
  MaxEvents = 3
  MaxLedgers = 2
  Window = 9
  StartLedger = 1
  PageLimit = 2
  ScanWindow = 9
  MaxCrashes = 1
  MaxApplyFaults = 0
  MaxCursorFaults = 0
  MaxRestarts = 1
  MaxLost = 1
  MaxShortReads = 1
INVARIANTS CopyConverges
