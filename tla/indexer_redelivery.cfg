SPECIFICATION Spec
CONSTANTS
  Key = {k1}
  Slot = {k1}
  Holder = {k1}
  PairZero <- InPairZero
  FloatExact = 4
  Terms <- OneTerm
  Prices = {1}
  Topics = {"deposit"}
  OldTopics = {}
  MaxEvents = 2
  MaxLedgers = 2
  Window = 9
  StartLedger = 1
  PageLimit = 2
  ScanWindow = 2
  MaxCrashes = 1
  MaxApplyFaults = 0
  MaxCursorFaults = 0
INVARIANTS AdditiveTablesMirror
