SPECIFICATION FairSpec
CONSTANTS
  Key = {k1}
  Slot = {k1}
  Holder = {k1}
  PairZero <- InPairZero
  FloatExact = 4
  Terms <- OneTerm
  Prices = {1}
  Topics = {"settle", "undecodable"}
  OldTopics = {}
  MaxEvents = 2
  MaxLedgers = 5
  Window = 2
  StartLedger = 0
  PageLimit = 2
  ScanWindow = 2
  MaxCrashes = 2
  MaxApplyFaults = 1
  MaxCursorFaults = 1
INVARIANTS NoSilentLoss IndInv
PROPERTIES ResumeMonotone CatchesUp AtLeastOnce NothingPendingForever
