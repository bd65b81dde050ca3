SPECIFICATION FairSpec
CONSTANTS
  MaxRows = 6
  limit = 2
  Second = 2
  MaxTime = 4
  MaxReplays = 1
  MaxFaults = 1
INVARIANTS PagesDescend SkippedAreTies
PROPERTIES WalkEnds
CHECK_DEADLOCK FALSE
