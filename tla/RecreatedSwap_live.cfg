\* The swap ends, with a crash or a lost record.
SPECIFICATION RecreatedFairSpec
CONSTANTS
  LockDuration = 3
  RefundWait = 0
  Watched = TRUE
  MaxTime = 7
  MaxCrashes = 1
  MaxErrors = 0
  MaxDrops = 0
PROPERTIES
  SwapEnds
CHECK_DEADLOCK FALSE
