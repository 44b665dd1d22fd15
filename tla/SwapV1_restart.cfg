\* A taker whose watcher is gone and that stops on its way to a refund.
SPECIFICATION Spec
CONSTANTS
  LockDuration = 3
  RefundWait = 1
  Watched = TRUE
  MaxTime = 8
  MaxCrashes = 1
  MaxErrors = 1
  MaxDrops = 0
INVARIANT RefundMeansUnspent
CHECK_DEADLOCK FALSE
