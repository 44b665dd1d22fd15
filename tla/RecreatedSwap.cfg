\* Everything at once: a crash or a lost record, a failing call, a lost payment
\* and a watcher.
SPECIFICATION RecreatedSpec
CONSTANTS
  LockDuration = 3
  RefundWait = 0
  Watched = TRUE
  MaxTime = 7
  MaxCrashes = 1
  MaxErrors = 1
  MaxDrops = 1
INVARIANTS
  TypeOK
  PaysAgainstConfirmed
  PaidOnce
  FinishedCanRecover
  WatchedTakerLosesNothing
  PanicsUninformed
PROPERTIES
  OutcomeIsFinal
  ImplementsAtomicSwap
CHECK_DEADLOCK FALSE
