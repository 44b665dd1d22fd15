CONSTANTS
  LockDuration = 1
  MaxStartedAtDiff = 1
  SkipPreimage = TRUE
  RequireFundingConfirm = FALSE
  RequirePaymentConfirm = TRUE
  RequireSpendConfirm = TRUE
  MaxSkew = 1
  MaxAfter = 1
  MaxCrashes = 1
  MaxStoreErrors = 0
  MaxDrops = 1
SPECIFICATION Spec
INVARIANTS
  NobodyHasBoth
  MakerRefundsOnlyAfterTakerCan
PROPERTIES
  ImplementsAtomicSwap
CHECK_DEADLOCK FALSE
