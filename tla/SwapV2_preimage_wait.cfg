CONSTANTS
  LockDuration = 1
  MaxStartedAtDiff = 0
  SkipPreimage = FALSE
  RequireFundingConfirm = FALSE
  RequirePaymentConfirm = TRUE
  RequireSpendConfirm = TRUE
  MaxSkew = 0
  MaxAfter = 1
  MaxCrashes = 0
  MaxStoreErrors = 0
  MaxDrops = 0
SPECIFICATION FairSpec
PROPERTY PreimageWaitEnds
CHECK_DEADLOCK FALSE
