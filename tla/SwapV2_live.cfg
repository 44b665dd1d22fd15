CONSTANTS
  LockDuration = 1
  MaxStartedAtDiff = 0
  SkipPreimage = FALSE
  RequireFundingConfirm = TRUE
  RequirePaymentConfirm = FALSE
  RequireSpendConfirm = FALSE
  MaxSkew = 0
  MaxAfter = 1
  MaxCrashes = 1
  MaxStoreErrors = 0
  MaxDrops = 0
SPECIFICATION FairSpec
INVARIANTS
  SwapInv
  PreimageOnlyAgainstConfirmed
  OutcomeMatchesChain
PROPERTIES
  SwapEnds
CHECK_DEADLOCK FALSE
