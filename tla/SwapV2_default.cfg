CONSTANTS
  LockDuration = 3
  MaxStartedAtDiff = 0
  SkipPreimage = FALSE
  RequireFundingConfirm = FALSE
  RequirePaymentConfirm = TRUE
  RequireSpendConfirm = TRUE
  MaxSkew = 0
  MaxAfter = 1
  MaxCrashes = 1
  MaxStoreErrors = 1
  MaxDrops = 0
SPECIFICATION Spec
INVARIANTS
  TypeOK
  SecretOnlyForConfirmedPayment
  TakerPaysOnlyAgainstConfirmed
  EarlyRefundMeansFundingReclaimed
  OutcomeMatchesChain
  PaymentSentOncePerRun
  LockMatchesState
CHECK_DEADLOCK FALSE
