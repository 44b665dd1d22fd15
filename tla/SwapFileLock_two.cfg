CONSTANTS
  Procs = {p1, p2}
  Ttl = 4
  RenewEvery = 3
  RetryAfter = 4
  LoadFirst = TRUE
  Steps = 2
  MaxLate = 0
  MaxTime = 10
  MaxCrashes = 0
SPECIFICATION Spec
INVARIANT AtMostOneOwner
CHECK_DEADLOCK FALSE
