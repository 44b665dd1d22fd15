CONSTANTS
  Procs = {p1, p2}
  Ttl = 4
  RenewEvery = 3
  RetryAfter = 4
  LoadFirst = TRUE
  Steps = 2
  MaxLate = 0
  MaxTime = 10
  MaxCrashes = 2
SPECIFICATION Spec
INVARIANTS
  TypeOK
  EmptyOnlyInTouch
PROPERTY GivesUpOnlyToLiveOwner
CHECK_DEADLOCK FALSE
