CONSTANTS
  Procs = {p1, p2, p3}
  Nobody = Nobody
  Ttl = 4
  RenewEvery = 3
  RetryAfter = 4
  LoadFirst = FALSE
  Steps = 2
  MaxLate = 0
  MaxTime = 9
  MaxCrashes = 1
SPECIFICATION Spec
INVARIANTS
  TypeOK
  AtMostOneOwner
  LockInv
PROPERTIES
  EventsInOrder
  GivesUpOnlyToLiveOwner
CHECK_DEADLOCK FALSE
