CONSTANTS
  Procs = {p1, p2}
  Nobody = Nobody
  Ttl = 4
  RenewEvery = 3
  RetryAfter = 4
  LoadFirst = TRUE
  Steps = 2
  MaxLate = 0
  MaxTime = 9
  MaxCrashes = 1
SPECIFICATION Spec
PROPERTY EventsInOrder
CHECK_DEADLOCK FALSE
