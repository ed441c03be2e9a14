SPECIFICATION Spec
CONSTANTS
  w1 = w1
  w2 = w2
  u1 = u1
  None = None
  Unlimited = Unlimited
  Workers <- MCWorkers
  Users <- MCUsers
  Jobs <- MCDates
  Overlap = FALSE
  Horizon = 2
  Interval = 1
  FirstRun = 0
  EndDate = 9
  Occurrences = Unlimited
  Faults = TRUE
  Patches <- NoPatches
INVARIANTS
  RedeliveryIsIdempotent
CHECK_DEADLOCK FALSE
