SPECIFICATION FairSpec
CONSTANTS
  w1 = w1
  w2 = w2
  u1 = u1
  None = None
  Unlimited = Unlimited
  Workers <- MCWorkers
  Users <- MCUsers
  Jobs <- MCDates
  Overlap = FALSE
  Horizon = 3
  Interval = 2
  FirstRun = 0
  EndDate = 2
  Occurrences = 2
  Faults = FALSE
  Patches <- AllPatches
INVARIANTS
  
  BilledInTerm
  OccurrencesKept
PROPERTIES
  StoppedForGood
  DueIsServed
CHECK_DEADLOCK FALSE
