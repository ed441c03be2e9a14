SPECIFICATION FairSpec
CONSTANTS
  j1 = j1
  j2 = j2
  w1 = w1
  w2 = w2
  r1 = r1
  NoJob = NoJob
  Jobs <- MCJobs
  Revivable <- MCRevivable
  Workers <- MCWorkers
  Reapers <- MCReapers
  MaxAttempts = 2
  Lease = 2
  Limit = 2
  BackoffCap = 2
  AttemptBound = 3
  MaxAbandons = 1
  LateWorkers = FALSE
  SlowReapers = FALSE
INVARIANTS
  DoneWasHandled
  SingleOwner
  AttemptsAreSpent
PROPERTIES
  EndsAreTerminal
  QueuePromise
  JobsEnd
