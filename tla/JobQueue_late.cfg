SPECIFICATION JobsSpec
CONSTANTS
  j1 = j1
  j2 = j2
  w1 = w1
  w2 = w2
  r1 = r1
  NoJob = NoJob
  Jobs <- MCOneJob
  Revivable <- MCRevivable
  Workers <- MCWorkers
  Reapers <- MCReapers
  MaxAttempts = 2
  Lease = 1
  Limit = 1
  BackoffCap = 1
  AttemptBound = 3
  MaxAbandons = 1
  LateWorkers = TRUE
  SlowReapers = FALSE
PROPERTIES
  EndsAreTerminal
