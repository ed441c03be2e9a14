\* Reminders, accounts, bank feeds and e-invoices, one at a time.
CONSTANTS
  s1 = s1
  s2 = s2
  w1 = w1
  i1 = i1
  a1 = a1
  t1 = t1
  m1 = m1
  m2 = m2
  m3 = m3
  m4 = m4
  v1 = v1
  v2 = v2
  Nothing = Nothing
  Sessions = {s1, s2}
  Workers = {w1}
  Jobs = {1, 2, 3}
  JobsOverlap = FALSE
  Invoices = {i1}
  Due <- MCDue
  Open <- MCOpen
  StageSets <- MCStages
  AnnualBps = 800
  FlatCents = 0
  Users = {s1}
  Horizon = 3
  MaxPuts = 2
  MaxLate = 1
  MaxManual = 1
  InviteTtl = 2
  SessionTtl = 2
  Window = 2
  MaxFailures = 1
  LastStep = 2
  MaxInvites = 2
  FeedAccounts = {a1}
  Txns = {t1}
  AccountOf <- MCAccountOf
  BookedOn <- MCBookedOn
  Overlap = 1
  FirstDays = 1
  LastDay = 5
  MaxDeletes = 1
  Outbound = {i1}
  IssuedOn <- MCIssuedOn
  DaysOff = {6, 7}
  FinalDay = 12
  MaxSubmits = 3
  Messages = {m1, m2, m3, m4}
  Content <- MCContent
  Registered = {v1}
  DomesticRate = 2100
SPECIFICATION Spec
CHECK_DEADLOCK FALSE
CONSTRAINT Bound
INVARIANTS
  
  ResetHolds
  LimitHolds
  FeedIsComplete
  DeadlinesSeen
  InboundBooked

  
