SPECIFICATION ApprovalsSpec
CONSTANTS
  b1 = b1
  n1 = n1
  d1 = d1
  v1 = v1
  t1 = t1
  s1 = s1
  s2 = s2
  Nothing = Nothing
  Bills <- MCBills
  CreditNotes <- MCNotes
  Captures <- MCCaptures
  RecurringInvoices <- MCRecurring
  Tasks <- MCTasks
  Props <- MCProps
  Sessions <- MCSessions
SYMMETRY Alike
INVARIANTS
  DoubleApproveIsGuarded
CHECK_DEADLOCK FALSE
