SPECIFICATION Spec
CONSTANTS
  c1 = c1
  c2 = c2
  p1 = p1
  p2 = p2
  t1 = t1
  s1 = s1
  s2 = s2
  Nothing = Nothing
  Claims <- MCClaims
  Props <- MCProps
  BankTxns <- MCBankTxns
  Totals <- MCTotals
  Sessions <- MCSessions
SYMMETRY Alike
INVARIANTS
  ApprovedIsPosted
  OwedToEmployees
  SubmittedAwaits
CHECK_DEADLOCK FALSE
