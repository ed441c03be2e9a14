SPECIFICATION Spec
CONSTANTS
  b1 = b1
  k1 = k1
  i1 = i1
  r1 = r1
  r2 = r2
  d1 = d1
  d2 = d2
  x1 = x1
  p1 = p1
  p2 = p2
  s1 = s1
  s2 = s2
  Nothing = Nothing
  Bills <- MCBills
  Claims <- MCClaims
  Invoices <- MCInvoices
  Runs <- MCRuns
  Txns <- MCTxns
  Debits <- MCDebits
  Later <- MCLater
  Worth <- MCWorth
  Props <- MCProps
  Sessions <- MCSessions
SYMMETRY Alike
INVARIANTS
  TransitIsUncleared
  ClaimedOnce
  BankTiesToStatement
CHECK_DEADLOCK FALSE
