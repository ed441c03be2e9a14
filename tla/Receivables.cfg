SPECIFICATION Spec
CONSTANTS
  i1 = i1
  i2 = i2
  n1 = n1
  t1 = t1
  s1 = s1
  s2 = s2
  Nothing = Nothing
  Invoices <- MCInvoices
  Notes <- MCNotes
  BankTxns <- MCBankTxns
  Sessions <- MCSessions
  Grand <- MCGrand
  Amounts <- MCAmounts
SYMMETRY Alike
INVARIANTS
  StatusMatchesAmount
  PaidIsRows
  BankTxnSettlesOnce
  AgingTiesToLedger
CHECK_DEADLOCK FALSE
