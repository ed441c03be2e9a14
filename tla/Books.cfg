\* Six documents, two months, two overlapping requests.
CONSTANTS
  invoice = invoice
  note = note
  bill = bill
  claim = claim
  capture = capture
  capital = capital
  buyer = buyer
  s1 = s1
  s2 = s2
  Nothing = Nothing
  Docs = {invoice, note, bill, claim, capture, capital}
  Parties = {buyer}
  Sessions = {s1, s2}
  LastMonth = 2
  MaxReversals = 1
  DocSpec <- MCDocSpec
  Ranges <- MCRanges
  Reported <- MCReported
SPECIFICATION Spec
CHECK_DEADLOCK FALSE
SYMMETRY Sym
ACTION_CONSTRAINT Bound
CONSTRAINT Undisturbed
INVARIANTS
  VatReconciles
  SalesListTies
  
  StatementsTie
