\* Two employees, two months, three orders, two overlapping requests.
CONSTANTS
  e1 = e1
  e2 = e2
  vacOrder = vacOrder
  raiseOrder = raiseOrder
  finalOrder = finalOrder
  s1 = s1
  s2 = s2
  Nothing = Nothing
  Emps = {e1, e2}
  Orders = {vacOrder, raiseOrder, finalOrder}
  Sessions = {s1, s2}
  LastMonth = 2
  MonthDays = 4
  Progressive = TRUE
  WorkDays <- MCWorkDays
  Params <- MCParams
  Card <- MCCard
  Opening <- MCOpening
  Tax <- MCTax
  Deduction <- MCDeduction
  Sick <- MCSick
  OrderSpec <- MCOrderSpec
SPECIFICATION Spec
CHECK_DEADLOCK FALSE
SYMMETRY Sym
ACTION_CONSTRAINT OneOverlap
INVARIANTS
  PostedIsApproved
  AccrualTies
  
  
