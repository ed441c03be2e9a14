----------------------------- MODULE PayrollRun -----------------------------
(***************************************************************************)
(* Payroll of one year: openRun, computeRun and approveRun with what       *)
(* approval posts, the vacation accrual, and the orders whose approval     *)
(* changes what a run computes (src/payroll/{run,accrual,orders,inputs,    *)
(* termination,employees}.ts).                                             *)
(*                                                                         *)
(* A call reads in one step and writes by id in a later one.  approveRun   *)
(* has a step between: the accrual of each employee is taken against the   *)
(* last snapshot it can see, which another approval may be about to write. *)
(***************************************************************************)
EXTENDS PayrollCalc

CONSTANTS
  Emps,       \* employees
  LastMonth,  \* bound: months 1..LastMonth are run
  Orders,     \* payroll orders
  Sessions,   \* concurrent requests
  Nothing,    \* no open call, no item, not terminated
  Card,       \* per employee, the card: hired, wage, vacation days at opening
  Opening,    \* per employee, imported history: month to gross and days
  Tax,        \* per employee, the tax status of every month
  Deduction,  \* per employee, the deductions requested every month
  Sick,       \* per employee, the sick leaves recorded
  OrderSpec   \* per order, its immutable content

Months == 1..LastMonth
OrderTypes == {"bonus", "vacation", "wage_change", "termination"}
Leaves == [from : Int, to : Int]
Item == [base : Int, days : Nat, daily : Int, other : Int, pay : Pay]

ASSUME PayrollAssumption ==
  /\ LastMonth \in Nat
  /\ Nothing \notin Int /\ Nothing \notin Orders /\ Nothing \notin Item
  /\ Card \in [Emps -> [hired : Int, wage : Nat, openingDays : Int, openingMonth : Int]]
  /\ Tax \in [Emps -> [active : BOOLEAN, dependents : Nat, pensioner : BOOLEAN,
                       disability : 0..3, repressed : BOOLEAN]]
  /\ Deduction \in [Emps -> Nat]
  /\ \A e \in Emps : Sick[e] \subseteq Leaves /\ IsFiniteSet(Sick[e])
  /\ \A e \in Emps :
       /\ DOMAIN Opening[e] \subseteq Int /\ IsFiniteSet(DOMAIN Opening[e])
       /\ \A k \in DOMAIN Opening[e] : Opening[e][k] \in [gross : Nat, days : Nat]
  /\ OrderSpec \in [Orders ->
       [type : OrderTypes, emp : Emps, amount : Nat, from : Int, to : Int]]
  /\ IsFiniteSet(Orders)
  /\ \A m \in Months : workDaysInMonth(m) > 0

VARIABLES
  run,        \* payroll_runs.status of each month
  item,       \* payroll_items of each month and employee
  emp,        \* the employees' wage and terminated_on
  order,      \* payroll_orders.status
  rows,       \* per order, the rows with its source_order_id
  settled,    \* per order, the final settlement: taxable, exempt
  accrual,    \* vacation_accruals of each month and employee
  payable,    \* what a month's entries leave on wages payable, by employee
  liability,  \* balance of the accrual account, by employee
  call,       \* per session, the open transaction and what it has read
  contended,  \* history: what two open transactions were about at once
  outOfTurn,  \* history: months approved after a later one, or together
              \* with another
  stale       \* history: months computed or approved before an order that
              \* bears on them was

runVars   == <<run, item, payable>>
orderVars == <<emp, order, rows, settled>>
accVars   == <<accrual, liability, outOfTurn>>
vars == <<runVars, orderVars, accVars, call, contended, stale>>

Init ==
  /\ run = [m \in Months |-> "none"]
  /\ item = [m \in Months |-> [e \in Emps |-> Nothing]]
  /\ emp = [e \in Emps |-> [wage |-> Card[e].wage, terminated |-> Nothing]]
  /\ order = [o \in Orders |-> "draft"]
  /\ rows = [o \in Orders |-> 0]
  /\ settled = [o \in Orders |-> [taxable |-> 0, exempt |-> 0]]
  /\ accrual = [m \in Months |-> [e \in Emps |-> Nothing]]
  /\ payable = [m \in Months |-> [e \in Emps |-> 0]]
  /\ liability = [e \in Emps |-> 0]
  /\ call = [s \in Sessions |-> Nothing]
  /\ contended = {}
  /\ outOfTurn = {}
  /\ stale = {}

-----------------------------------------------------------------------------
(* Calls.                                                                  *)

At(s, op) == call[s] # Nothing /\ call[s].op = op

Begins(s, c) ==
  /\ call[s] = Nothing
  /\ call' = [call EXCEPT ![s] = c]
  /\ contended' = contended \cup
       (c.on \cap UNION {call[r].on : r \in {r \in Sessions : call[r] # Nothing}})

Ends(s) == call' = [call EXCEPT ![s] = Nothing] /\ UNCHANGED contended

-----------------------------------------------------------------------------
(* What a run is computed from.                                            *)

Terminated(e, m) == emp[e].terminated # Nothing /\ MonthOf(emp[e].terminated) <= m

activeEmployeesFor(m) ==
  {e \in Emps : /\ Card[e].hired <= LastDay(m)
                /\ emp[e].terminated = Nothing \/ emp[e].terminated >= FirstDay(m)}

OrdersOf(e, type) == {o \in Orders : OrderSpec[o].type = type /\ OrderSpec[o].emp = e}

\* An order's content applied once per row; an order twice approved has two.
OfRows(content) == SumFunction([o \in DOMAIN content |-> rows[o] * content[o]])

DueIn(e, type, m) == {o \in OrdersOf(e, type) : MonthOf(OrderSpec[o].to) = m}

\* Opening history, overwritten month by month by approved runs.
History(e) ==
  LET done == {m \in Months : run[m] = "approved" /\ item[m][e] # Nothing}
  IN  [k \in DOMAIN Opening[e] \cup done |->
        IF k \in done THEN [gross |-> item[k][e].base, days |-> item[k][e].days]
                      ELSE Opening[e][k]]

\* computeEmployee: monthly wages.  Without a known month the average is
\* the wage over the month's work days.
computeEmployee(e, m) ==
  LET total   == workDaysInMonth(m)
      from    == Max({Card[e].hired, FirstDay(m)})
      to      == IF emp[e].terminated = Nothing THEN LastDay(m)
                 ELSE Smaller(emp[e].terminated, LastDay(m))
      leaves  == OrdersOf(e, "vacation")
      absent  == OfRows([o \in leaves |-> workDaysOverlap(OrderSpec[o].from, OrderSpec[o].to, m)])
                 + SumFunction([a \in Sick[e] |-> workDaysOverlap(a.from, a.to, m)])
      worked  == AtLeast0(workDaysOverlap(from, to, m) - absent)
      wage    == IF total > 0 THEN divRound(emp[e].wage * worked, total) ELSE 0
      bonus   == OfRows([o \in DueIn(e, "bonus", m) |-> OrderSpec[o].amount])
      daily   == IF HasEarnings(History(e), m) THEN averageDaily(History(e), m)
                 ELSE divRound(emp[e].wage, total)
      vacation == OfRows([o \in leaves |-> computeVacationPay(OrderSpec[o], m, daily)])
      sick    == SumFunction([a \in Sick[e] |-> computeSickPayA(a, m, daily)])
      final   == DueIn(e, "termination", m)
      other   == SumFunction([o \in final |-> settled[o].taxable])
      gross   == wage + bonus + vacation + sick + other
      exempt  == SumFunction([o \in final |-> settled[o].exempt])
  IN  [base |-> wage + bonus, days |-> worked, daily |-> daily, other |-> other,
       pay |-> computePayroll(gross, exempt, Deduction[e], Tax[e], worked, total)]

-----------------------------------------------------------------------------
(* The vacation accrual.                                                   *)

\* In hundredths of a day, at the end of month m: 1.67 days a month.  The
\* code counts leave that starts after the opening day, up to month m.
vacationBalance(e, m, terminated) ==
  LET end     == IF terminated = Nothing THEN m ELSE Smaller(m, MonthOf(terminated))
      used(o) == IF OrderSpec[o].from <= LastDay(m)
                   THEN Cardinality({d \in WorkDays : /\ OrderSpec[o].from <= d
                                                      /\ d <= OrderSpec[o].to
                                                      /\ d <= LastDay(m)})
                   ELSE 0
  IN  Card[e].openingDays + 167 * AtLeast0(end - Card[e].openingMonth)
        - 100 * OfRows([o \in OrdersOf(e, "vacation") |-> used(o)])

Accrued(e, m, daily) ==
  LET balance == vacationBalance(e, m, emp[e].terminated)
  IN  IF Terminated(e, m) \/ balance <= 0 THEN 0 ELSE divRound(balance * daily, 100)

Snapshots(e) == {m \in Months : accrual[m][e] # Nothing}

\* Mutant of PreviousAccrual: one month too early.
EarlierAccrual(e, m) ==
  LET before == {k \in Snapshots(e) : k < m - 1}
  IN  IF before = {} THEN 0 ELSE accrual[Max(before)][e]

PreviousAccrual(e, m) ==
  LET before == {k \in Snapshots(e) : k < m}
  IN  IF before = {} THEN 0 ELSE accrual[Max(before)][e]

-----------------------------------------------------------------------------
(* Runs.                                                                   *)

openRun(m) ==
  /\ run[m] = "none"
  /\ run' = [run EXCEPT ![m] = "draft"]
  /\ UNCHANGED <<item, payable, orderVars, accVars, call, contended, stale>>

\* Mutant of ComputeReads: an approved run is computed again.
ComputeReadsAny(s) ==
  /\ \E m \in Months :
       /\ run[m] # "none"
       /\ Begins(s, [op |-> "compute", on |-> {m}, month |-> m])
  /\ UNCHANGED <<runVars, orderVars, accVars, stale>>

ComputeReads(s) ==
  /\ \E m \in Months :
       /\ run[m] \in {"draft", "computed"}
       /\ Begins(s, [op |-> "compute", on |-> {m}, month |-> m])
  /\ UNCHANGED <<runVars, orderVars, accVars, stale>>

\* Mutant of ComputeCommits: items that are there are kept.
ComputeCommitsOnce(s) ==
  LET m == call[s].month IN
  /\ At(s, "compute")
  /\ item' = [item EXCEPT ![m] =
       [e \in Emps |-> IF @[e] # Nothing THEN @[e]
                       ELSE IF e \in activeEmployeesFor(m) THEN computeEmployee(e, m)
                                                           ELSE Nothing]]
  /\ run' = [run EXCEPT ![m] = "computed"]
  /\ stale' = stale \ {m}
  /\ Ends(s)
  /\ UNCHANGED <<payable, orderVars, accVars>>

\* All items of the run are replaced.
ComputeCommits(s) ==
  LET m == call[s].month IN
  /\ At(s, "compute")
  /\ item' = [item EXCEPT ![m] =
       [e \in Emps |-> IF e \in activeEmployeesFor(m) THEN computeEmployee(e, m)
                                                      ELSE Nothing]]
  /\ run' = [run EXCEPT ![m] = "computed"]
  /\ stale' = stale \ {m}
  /\ Ends(s)
  /\ UNCHANGED <<payable, orderVars, accVars>>

\* approveRun: the status and the items.
ApproveReads(s) ==
  /\ \E m \in Months :
       /\ run[m] = "computed"
       /\ Begins(s, [op |-> "approve", on |-> {m}, month |-> m, items |-> item[m]])
  /\ UNCHANGED <<runVars, orderVars, accVars, stale>>

Paid(items) == {e \in Emps : items[e] # Nothing}

\* recomputeAccrual for each employee with an item.
ApproveAccrues(s) ==
  LET m     == call[s].month
      items == call[s].items
      acc   == [e \in Paid(items) |-> Accrued(e, m, items[e].daily)]
  IN
  /\ At(s, "approve")
  /\ call' = [call EXCEPT ![s] =
       [op |-> "post", on |-> @.on, month |-> m, items |-> items, acc |-> acc,
        delta |-> [e \in Paid(items) |-> acc[e] - PreviousAccrual(e, m)]]]
  /\ outOfTurn' = outOfTurn \cup
       {k \in Months : \E r \in Sessions :
          At(r, "post") /\ (k = m \/ k = call[r].month)}
  /\ UNCHANGED <<runVars, orderVars, accrual, liability, contended, stale>>

\* The pairs that touch wages payable: gross and severance to its credit;
\* tax, contributions and deductions to its debit.
PostedToWagesPayable(i) ==
  i.pay.gross + i.pay.severance - i.pay.iin - i.pay.vsaoi - i.pay.deducted

ApproveCommits(s) ==
  LET m     == call[s].month
      items == call[s].items
  IN
  /\ At(s, "post")
  /\ run' = [run EXCEPT ![m] = "approved"]
  /\ payable' = [payable EXCEPT ![m] = [e \in Emps |->
       IF e \in Paid(items) THEN @[e] + PostedToWagesPayable(items[e]) ELSE @[e]]]
  /\ accrual' = [accrual EXCEPT ![m] = [e \in Emps |->
       IF e \in Paid(items) THEN call[s].acc[e] ELSE @[e]]]
  /\ liability' = [e \in Emps |->
       IF e \in Paid(items) THEN liability[e] + call[s].delta[e] ELSE liability[e]]
  /\ outOfTurn' = outOfTurn \cup
       {k \in {m} : \E e \in Paid(items), l \in Months : l > m /\ accrual[l][e] # Nothing}
  /\ Ends(s)
  /\ UNCHANGED <<item, orderVars, stale>>

-----------------------------------------------------------------------------
(* Orders.                                                                 *)

\* Mutant of OrderReads: an approved order is applied again.
OrderReadsAny(s) ==
  /\ \E o \in Orders :
       Begins(s, [op |-> "order", on |-> {o, OrderSpec[o].emp}, order |-> o,
                  emp |-> emp[OrderSpec[o].emp]])
  /\ UNCHANGED <<runVars, orderVars, accVars, stale>>

\* approveOrder, and the employee updateEmployee will write back.
OrderReads(s) ==
  /\ \E o \in Orders :
       /\ order[o] = "draft"
       /\ Begins(s, [op |-> "order", on |-> {o, OrderSpec[o].emp}, order |-> o,
                     emp |-> emp[OrderSpec[o].emp]])
  /\ UNCHANGED <<runVars, orderVars, accVars, stale>>

\* The final settlement of a termination.
Settlement(o) ==
  LET e    == OrderSpec[o].emp
      day  == OrderSpec[o].to
      left == vacationBalance(e, MonthOf(day), day)
      h    == History(e)
  IN  [taxable |-> IF left > 0 THEN divRound(left * averageDaily(h, MonthOf(day)), 100)
                               ELSE 0,
       exempt |-> IF OrderSpec[o].amount > 0
                    THEN severanceMonthsFor(Card[e].hired, day)
                           * averageMonthly(h, MonthOf(day))
                    ELSE 0]

OrderCommits(s) ==
  LET o    == call[s].order
      spec == OrderSpec[o]
  IN
  /\ At(s, "order")
  /\ order' = [order EXCEPT ![o] = "approved"]
  /\ rows' = [rows EXCEPT ![o] = @ + 1]
  /\ CASE spec.type = "wage_change" ->
            /\ emp' = [emp EXCEPT ![spec.emp] = [call[s].emp EXCEPT !.wage = spec.amount]]
            /\ UNCHANGED settled
       [] spec.type = "termination" ->
            /\ HasEarnings(History(spec.emp), MonthOf(spec.to))
            /\ emp' = [emp EXCEPT ![spec.emp] = [call[s].emp EXCEPT !.terminated = spec.to]]
            /\ settled' = [settled EXCEPT ![o] =
                 [taxable |-> @.taxable + Settlement(o).taxable,
                  exempt  |-> @.exempt + Settlement(o).exempt]]
       [] OTHER -> UNCHANGED <<emp, settled>>
  /\ stale' = stale \cup {m \in Months : run[m] \in {"computed", "approved"}}
  /\ Ends(s)
  /\ UNCHANGED <<runVars, accVars>>

\* A check throws, an average is not known, or the period is closed.
RollsBack(s) ==
  /\ call[s] # Nothing
  /\ Ends(s)
  /\ UNCHANGED <<runVars, orderVars, accVars, stale>>

Next ==
  \/ \E m \in Months : openRun(m)
  \/ \E s \in Sessions :
       \/ ComputeReads(s) \/ ComputeCommits(s)
       \/ ApproveReads(s) \/ ApproveAccrues(s) \/ ApproveCommits(s)
       \/ OrderReads(s) \/ OrderCommits(s)
       \/ RollsBack(s)

Spec == Init /\ [][Next]_vars

-----------------------------------------------------------------------------
(* Properties.                                                             *)

\* What approveRun posted to wages payable is what the items of the run say
\* is paid out, and a run that is not approved has posted nothing: unless a
\* compute or an approval of it overlapped another.
PostedIsApproved ==
  \A m \in Months \ contended, e \in Emps :
    payable[m][e] = IF run[m] = "approved" /\ item[m][e] # Nothing
                      THEN item[m][e].pay.payout ELSE 0

\* The deltas posted for vacation accruals add up to the last snapshot, as
\* long as no month is approved after a later one or together with another.
AccrualTies ==
  outOfTurn = {} /\ Months \cap contended = {} =>
    \A e \in Emps : liability[e] =
      IF Snapshots(e) = {} THEN 0 ELSE accrual[Max(Snapshots(e))][e]

\* An approved order has had its effect once and a draft none, unless two
\* approvals of it overlapped; an employee leaves on the day some approved
\* termination says, whatever other order was applied since, unless approvals
\* of orders about the employee overlapped.
OrdersHold ==
  /\ \A o \in Orders \ contended : rows[o] = IF order[o] = "approved" THEN 1 ELSE 0
  /\ \A e \in Emps \ contended :
       LET approved == {o \in OrdersOf(e, "termination") : order[o] = "approved"}
       IN  IF approved = {} THEN emp[e].terminated = Nothing
                            ELSE \E o \in approved : emp[e].terminated = OrderSpec[o].to

\* The final settlement of an employee's one termination is in the approved
\* run of its month, whole and once: unless the order was approved when that
\* run had already been computed, or calls overlapped.
SettlementIsPaid ==
  \A o \in Orders :
    LET e == OrderSpec[o].emp
        m == MonthOf(OrderSpec[o].to)
    IN  /\ {r \in OrdersOf(e, "termination") : order[r] = "approved"} = {o}
        /\ m \in Months /\ run[m] = "approved" /\ m \notin stale
        /\ {o, e, m} \cap contended = {}
        => /\ item[m][e] # Nothing
           /\ item[m][e].other = settled[o].taxable
           /\ item[m][e].pay.severance = settled[o].exempt

=============================================================================
