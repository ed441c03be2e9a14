--------------------------- MODULE PayrollProofs ----------------------------
(***************************************************************************)
(* Theorems about payroll, for all employees, orders, months and sessions: *)
(* orders are applied once, approval posts what the items say is paid out, *)
(* the accruals posted add up, and a final settlement is paid.             *)
(***************************************************************************)
EXTENDS PayrollRun, SumTheorems, TLAPS

\* What an open call has in hand.
Mine(s, x) == call[s] # Nothing /\ x \in call[s].on

(***************************************************************************)
(* OrdersHold rests on this: what is not contended is in the hands of one  *)
(* call at most; so the order it approves is still a draft when it         *)
(* commits, and the employee it writes back is still as it was read.       *)
(***************************************************************************)
Types ==
  /\ order \in [Orders -> {"draft", "approved"}]
  /\ rows \in [Orders -> Nat]
  /\ emp \in [Emps -> [wage : Nat, terminated : Int \cup {Nothing}]]
  /\ call = [s \in Sessions |-> call[s]]
  /\ \A s \in Sessions : At(s, "order") =>
       /\ call[s].order \in Orders
       /\ call[s].on = {call[s].order, OrderSpec[call[s].order].emp}
       /\ call[s].emp \in [wage : Nat, terminated : Int \cup {Nothing}]

OneHolder ==
  \A x : x \notin contended =>
    \A s, r \in Sessions : Mine(s, x) /\ Mine(r, x) => s = r

Fresh ==
  \A s \in Sessions : At(s, "order") =>
    LET o == call[s].order  e == OrderSpec[o].emp IN
    /\ o \notin contended => order[o] = "draft"
    /\ e \notin contended => call[s].emp = emp[e]

IInv == Types /\ OneHolder /\ Fresh /\ OrdersHold

LEMMA SpecTypes ==
  ASSUME NEW o \in Orders
  PROVE  OrderSpec[o] \in
           [type : OrderTypes, emp : Emps, amount : Nat, from : Int, to : Int]
BY PayrollAssumption

LEMMA InitIInv == Init => IInv
<1> SUFFICES ASSUME Init PROVE IInv
  OBVIOUS
<1>1. Types
  BY PayrollAssumption DEF Init, Types, At
<1>2. OneHolder /\ Fresh
  BY DEF Init, OneHolder, Mine, Fresh, At
<1>3. OrdersHold
  BY DEF Init, OrdersHold, OrdersOf
<1>4. QED
  BY <1>1, <1>2, <1>3 DEF IInv

-----------------------------------------------------------------------------
\* More is contended, and no order is approved: OrdersHold is kept.
LEMMA HoldKeeps ==
  ASSUME OrdersHold, contended \subseteq contended', UNCHANGED <<order, rows, emp>>
  PROVE  OrdersHold'
BY DEF OrdersHold, OrdersOf

\* A call begins: an order's with the order as a draft and the employee as
\* it is.
LEMMA BeginsKeep ==
  ASSUME IInv, NEW s \in Sessions, NEW c, Begins(s, c),
         UNCHANGED <<order, rows, emp>>,
         c.op = "order" =>
           /\ c.order \in Orders /\ order[c.order] = "draft"
           /\ c.on = {c.order, OrderSpec[c.order].emp}
           /\ c.emp = emp[OrderSpec[c.order].emp]
  PROVE  IInv'
<1>0. Types /\ OneHolder /\ Fresh /\ OrdersHold
  BY DEF IInv
<1>1. /\ call' = [call EXCEPT ![s] = c] /\ call[s] = Nothing
      /\ contended' = contended \cup
           (c.on \cap UNION {call[r].on : r \in {r \in Sessions : call[r] # Nothing}})
  BY DEF Begins
<1>2. call'[s] = c /\ \A r \in Sessions \ {s} : call'[r] = call[r]
  BY <1>0, <1>1 DEF Types
<1>3. contended \subseteq contended'
  BY <1>1
<1>4. Types'
  <2>1. c.op = "order" => c.emp \in [wage : Nat, terminated : Int \cup {Nothing}]
    BY <1>0, SpecTypes DEF Types
  <2>2. call' = [r \in Sessions |-> call'[r]]
    BY <1>0, <1>1 DEF Types
  <2>3. QED
    BY <1>0, <1>2, <2>1, <2>2 DEF Types, At
<1>5. OneHolder'
  <2> SUFFICES ASSUME NEW x, x \notin contended', NEW q \in Sessions, NEW r \in Sessions,
                      Mine(q, x)', Mine(r, x)'
               PROVE  q = r
    BY DEF OneHolder
  <2>1. \A p \in Sessions \ {s} : Mine(p, x)' => Mine(p, x) /\ x \in call[p].on
    BY <1>2 DEF Mine
  <2>2. \A p \in Sessions \ {s} : Mine(p, x) => x \notin c.on
    BY <1>1 DEF Mine
  <2>3. CASE q = s \/ r = s
    BY <1>2, <2>1, <2>2, <2>3 DEF Mine
  <2>4. CASE q # s /\ r # s
    BY <1>0, <1>3, <2>1, <2>4 DEF OneHolder
  <2>5. QED
    BY <2>3, <2>4
<1>6. Fresh'
  BY <1>0, <1>2, <1>3 DEF Fresh, At
<1>7. QED
  BY <1>0, <1>3, <1>4, <1>5, <1>6, HoldKeeps DEF IInv

\* A call that is no order's goes on to its next step, or ends: the others
\* have what they had.
LEMMA GoesOn ==
  ASSUME IInv, NEW s \in Sessions, NEW c, call' = [call EXCEPT ![s] = c],
         c # Nothing => c.op # "order" /\ call[s] # Nothing /\ c.on = call[s].on,
         UNCHANGED <<order, rows, emp, contended>>
  PROVE  IInv'
<1>0. Types /\ OneHolder /\ Fresh /\ OrdersHold
  BY DEF IInv
<1>1. call'[s] = c /\ \A r \in Sessions \ {s} : call'[r] = call[r]
  BY <1>0 DEF Types
<1>2. Types'
  <2>1. call' = [r \in Sessions |-> call'[r]]
    BY <1>0 DEF Types
  <2>2. QED
    BY <1>0, <1>1, <2>1 DEF Types, At
<1>3. OneHolder'
  <2>1. \A x : \A r \in Sessions : Mine(r, x)' => Mine(r, x)
    BY <1>1 DEF Mine
  <2>2. QED
    BY <1>0, <2>1 DEF OneHolder
<1>4. Fresh'
  BY <1>0, <1>1 DEF Fresh, At
<1>5. QED
  BY <1>0, <1>2, <1>3, <1>4, HoldKeeps DEF IInv

\* An order's approval commits.
LEMMA OrderCommitsKeeps ==
  ASSUME IInv, NEW s \in Sessions, OrderCommits(s) PROVE IInv'
<1> DEFINE o == call[s].order
           e == OrderSpec[o].emp
<1>0. Types /\ OneHolder /\ Fresh /\ OrdersHold
  BY DEF IInv
<1>1. /\ At(s, "order") /\ o \in Orders /\ e \in Emps /\ OrderSpec[o].to \in Int
      /\ OrderSpec[o].amount \in Nat
      /\ call[s].on = {o, e}
      /\ call[s].emp \in [wage : Nat, terminated : Int \cup {Nothing}]
  BY <1>0, SpecTypes DEF OrderCommits, Types
<1>2. /\ order' = [order EXCEPT ![o] = "approved"]
      /\ rows' = [rows EXCEPT ![o] = @ + 1]
      /\ call' = [call EXCEPT ![s] = Nothing]
      /\ contended' = contended
  BY DEF OrderCommits, Ends
<1>3. \/ /\ OrderSpec[o].type # "termination"
         /\ \/ emp' = [emp EXCEPT ![e] = [call[s].emp EXCEPT !.wage = OrderSpec[o].amount]]
            \/ emp' = emp
      \/ /\ OrderSpec[o].type = "termination"
         /\ emp' = [emp EXCEPT ![e] = [call[s].emp EXCEPT !.terminated = OrderSpec[o].to]]
  BY DEF OrderCommits
<1>4. call'[s] = Nothing /\ \A r \in Sessions \ {s} : call'[r] = call[r]
  BY <1>0, <1>2 DEF Types
<1>5. emp' \in [Emps -> [wage : Nat, terminated : Int \cup {Nothing}]]
      /\ \A k \in Emps \ {e} : emp'[k] = emp[k]
  <2>1. /\ [call[s].emp EXCEPT !.wage = OrderSpec[o].amount]
             \in [wage : Nat, terminated : Int \cup {Nothing}]
        /\ [call[s].emp EXCEPT !.terminated = OrderSpec[o].to]
             \in [wage : Nat, terminated : Int \cup {Nothing}]
    BY <1>1
  <2>2. QED
    BY <1>0, <1>1, <1>3, <2>1 DEF Types
<1>6. Types'
  <2>1. call' = [r \in Sessions |-> call'[r]]
    BY <1>0, <1>2 DEF Types
  <2>2. QED
    BY <1>0, <1>1, <1>2, <1>4, <1>5, <2>1 DEF Types, At
<1>7. OneHolder'
  <2>1. \A x : \A r \in Sessions : Mine(r, x)' => Mine(r, x)
    BY <1>4 DEF Mine
  <2>2. QED
    BY <1>0, <1>2, <2>1 DEF OneHolder
<1>8. Fresh'
  <2> SUFFICES ASSUME NEW r \in Sessions, At(r, "order")'
               PROVE  /\ call[r].order \notin contended => order'[call[r].order] = "draft"
                      /\ OrderSpec[call[r].order].emp \notin contended =>
                           call[r].emp = emp'[OrderSpec[call[r].order].emp]
    BY <1>2, <1>4 DEF Fresh, At
  <2> DEFINE u == call[r].order
             k == OrderSpec[u].emp
  <2>1. r # s /\ At(r, "order") /\ u \in Orders /\ k \in Emps /\ call[r].on = {u, k}
    BY <1>0, <1>4, SpecTypes DEF Types, At
  <2>2. u \notin contended => u # o
    BY <1>0, <1>1, <2>1 DEF OneHolder, Mine, At
  <2>3. k \notin contended => k # e
    BY <1>0, <1>1, <2>1 DEF OneHolder, Mine, At
  <2>4. QED
    BY <1>0, <1>2, <1>5, <2>1, <2>2, <2>3 DEF Fresh, Types
<1>9. \A u \in Orders \ contended' : rows'[u] = IF order'[u] = "approved" THEN 1 ELSE 0
  BY <1>0, <1>1, <1>2 DEF OrdersHold, Fresh, Types
<1>10. ASSUME NEW k \in Emps \ contended'
       PROVE  LET approved == {u \in OrdersOf(k, "termination") : order'[u] = "approved"}
              IN  IF approved = {} THEN emp'[k].terminated = Nothing
                  ELSE \E u \in approved : emp'[k].terminated = OrderSpec[u].to
  <2> DEFINE before == {u \in OrdersOf(k, "termination") : order[u] = "approved"}
             after == {u \in OrdersOf(k, "termination") : order'[u] = "approved"}
  <2>1. k \notin contended
        /\ IF before = {} THEN emp[k].terminated = Nothing
           ELSE \E u \in before : emp[k].terminated = OrderSpec[u].to
    BY <1>0, <1>2, <1>10 DEF OrdersHold
  <2>2. CASE k = e /\ OrderSpec[o].type = "termination"
    <3>1. emp'[k].terminated = OrderSpec[o].to
      BY <1>0, <1>1, <1>3, <2>2 DEF Types
    <3>2. o \in after
      BY <1>0, <1>1, <1>2, <2>2 DEF OrdersOf, Types
    <3>3. QED
      BY <3>1, <3>2
  <2>3. CASE ~(k = e /\ OrderSpec[o].type = "termination")
    <3>1. o \notin OrdersOf(k, "termination")
      BY <2>3 DEF OrdersOf
    <3>2. after = before
      BY <1>0, <1>2, <3>1 DEF OrdersOf, Types
    <3>3. emp'[k].terminated = emp[k].terminated
      <4>1. CASE k = e
        <5>1. call[s].emp = emp[e] /\ OrderSpec[o].type # "termination"
          BY <1>0, <1>1, <2>1, <2>3, <4>1 DEF Fresh
        <5>2. [call[s].emp EXCEPT !.wage = OrderSpec[o].amount].terminated
                = call[s].emp.terminated
          BY <1>1
        <5>3. QED
          BY <1>0, <1>1, <1>3, <4>1, <5>1, <5>2 DEF Types
      <4>2. CASE k # e
        BY <1>5, <4>2
      <4>3. QED
        BY <4>1, <4>2
    <3>4. QED
      BY <2>1, <3>2, <3>3
  <2>4. QED
    BY <2>2, <2>3
<1>11. OrdersHold'
  BY <1>9, <1>10 DEF OrdersHold, OrdersOf
<1>12. QED
  BY <1>6, <1>7, <1>8, <1>11 DEF IInv

LEMMA StepKeeps ==
  ASSUME IInv, [Next]_vars PROVE IInv'
<1>0. Types
  BY DEF IInv
<1>1. ASSUME UNCHANGED <<order, rows, emp, call, contended>> PROVE IInv'
  BY <1>1 DEF IInv, Types, OneHolder, Mine, Fresh, At, OrdersHold, OrdersOf
<1>2. ASSUME NEW m \in Months, openRun(m) PROVE IInv'
  BY <1>1, <1>2 DEF openRun, orderVars
<1>3. ASSUME NEW s \in Sessions, ComputeReads(s) PROVE IInv'
  <2>1. PICK m \in Months : Begins(s, [op |-> "compute", on |-> {m}, month |-> m])
    BY <1>3 DEF ComputeReads
  <2>2. QED
    BY <1>3, <2>1, BeginsKeep DEF ComputeReads, orderVars
<1>4. ASSUME NEW s \in Sessions, ComputeCommits(s) PROVE IInv'
  BY <1>4, GoesOn DEF ComputeCommits, Ends, orderVars
<1>5. ASSUME NEW s \in Sessions, ApproveReads(s) PROVE IInv'
  <2>1. PICK m \in Months :
          Begins(s, [op |-> "approve", on |-> {m}, month |-> m, items |-> item[m]])
    BY <1>5 DEF ApproveReads
  <2>2. QED
    BY <1>5, <2>1, BeginsKeep DEF ApproveReads, orderVars
<1>6. ASSUME NEW s \in Sessions, ApproveAccrues(s) PROVE IInv'
  <2> DEFINE m == call[s].month
             items == call[s].items
             acc == [e \in Paid(items) |-> Accrued(e, m, items[e].daily)]
             c == [op |-> "post", on |-> call[s].on, month |-> m, items |-> items,
                   acc |-> acc,
                   delta |-> [e \in Paid(items) |-> acc[e] - PreviousAccrual(e, m)]]
  <2>1. call' = [call EXCEPT ![s] = c] /\ call[s] # Nothing
    BY <1>0, <1>6 DEF ApproveAccrues, At, Types
  <2>2. c.op # "order" /\ c.on = call[s].on
    OBVIOUS
  <2>3. UNCHANGED <<order, rows, emp, contended>>
    BY <1>6 DEF ApproveAccrues, orderVars
  <2> HIDE DEF c
  <2>4. QED
    BY <2>1, <2>2, <2>3, GoesOn
<1>7. ASSUME NEW s \in Sessions, ApproveCommits(s) PROVE IInv'
  BY <1>7, GoesOn DEF ApproveCommits, Ends, orderVars
<1>8. ASSUME NEW s \in Sessions, OrderReads(s) PROVE IInv'
  <2>1. PICK o \in Orders :
          /\ order[o] = "draft"
          /\ Begins(s, [op |-> "order", on |-> {o, OrderSpec[o].emp}, order |-> o,
                        emp |-> emp[OrderSpec[o].emp]])
    BY <1>8 DEF OrderReads
  <2>2. QED
    BY <1>8, <2>1, BeginsKeep DEF OrderReads, orderVars
<1>9. ASSUME NEW s \in Sessions, OrderCommits(s) PROVE IInv'
  BY <1>9, OrderCommitsKeeps
<1>10. ASSUME NEW s \in Sessions, RollsBack(s) PROVE IInv'
  BY <1>10, GoesOn DEF RollsBack, Ends, orderVars
<1>11. CASE UNCHANGED vars
  BY <1>1, <1>11 DEF vars, orderVars
<1>12. QED
  BY <1>2, <1>3, <1>4, <1>5, <1>6, <1>7, <1>8, <1>9, <1>10, <1>11 DEF Next

\* An order is applied once, and an employee leaves on the day an approved
\* termination says, wherever no two approvals overlapped.
THEOREM OrdersAreApplied == Spec => []OrdersHold
<1>1. IInv => OrdersHold
  BY DEF IInv
<1>2. QED
  BY <1>1, InitIInv, StepKeeps, PTL DEF Spec

-----------------------------------------------------------------------------
(***************************************************************************)
(* The arithmetic.  Everything a run computes is a whole number of cents   *)
(* or days: in particular no average divides by no days.                   *)
(***************************************************************************)
LEMMA DivRoundInt ==
  ASSUME NEW n \in Int, NEW d \in Nat \ {0} PROVE divRound(n, d) \in Int
BY DEF divRound

LEMMA SumInt ==
  ASSUME NEW f, IsFiniteSet(DOMAIN f), \A x \in DOMAIN f : f[x] \in Int
  PROVE  SumFunction(f) \in Int
BY SumRecursion DEF SumFunction

LEMMA SumNat ==
  ASSUME NEW f, IsFiniteSet(DOMAIN f), \A x \in DOMAIN f : f[x] \in Nat
  PROVE  SumFunction(f) \in Nat /\ \A x \in DOMAIN f : f[x] <= SumFunction(f)
BY SumOfNats DEF SumFunction

\* The greatest of finitely many numbers.
LEMMA MaxIsGreatest ==
  ASSUME NEW S, IsFiniteSet(S), S \subseteq Int, S # {}
  PROVE  Max(S) \in S /\ \A y \in S : y <= Max(S)
<1> DEFINE C == {T \in SUBSET S : T = {} \/ \E x \in T : \A y \in T : y <= x}
<1>1. {} \in C
  OBVIOUS
<1>2. ASSUME NEW T \in SUBSET S, NEW z \in S \ T, T \in C PROVE T \cup {z} \in C
  <2>1. CASE T = {}
    BY <2>1
  <2>2. CASE T # {}
    <3>1. PICK x \in T : \A y \in T : y <= x
      BY <1>2, <2>2
    <3>2. CASE z <= x
      BY <3>1, <3>2
    <3>3. CASE ~(z <= x)
      <4>1. \A y \in T \cup {z} : y <= z
        BY <3>1, <3>3
      <4>2. QED
        BY <4>1
    <3>4. QED
      BY <3>2, <3>3
  <2>3. QED
    BY <2>1, <2>2
<1> HIDE DEF C
<1>3. S \in C
  BY <1>1, <1>2, SubsetInduction
<1>4. \E x \in S : \A y \in S : x >= y
  BY <1>3 DEF C
<1>5. QED
  BY <1>4 DEF Max

LEMMA DaysCounted ==
  ASSUME NEW from \in Int, NEW to \in Int, NEW m \in Int
  PROVE  /\ IsFiniteSet(DaysWorked(from, to, m)) /\ DaysWorked(from, to, m) \subseteq Int
         /\ workDaysOverlap(from, to, m) \in Nat
<1>1. DaysWorked(from, to, m) \subseteq from..to
  <2>1. \A d \in WorkDays : d \in Int
    BY CalcAssumption
  <2>2. QED
    BY <2>1 DEF DaysWorked
<1>2. IsFiniteSet(DaysWorked(from, to, m))
  BY <1>1, FS_Interval, FS_Subset
<1>3. QED
  BY <1>1, <1>2, FS_CardinalityType DEF workDaysOverlap

LEMMA MonthBounds ==
  ASSUME NEW m \in Int
  PROVE  FirstDay(m) \in Int /\ LastDay(m) \in Int /\ workDaysInMonth(m) \in Nat
<1>1. FirstDay(m) \in Int /\ LastDay(m) \in Int
  BY CalcAssumption DEF FirstDay, LastDay
<1>2. QED
  BY <1>1, DaysCounted DEF workDaysInMonth

LEMMA SickPayInt ==
  ASSUME NEW a \in Leaves, NEW m \in Int, NEW daily \in Int
  PROVE  computeSickPayA(a, m, daily) \in Int
<1> DEFINE f == [d \in DaysWorked(a.from, a.to, m) |->
                   applyBp(daily, SickRate(d - a.from + 1))]
<1>1. a.from \in Int /\ a.to \in Int
  BY DEF Leaves
<1>2. IsFiniteSet(DOMAIN f)
  BY <1>1, DaysCounted
<1>3. \A r : SickRate(r) \in Nat
  BY CalcAssumption DEF SickRate
<1>4. ASSUME NEW r \in Nat PROVE applyBp(daily, r) \in Int
  <2>1. daily * r \in Int
    OBVIOUS
  <2>2. QED
    BY <2>1, DivRoundInt DEF applyBp
<1>5. \A d \in DOMAIN f : f[d] \in Int
  BY <1>3, <1>4
<1> HIDE DEF f
<1>6. SumFunction(f) \in Int
  BY <1>2, <1>5, SumInt
<1>7. QED
  BY <1>6 DEF f, computeSickPayA

-----------------------------------------------------------------------------
\* Histories of earnings.
IsHistory(h) ==
  /\ DOMAIN h \subseteq Int /\ IsFiniteSet(DOMAIN h)
  /\ \A k \in DOMAIN h : h[k].gross \in Int /\ h[k].days \in Nat

LEMMA Totals ==
  ASSUME NEW h, IsHistory(h), NEW W
  PROVE  /\ Total(h, "gross", W) \in Int /\ Total(h, "days", W) \in Nat
         /\ \A k \in W \cap DOMAIN h : h[k].days <= Total(h, "days", W)
<1> DEFINE g == [k \in W \cap DOMAIN h |-> h[k]["gross"]]
           d == [k \in W \cap DOMAIN h |-> h[k]["days"]]
<1>1. IsFiniteSet(W \cap DOMAIN h)
  BY FS_Subset DEF IsHistory
<1>2. /\ DOMAIN g = W \cap DOMAIN h /\ \A k \in DOMAIN g : g[k] \in Int
      /\ DOMAIN d = W \cap DOMAIN h /\ \A k \in DOMAIN d : d[k] \in Nat /\ d[k] = h[k].days
  BY DEF IsHistory
<1>3. Total(h, "gross", W) = SumFunction(g) /\ Total(h, "days", W) = SumFunction(d)
  BY DEF Total
<1> HIDE DEF g, d
<1>4. QED
  BY <1>1, <1>2, <1>3, SumInt, SumNat

LEMMA Averages ==
  ASSUME NEW h, IsHistory(h), NEW m \in Int, HasEarnings(h, m)
  PROVE  averageDaily(h, m) \in Int /\ averageMonthly(h, m) \in Int
<1> DEFINE w == WindowEnd(h, m)
<1>1. w \in Int /\ Total(h, "days", Window(w)) > 0
  <2>1. CASE Total(h, "days", Window(m - 1)) = 0
    <3>1. /\ Earlier(h, m - 1) # {} /\ Earlier(h, m - 1) \subseteq Int
          /\ IsFiniteSet(Earlier(h, m - 1)) /\ w = Max(Earlier(h, m - 1))
      BY <2>1, FS_Subset DEF HasEarnings, Earlier, IsHistory, WindowEnd
    <3>2. w \in Earlier(h, m - 1)
      BY <3>1, MaxIsGreatest
    <3>3. w \in Int /\ w \in Window(w) \cap DOMAIN h /\ h[w].days > 0
      <4>1. w \in Int /\ w \in DOMAIN h /\ h[w].days > 0
        BY <3>1, <3>2 DEF Earlier
      <4> HIDE DEF w
      <4>2. QED
        BY <4>1 DEF Window
    <3> HIDE DEF w
    <3>4. h[w].days <= Total(h, "days", Window(w)) /\ Total(h, "days", Window(w)) \in Nat
          /\ h[w].days \in Nat
      BY <3>3, Totals DEF IsHistory
    <3>5. QED
      BY <3>3, <3>4
  <2>2. CASE Total(h, "days", Window(m - 1)) # 0
    BY <2>2, Totals DEF WindowEnd
  <2>3. QED
    BY <2>1, <2>2
<1> HIDE DEF w
<1>2. Total(h, "gross", Window(w)) \in Int /\ Total(h, "days", Window(w)) \in Nat \ {0}
  BY <1>1, Totals
<1>3. averageDaily(h, m) \in Int
  BY <1>2, DivRoundInt DEF averageDaily, w
<1>4. SumFunction([k \in Window(w) |-> workDaysInMonth(k)]) \in Int
  <2> DEFINE f == [k \in Window(w) |-> workDaysInMonth(k)]
  <2>1. IsFiniteSet(DOMAIN f)
    BY <1>1, FS_Interval DEF Window
  <2>2. \A k \in DOMAIN f : f[k] \in Int
    BY <1>1, MonthBounds DEF Window
  <2> HIDE DEF f
  <2>3. SumFunction(f) \in Int
    BY <2>1, <2>2, SumInt
  <2>4. QED
    BY <2>3 DEF f
<1>5. averageDaily(h, m) * SumFunction([k \in Window(w) |-> workDaysInMonth(k)]) \in Int
  BY <1>3, <1>4
<1>6. QED
  BY <1>3, <1>5, DivRoundInt DEF averageMonthly, w

-----------------------------------------------------------------------------
\* Gross to net.
TaxStatus == [active : BOOLEAN, dependents : Nat, pensioner : BOOLEAN,
              disability : 0..3, repressed : BOOLEAN]

LEMMA ParamsNat ==
  /\ Params.iinBasic \in Nat /\ Params.iinTop \in Nat /\ Params.iinBand3 \in Nat
  /\ Params.threshold \in Nat /\ Params.threshold2 \in Nat /\ Params.minimum \in Nat
  /\ Params.pensioner \in Nat /\ Params.dependent \in Nat
  /\ Params.disability12 \in Nat /\ Params.disability3 \in Nat
  /\ Params.repression \in Nat /\ Params.vsaoi \in Nat
  /\ Params.vsaoiEmployer \in Nat /\ Params.riskDuty \in Nat
  /\ Params.deductionCap \in Nat
BY CalcAssumption

LEMMA ApplyBpInt ==
  ASSUME NEW c \in Int, NEW bp \in Nat PROVE applyBp(c, bp) \in Int
<1>1. c * bp \in Int
  OBVIOUS
<1>2. QED
  BY <1>1, DivRoundInt DEF applyBp

LEMMA ReliefsInt ==
  ASSUME NEW tax \in TaxStatus, NEW worked \in Nat, NEW total \in Nat
  PROVE  Reliefs(tax, worked, total) \in Int
<1> DEFINE a == IF total > 0
                  THEN divRound((IF tax.pensioner THEN Params.pensioner ELSE Params.minimum)
                                  * worked, total)
                  ELSE 0
           b == Params.dependent * tax.dependents
           c == CASE tax.disability \in {1, 2} -> Params.disability12
                  [] tax.disability = 3        -> Params.disability3
                  [] OTHER                     -> 0
           d == IF tax.repressed THEN Params.repression ELSE 0
<1>1. a \in Int
  <2>1. (IF tax.pensioner THEN Params.pensioner ELSE Params.minimum) * worked \in Int
    BY ParamsNat
  <2>2. CASE total > 0
    BY <2>1, <2>2, DivRoundInt
  <2>3. QED
    BY <2>2
<1>2. b \in Int
  BY ParamsNat DEF TaxStatus
<1>3. c \in Int /\ d \in Int
  BY ParamsNat DEF TaxStatus
<1>4. Reliefs(tax, worked, total) = IF ~tax.active THEN 0 ELSE a + b + c + d
  BY DEF Reliefs
<1> HIDE DEF a, b, c, d
<1>5. QED
  BY <1>1, <1>2, <1>3, <1>4

LEMMA IinInt ==
  ASSUME NEW base \in Int PROVE Iin(base) \in Int
<1> DEFINE b1 == Smaller(base, Params.threshold)
           b2 == AtLeast0(Smaller(base, Params.threshold2) - Params.threshold)
           b3 == AtLeast0(base - Params.threshold2)
<1>1. b1 \in Int /\ b2 \in Int /\ b3 \in Int
  BY ParamsNat DEF Smaller, AtLeast0
<1> DEFINE bands == b1 * Params.iinBasic + b2 * Params.iinTop + b3 * Params.iinBand3
<1>2. Iin(base) = IF Progressive THEN divRound(bands, 10000)
                                 ELSE applyBp(base, Params.iinBasic)
  BY DEF Iin
<1> HIDE DEF b1, b2, b3
<1>3. /\ b1 * Params.iinBasic \in Int /\ b2 * Params.iinTop \in Int
      /\ b3 * Params.iinBand3 \in Int
  BY <1>1, ParamsNat
<1>4. bands \in Int
  <2>1. \A x, y, z \in Int : x + y + z \in Int
    OBVIOUS
  <2>2. QED
    BY ONLY <1>3, <2>1 DEF bands
<1> HIDE DEF bands
<1>5. divRound(bands, 10000) \in Int
  BY <1>4, DivRoundInt
<1>6. applyBp(base, Params.iinBasic) \in Int
  BY ParamsNat, ApplyBpInt
<1>7. QED
  BY <1>2, <1>5, <1>6

\* What the posted pairs leave on wages payable is what is paid out.
LEMMA NetIsPaid ==
  ASSUME NEW gross \in Int, NEW severance \in Int, NEW requested \in Nat,
         NEW tax \in TaxStatus, NEW worked \in Nat, NEW total \in Nat
  PROVE  LET p == computePayroll(gross, severance, requested, tax, worked, total)
         IN  /\ p \in Pay /\ p.severance = severance
             /\ p.gross + p.severance - p.iin - p.vsaoi - p.deducted = p.payout
<1> DEFINE vsaoi == applyBp(gross, Params.vsaoi)
           iin == Iin(AtLeast0(gross - vsaoi - Reliefs(tax, worked, total)))
           due == gross - vsaoi - iin
           deducted == Smaller(requested, applyBp(due, Params.deductionCap))
           net == due - deducted
           employer == applyBp(gross, Params.vsaoiEmployer)
           p == computePayroll(gross, severance, requested, tax, worked, total)
<1>1. vsaoi \in Int /\ employer \in Int
  BY ParamsNat, ApplyBpInt
<1>2. iin \in Int
  <2> HIDE DEF vsaoi
  <2>1. AtLeast0(gross - vsaoi - Reliefs(tax, worked, total)) \in Int
    BY <1>1, ReliefsInt DEF AtLeast0
  <2>2. QED
    BY <2>1, IinInt
<1>3. p = [gross |-> gross, severance |-> severance, vsaoi |-> vsaoi, iin |-> iin,
           deducted |-> deducted, net |-> net, payout |-> net + severance,
           employer |-> employer, risk |-> Params.riskDuty]
  BY DEF computePayroll
<1> HIDE DEF vsaoi, iin, employer, p
<1>4. due \in Int /\ deducted \in Int
  <2>1. due \in Int
    BY <1>1, <1>2
  <2>2. applyBp(due, Params.deductionCap) \in Int
    <3> HIDE DEF due
    <3>1. QED
      BY <2>1, ParamsNat, ApplyBpInt
  <2>3. QED
    BY <2>1, <2>2 DEF Smaller
<1>5. net \in Int /\ net + severance \in Int /\ Params.riskDuty \in Int
  <2> HIDE DEF due, deducted
  <2>1. QED
    BY <1>4, ParamsNat
<1>6. p \in Pay /\ p.severance = severance
  <2> HIDE DEF due, deducted, net
  <2>1. QED
    BY <1>1, <1>2, <1>3, <1>4, <1>5 DEF Pay
<1>7. p.gross + p.severance - p.iin - p.vsaoi - p.deducted = p.payout
  <2>1. /\ p.gross = gross /\ p.severance = severance /\ p.iin = iin /\ p.vsaoi = vsaoi
        /\ p.deducted = deducted /\ p.payout = (gross - vsaoi - iin) - deducted + severance
    BY <1>3
  <2> HIDE DEF deducted
  <2>2. QED
    BY <1>1, <1>2, <1>4, <2>1
<1>8. QED
  BY <1>6, <1>7 DEF p

-----------------------------------------------------------------------------
(***************************************************************************)
(* The types of what runs, accruals and settlements keep, and of what the  *)
(* calls have in hand.                                                     *)
(***************************************************************************)
SoundItem ==
  {i \in Item : PostedToWagesPayable(i) = i.pay.payout}

Items == [Emps -> SoundItem \cup {Nothing}]

Amounts == [taxable : Int, exempt : Int]

PayTypes ==
  /\ run \in [Months -> {"none", "draft", "computed", "approved"}]
  /\ item \in [Months -> Items]
  /\ payable \in [Months -> [Emps -> Int]]
  /\ accrual \in [Months -> [Emps -> Int \cup {Nothing}]]
  /\ liability \in [Emps -> Int]
  /\ settled \in [Orders -> Amounts]

Approving(s) == At(s, "approve") \/ At(s, "post")

CallTypes ==
  \A s \in Sessions :
    /\ At(s, "compute") => call[s].month \in Months /\ call[s].on = {call[s].month}
    /\ Approving(s) => /\ call[s].month \in Months /\ call[s].on = {call[s].month}
                       /\ call[s].items \in Items
    /\ At(s, "post") => /\ call[s].acc \in [Paid(call[s].items) -> Int]
                        /\ call[s].delta \in [Paid(call[s].items) -> Int]

LEMMA MonthsInt == Months \subseteq Int /\ IsFiniteSet(Months)
<1>1. LastMonth \in Nat
  BY PayrollAssumption
<1>2. 1 \in Int /\ LastMonth \in Int
  BY ONLY <1>1
<1>3. IsFiniteSet(1..LastMonth)
  BY <1>2, FS_Interval
<1>4. QED
  BY <1>2, <1>3 DEF Months

LEMMA MonthOfInt ==
  ASSUME NEW d \in Int
  PROVE  MonthOf(d) \in Int /\ FirstDay(MonthOf(d)) <= d /\ d <= LastDay(MonthOf(d))
<1> DEFINE q == (d - 1) \div MonthDays
<1>1. MonthDays \in Nat \ {0} /\ d - 1 \in Int
  BY CalcAssumption
<1>2. q \in Int /\ q * MonthDays <= d - 1 /\ d - 1 < (q + 1) * MonthDays
  <2>1. \A x \in Int : \A n \in Nat \ {0} :
          /\ x \div n \in Int /\ n * (x \div n) <= x /\ x < n * (x \div n) + n
    OBVIOUS
  <2>2. q \in Int /\ MonthDays * q <= d - 1 /\ d - 1 < MonthDays * q + MonthDays
    BY <1>1, <2>1
  <2> HIDE DEF q
  <2>3. q * MonthDays = MonthDays * q /\ (q + 1) * MonthDays = MonthDays * q + MonthDays
    BY <1>1, <2>2
  <2>4. QED
    BY <2>2, <2>3
<1>3. MonthOf(d) = q + 1
  BY DEF MonthOf
<1> HIDE DEF q
<1>4. (q + 1) - 1 = q
  BY <1>2
<1>5. FirstDay(MonthOf(d)) = q * MonthDays + 1 /\ LastDay(MonthOf(d)) = (q + 1) * MonthDays
  BY <1>3, <1>4 DEF FirstDay, LastDay
<1>6. q * MonthDays \in Int /\ (q + 1) * MonthDays \in Int
  BY <1>1, <1>2
<1>7. QED
  BY <1>2, <1>3, <1>5, <1>6

LEMMA RowsInt ==
  ASSUME Types, NEW f, DOMAIN f \subseteq Orders, \A o \in DOMAIN f : f[o] \in Int
  PROVE  OfRows(f) \in Int
<1> DEFINE g == [o \in DOMAIN f |-> rows[o] * f[o]]
<1>1. IsFiniteSet(DOMAIN g)
  BY FS_Subset, PayrollAssumption
<1>2. \A o \in DOMAIN g : g[o] \in Int
  <2>1. ASSUME NEW o \in DOMAIN f PROVE rows[o] * f[o] \in Int
    <3>1. rows[o] \in Nat /\ f[o] \in Int
      BY DEF Types
    <3>2. QED
      BY <3>1
  <2>2. QED
    BY <2>1
<1> HIDE DEF g
<1>3. SumFunction(g) \in Int
  BY <1>1, <1>2, SumInt
<1>4. QED
  BY <1>3 DEF g, OfRows

LEMMA HistoryTyped ==
  ASSUME PayTypes, NEW e \in Emps PROVE IsHistory(History(e))
<1> DEFINE done == {m \in Months : run[m] = "approved" /\ item[m][e] # Nothing}
<1>1. /\ DOMAIN History(e) = DOMAIN Opening[e] \cup done
      /\ \A k \in DOMAIN Opening[e] \cup done :
           History(e)[k] = IF k \in done
             THEN [gross |-> item[k][e].base, days |-> item[k][e].days] ELSE Opening[e][k]
  BY DEF History
<1>2. ASSUME NEW k \in done PROVE item[k][e].base \in Int /\ item[k][e].days \in Nat
  BY <1>2 DEF PayTypes, Items, SoundItem, Item
<1>3. ASSUME NEW k \in DOMAIN Opening[e]
      PROVE  Opening[e][k].gross \in Int /\ Opening[e][k].days \in Nat
  BY PayrollAssumption
<1>4. DOMAIN Opening[e] \subseteq Int /\ IsFiniteSet(DOMAIN Opening[e])
  BY PayrollAssumption
<1>5. done \subseteq Int /\ IsFiniteSet(done)
  BY MonthsInt, FS_Subset
<1> HIDE DEF done
<1>6. PICK D : D = DOMAIN Opening[e] \cup done
  OBVIOUS
<1>7. IsFiniteSet(D) /\ D \subseteq Int
  BY <1>4, <1>5, <1>6, FS_Union
<1>8. ASSUME NEW k \in D PROVE History(e)[k].gross \in Int /\ History(e)[k].days \in Nat
  <2>1. CASE k \in done
    <3>1. History(e)[k] = [gross |-> item[k][e].base, days |-> item[k][e].days]
      BY <1>1, <1>6, <1>8, <2>1
    <3>2. QED
      BY <1>2, <2>1, <3>1
  <2>2. CASE k \notin done
    <3>1. History(e)[k] = Opening[e][k] /\ k \in DOMAIN Opening[e]
      BY <1>1, <1>6, <1>8, <2>2
    <3>2. QED
      BY <1>3, <3>1
  <2>3. QED
    BY <2>1, <2>2
<1>9. DOMAIN History(e) = D
  BY <1>1, <1>6
<1>10. QED
  BY <1>7, <1>8, <1>9 DEF IsHistory

\* The vacation balance and its value.
LEMMA BalanceInt ==
  ASSUME Types, NEW e \in Emps, NEW m \in Int, NEW t \in Int \cup {Nothing}
  PROVE  vacationBalance(e, m, t) \in Int
<1> DEFINE end == IF t = Nothing THEN m ELSE Smaller(m, MonthOf(t))
           used(o) == IF OrderSpec[o].from <= LastDay(m)
                        THEN Cardinality({d \in WorkDays : /\ OrderSpec[o].from <= d
                                                           /\ d <= OrderSpec[o].to
                                                           /\ d <= LastDay(m)})
                        ELSE 0
           f == [o \in OrdersOf(e, "vacation") |-> used(o)]
<1>1. end \in Int
  BY MonthOfInt DEF Smaller
<1>2. ASSUME NEW o \in Orders PROVE used(o) \in Int
  <2> DEFINE D == {d \in WorkDays : /\ OrderSpec[o].from <= d /\ d <= OrderSpec[o].to
                                    /\ d <= LastDay(m)}
  <2>1. OrderSpec[o].from \in Int /\ OrderSpec[o].to \in Int
    BY SpecTypes
  <2>2. D \subseteq OrderSpec[o].from..OrderSpec[o].to
    <3>1. \A d \in WorkDays : d \in Int
      BY CalcAssumption
    <3>2. QED
      BY <2>1, <3>1
  <2>3. IsFiniteSet(D)
    BY <2>1, <2>2, FS_Interval, FS_Subset
  <2>4. Cardinality(D) \in Nat
    BY <2>3, FS_CardinalityType
  <2>5. QED
    BY <2>4
<1>3. DOMAIN f \subseteq Orders /\ \A o \in DOMAIN f : f[o] \in Int
  BY <1>2 DEF OrdersOf
<1>4. vacationBalance(e, m, t) =
        Card[e].openingDays + 167 * AtLeast0(end - Card[e].openingMonth) - 100 * OfRows(f)
  BY DEF vacationBalance
<1> HIDE DEF end, f
<1>5. OfRows(f) \in Int
  BY <1>3, RowsInt
<1>6. Card[e].openingDays \in Int /\ AtLeast0(end - Card[e].openingMonth) \in Int
  BY <1>1, PayrollAssumption DEF AtLeast0
<1>7. QED
  BY <1>4, <1>5, <1>6

LEMMA AccruedInt ==
  ASSUME Types, NEW e \in Emps, NEW m \in Int, NEW daily \in Int
  PROVE  Accrued(e, m, daily) \in Int
<1> DEFINE b == vacationBalance(e, m, emp[e].terminated)
<1>1. b \in Int
  BY BalanceInt DEF Types
<1>2. Accrued(e, m, daily) =
        IF Terminated(e, m) \/ b <= 0 THEN 0 ELSE divRound(b * daily, 100)
  BY DEF Accrued
<1> HIDE DEF b
<1>3. b * daily \in Int
  BY <1>1
<1>4. divRound(b * daily, 100) \in Int
  BY <1>3, DivRoundInt
<1>5. QED
  BY <1>2, <1>4

LEMMA SettlementInt ==
  ASSUME Types, PayTypes, NEW o \in Orders,
         HasEarnings(History(OrderSpec[o].emp), MonthOf(OrderSpec[o].to))
  PROVE  Settlement(o) \in Amounts
<1> DEFINE e == OrderSpec[o].emp
           day == OrderSpec[o].to
           left == vacationBalance(e, MonthOf(day), day)
           h == History(e)
           d == averageDaily(h, MonthOf(day))
           a == averageMonthly(h, MonthOf(day))
           n == severanceMonthsFor(Card[e].hired, day)
<1>1. e \in Emps /\ day \in Int /\ MonthOf(day) \in Int
  BY SpecTypes, MonthOfInt
<1>2. left \in Int
  BY <1>1, BalanceInt
<1>3. d \in Int /\ a \in Int
  <2> HIDE DEF h
  <2>1. IsHistory(h)
    BY <1>1, HistoryTyped DEF h
  <2>2. HasEarnings(h, MonthOf(day))
    BY DEF h
  <2>3. QED
    BY <1>1, <2>1, <2>2, Averages
<1>4. n \in Int
  BY DEF severanceMonthsFor
<1>5. Settlement(o) =
        [taxable |-> IF left > 0 THEN divRound(left * d, 100) ELSE 0,
         exempt |-> IF OrderSpec[o].amount > 0 THEN n * a ELSE 0]
  BY DEF Settlement
<1> HIDE DEF left, d, a, n
<1>6. divRound(left * d, 100) \in Int
  <2>1. left * d \in Int
    BY <1>2, <1>3
  <2>2. QED
    BY <2>1, DivRoundInt
<1>7. n * a \in Int
  BY <1>3, <1>4
<1>8. QED
  BY <1>5, <1>6, <1>7 DEF Amounts

\* A computed item: what it posts is what it pays out, and it has the final
\* settlements due in its month.
LEMMA ItemComputed ==
  ASSUME Types, PayTypes, NEW e \in Emps, NEW m \in Months
  PROVE  LET i == computeEmployee(e, m)
             final == DueIn(e, "termination", m)
         IN  /\ i \in SoundItem
             /\ i.other = SumFunction([o \in final |-> settled[o].taxable])
             /\ i.pay.severance = SumFunction([o \in final |-> settled[o].exempt])
<1> DEFINE total == workDaysInMonth(m)
           from == Max({Card[e].hired, FirstDay(m)})
           to == IF emp[e].terminated = Nothing THEN LastDay(m)
                 ELSE Smaller(emp[e].terminated, LastDay(m))
           leaves == OrdersOf(e, "vacation")
           offDays == [o \in leaves |-> workDaysOverlap(OrderSpec[o].from, OrderSpec[o].to, m)]
           sickDays == [a \in Sick[e] |-> workDaysOverlap(a.from, a.to, m)]
           absent == OfRows(offDays) + SumFunction(sickDays)
           worked == AtLeast0(workDaysOverlap(from, to, m) - absent)
           wage == IF total > 0 THEN divRound(emp[e].wage * worked, total) ELSE 0
           bonuses == [o \in DueIn(e, "bonus", m) |-> OrderSpec[o].amount]
           bonus == OfRows(bonuses)
           daily == IF HasEarnings(History(e), m) THEN averageDaily(History(e), m)
                    ELSE divRound(emp[e].wage, total)
           leavePay == [o \in leaves |-> computeVacationPay(OrderSpec[o], m, daily)]
           vacation == OfRows(leavePay)
           sickPay == [a \in Sick[e] |-> computeSickPayA(a, m, daily)]
           sick == SumFunction(sickPay)
           final == DueIn(e, "termination", m)
           other == SumFunction([o \in final |-> settled[o].taxable])
           gross == wage + bonus + vacation + sick + other
           exempt == SumFunction([o \in final |-> settled[o].exempt])
           pay == computePayroll(gross, exempt, Deduction[e], Tax[e], worked, total)
           i == computeEmployee(e, m)
<1>1. i = [base |-> wage + bonus, days |-> worked, daily |-> daily, other |-> other,
           pay |-> pay]
  BY DEF computeEmployee
<1>2. /\ m \in Int /\ FirstDay(m) \in Int /\ LastDay(m) \in Int
      /\ total \in Nat \ {0}
  <2>1. m \in Int
    BY MonthsInt
  <2>2. QED
    BY <2>1, MonthBounds, PayrollAssumption
<1>3. /\ Card[e].hired \in Int /\ Deduction[e] \in Nat /\ Tax[e] \in TaxStatus
      /\ IsFiniteSet(Sick[e]) /\ Sick[e] \subseteq Leaves
      /\ emp[e].wage \in Nat /\ emp[e].terminated \in Int \cup {Nothing}
  BY PayrollAssumption DEF TaxStatus, Types
<1> HIDE DEF total, i
<1>4. from \in Int /\ to \in Int
  <2>1. to \in Int
    BY <1>2, <1>3 DEF Smaller
  <2>2. from \in {Card[e].hired, FirstDay(m)}
    <3>1. IsFiniteSet({Card[e].hired, FirstDay(m)})
      <4>1. \A x, y : IsFiniteSet({x} \cup {y})
        BY FS_Singleton, FS_AddElement
      <4>2. {Card[e].hired} \cup {FirstDay(m)} = {Card[e].hired, FirstDay(m)}
        OBVIOUS
      <4>3. QED
        BY <4>1, <4>2
    <3>2. {Card[e].hired, FirstDay(m)} \subseteq Int /\ {Card[e].hired, FirstDay(m)} # {}
      BY <1>2, <1>3
    <3>3. QED
      BY <3>1, <3>2, MaxIsGreatest
  <2>3. QED
    BY <1>2, <1>3, <2>1, <2>2
<1> HIDE DEF from, to
<1>5. \A o \in Orders : OrderSpec[o].from \in Int /\ OrderSpec[o].to \in Int
                        /\ OrderSpec[o].amount \in Int
  BY SpecTypes
<1>6. \A a \in Sick[e] : a.from \in Int /\ a.to \in Int
  BY <1>3 DEF Leaves
<1>7. worked \in Nat
  <2>1. OfRows(offDays) \in Int
    <3>1. DOMAIN offDays \subseteq Orders /\ \A o \in DOMAIN offDays : offDays[o] \in Int
      <4>1. \A o \in Orders : workDaysOverlap(OrderSpec[o].from, OrderSpec[o].to, m) \in Int
        BY <1>2, <1>5, DaysCounted
      <4>2. QED
        BY <4>1 DEF OrdersOf
    <3> HIDE DEF offDays
    <3>2. QED
      BY <3>1, RowsInt
  <2>2. SumFunction(sickDays) \in Int
    <3>1. DOMAIN sickDays = Sick[e] /\ \A a \in DOMAIN sickDays : sickDays[a] \in Int
      <4>1. ASSUME NEW a \in Sick[e] PROVE sickDays[a] \in Int
        <5>1. workDaysOverlap(a.from, a.to, m) \in Nat
          BY <1>2, <1>6, DaysCounted
        <5>2. sickDays[a] = workDaysOverlap(a.from, a.to, m)
          OBVIOUS
        <5>3. QED
          BY ONLY <5>1, <5>2
      <4>2. DOMAIN sickDays = Sick[e]
        OBVIOUS
      <4> HIDE DEF sickDays
      <4>3. QED
        BY <4>1, <4>2
    <3> HIDE DEF sickDays
    <3>2. QED
      BY <1>3, <3>1, SumInt
  <2>3. workDaysOverlap(from, to, m) \in Nat
    BY <1>2, <1>4, DaysCounted
  <2> HIDE DEF offDays, sickDays
  <2>4. QED
    BY <2>1, <2>2, <2>3 DEF AtLeast0
<1> HIDE DEF worked
<1>8. wage \in Int
  <2>1. emp[e].wage * worked \in Int
    BY <1>3, <1>7
  <2>2. QED
    BY <1>2, <2>1, DivRoundInt
<1>9. bonus \in Int
  <2>1. DOMAIN bonuses \subseteq Orders /\ \A o \in DOMAIN bonuses : bonuses[o] \in Int
    BY <1>5 DEF DueIn, OrdersOf
  <2> HIDE DEF bonuses
  <2>2. QED
    BY <2>1, RowsInt
<1>10. daily \in Int
  <2>1. HasEarnings(History(e), m) => averageDaily(History(e), m) \in Int
    <3>1. IsHistory(History(e))
      BY HistoryTyped
    <3>2. QED
      BY <1>2, <3>1, Averages
  <2>2. divRound(emp[e].wage, total) \in Int
    BY <1>2, <1>3, DivRoundInt
  <2>3. QED
    BY <2>1, <2>2
<1> HIDE DEF wage, bonus, daily
<1>11. vacation \in Int
  <2>1. DOMAIN leavePay \subseteq Orders /\ \A o \in DOMAIN leavePay : leavePay[o] \in Int
    <3>1. ASSUME NEW o \in Orders PROVE computeVacationPay(OrderSpec[o], m, daily) \in Int
      <4>1. workDaysOverlap(OrderSpec[o].from, OrderSpec[o].to, m) \in Nat
        BY <1>2, <1>5, DaysCounted
      <4>2. QED
        BY <1>10, <4>1 DEF computeVacationPay
    <3>2. QED
      BY <3>1 DEF OrdersOf
  <2> HIDE DEF leavePay
  <2>2. QED
    BY <2>1, RowsInt
<1>12. sick \in Int
  <2>1. DOMAIN sickPay = Sick[e] /\ \A a \in DOMAIN sickPay : sickPay[a] \in Int
    BY <1>2, <1>3, <1>10, SickPayInt
  <2> HIDE DEF sickPay
  <2>2. QED
    BY <1>3, <2>1, SumInt
<1>13. other \in Int /\ exempt \in Int
  <2> DEFINE f == [o \in final |-> settled[o].taxable]
             g == [o \in final |-> settled[o].exempt]
  <2>1. final \subseteq Orders /\ IsFiniteSet(final)
    BY FS_Subset, PayrollAssumption DEF DueIn, OrdersOf
  <2>2. DOMAIN f = final /\ DOMAIN g = final
        /\ (\A o \in final : f[o] \in Int) /\ (\A o \in final : g[o] \in Int)
    BY <2>1 DEF PayTypes, Amounts
  <2> HIDE DEF f, g, final
  <2>3. SumFunction(f) \in Int /\ SumFunction(g) \in Int
    BY <2>1, <2>2, SumInt
  <2>4. QED
    BY <2>3 DEF f, g
<1> HIDE DEF vacation, sick, other, exempt
<1>14. gross \in Int /\ wage + bonus \in Int
  BY <1>8, <1>9, <1>11, <1>12, <1>13
<1> HIDE DEF gross
<1>15. /\ pay \in Pay /\ pay.severance = exempt
       /\ pay.gross + pay.severance - pay.iin - pay.vsaoi - pay.deducted = pay.payout
  <2>1. PICK r \in Nat, t \in TaxStatus : r = Deduction[e] /\ t = Tax[e]
    BY <1>3
  <2>2. pay = computePayroll(gross, exempt, r, t, worked, total)
    BY <2>1
  <2>3. total \in Nat
    BY <1>2
  <2> HIDE DEF pay, leaves, offDays, sickDays, absent, bonuses, leavePay, sickPay, final
  <2>4. LET p == computePayroll(gross, exempt, r, t, worked, total)
        IN  /\ p \in Pay /\ p.severance = exempt
            /\ p.gross + p.severance - p.iin - p.vsaoi - p.deducted = p.payout
    BY <1>7, <1>13, <1>14, <2>3, NetIsPaid
  <2>5. PICK p : p = computePayroll(gross, exempt, r, t, worked, total)
    OBVIOUS
  <2>6. /\ p \in Pay /\ p.severance = exempt
        /\ p.gross + p.severance - p.iin - p.vsaoi - p.deducted = p.payout
    BY ONLY <2>4, <2>5
  <2>7. pay = p
    BY <2>2, <2>5
  <2>8. QED
    BY ONLY <2>6, <2>7
<1> HIDE DEF pay
<1>16. i.other = other /\ i.pay = pay /\ i.pay.severance = exempt
  BY <1>1, <1>15
<1>17. i \in Item
  BY <1>1, <1>7, <1>10, <1>13, <1>14, <1>15 DEF Item
<1>18. PostedToWagesPayable(i) = i.pay.payout
  BY <1>15, <1>16 DEF PostedToWagesPayable
<1>19. QED
  BY <1>16, <1>17, <1>18 DEF SoundItem, i, other, exempt

-----------------------------------------------------------------------------
(***************************************************************************)
(* What is posted rests on this: the month a call has in hand and nobody   *)
(* contends is still as the call read it.                                  *)
(***************************************************************************)
RunFresh ==
  \A s \in Sessions :
    /\ At(s, "compute") =>
         call[s].month \in contended \/ run[call[s].month] \in {"draft", "computed"}
    /\ Approving(s) =>
         /\ run[call[s].month] \in {"computed", "approved"}
         /\ call[s].month \notin contended =>
              /\ run[call[s].month] = "computed"
              /\ call[s].items = item[call[s].month]

\* A run that is not approved has no snapshot.
Unaccrued ==
  \A m \in Months \ contended : run[m] # "approved" =>
    \A e \in Emps : accrual[m][e] = Nothing

\* A draft order has settled nothing.
Unsettled ==
  \A o \in Orders : order[o] = "draft" => settled[o] = [taxable |-> 0, exempt |-> 0]

PayInv == PayTypes /\ CallTypes /\ RunFresh /\ PostedIsApproved /\ Unaccrued /\ Unsettled

LEMMA InitPayInv == Init => PayInv
<1> SUFFICES ASSUME Init PROVE PayInv
  OBVIOUS
<1>1. PayTypes
  BY DEF Init, PayTypes, Items, Amounts
<1>2. CallTypes /\ RunFresh
  BY DEF Init, CallTypes, RunFresh, Approving, At
<1>3. PostedIsApproved /\ Unaccrued /\ Unsettled
  BY DEF Init, PostedIsApproved, Unaccrued, Unsettled
<1>4. QED
  BY <1>1, <1>2, <1>3 DEF PayInv

\* A call begins: with the month as it is.
LEMMA BeginsPay ==
  ASSUME IInv, PayInv, NEW s \in Sessions, NEW c, Begins(s, c), c.op # "post",
         UNCHANGED <<runVars, order, settled, accrual, liability>>,
         c.op \in {"compute", "approve"} => c.month \in Months /\ c.on = {c.month},
         c.op = "compute" => run[c.month] \in {"draft", "computed"},
         c.op = "approve" => run[c.month] = "computed" /\ c.items = item[c.month]
  PROVE  PayInv'
<1>1. call' = [call EXCEPT ![s] = c] /\ contended \subseteq contended'
  BY DEF Begins
<1>2. call'[s] = c /\ \A r \in Sessions \ {s} : call'[r] = call[r]
  BY <1>1 DEF IInv, Types
<1>3. PayTypes'
  BY DEF PayInv, PayTypes, runVars
<1>4. CallTypes'
  BY <1>2 DEF PayInv, PayTypes, CallTypes, Approving, At, runVars
<1>5. RunFresh'
  BY <1>1, <1>2 DEF PayInv, RunFresh, Approving, At, runVars
<1>6. PostedIsApproved' /\ Unaccrued' /\ Unsettled'
  BY <1>1 DEF PayInv, PostedIsApproved, Unaccrued, Unsettled, runVars
<1>7. QED
  BY <1>3, <1>4, <1>5, <1>6 DEF PayInv

\* A call ends without a write, or an approval goes on to post.
LEMMA GoesOnPay ==
  ASSUME IInv, PayInv, NEW s \in Sessions, NEW c, call' = [call EXCEPT ![s] = c],
         UNCHANGED <<contended, runVars, order, settled, accrual, liability>>,
         \/ c = Nothing
         \/ /\ At(s, "approve") /\ c.op = "post" /\ c.on = call[s].on
            /\ c.month = call[s].month /\ c.items = call[s].items
            /\ c.acc \in [Paid(c.items) -> Int] /\ c.delta \in [Paid(c.items) -> Int]
  PROVE  PayInv'
<1>1. call'[s] = c /\ \A r \in Sessions \ {s} : call'[r] = call[r]
  BY DEF IInv, Types
<1>2. PayTypes'
  BY DEF PayInv, PayTypes, runVars
<1>3. CallTypes'
  <2>1. ASSUME c # Nothing
        PROVE  /\ c.month \in Months /\ c.on = {c.month} /\ c.items \in Items
               /\ c.op = "post"
               /\ c.acc \in [Paid(c.items) -> Int] /\ c.delta \in [Paid(c.items) -> Int]
    BY <2>1 DEF PayInv, CallTypes, Approving
  <2> SUFFICES ASSUME NEW r \in Sessions
               PROVE  (/\ At(r, "compute") => /\ call[r].month \in Months
                                              /\ call[r].on = {call[r].month}
                       /\ Approving(r) => /\ call[r].month \in Months
                                          /\ call[r].on = {call[r].month}
                                          /\ call[r].items \in Items
                       /\ At(r, "post") =>
                            /\ call[r].acc \in [Paid(call[r].items) -> Int]
                            /\ call[r].delta \in [Paid(call[r].items) -> Int])'
    BY DEF CallTypes
  <2>2. CASE r = s
    BY <1>1, <2>1, <2>2 DEF Approving, At, Paid
  <2>3. CASE r # s
    <3>1. call'[r] = call[r]
      BY <1>1, <2>3
    <3>2. /\ At(r, "compute") => /\ call[r].month \in Months
                                 /\ call[r].on = {call[r].month}
          /\ Approving(r) => /\ call[r].month \in Months
                             /\ call[r].on = {call[r].month}
                             /\ call[r].items \in Items
          /\ At(r, "post") => /\ call[r].acc \in [Paid(call[r].items) -> Int]
                              /\ call[r].delta \in [Paid(call[r].items) -> Int]
      BY DEF PayInv, CallTypes
    <3>3. QED
      BY ONLY <3>1, <3>2 DEF Approving, At, Paid
  <2>4. QED
    BY <2>2, <2>3
<1>4. RunFresh'
  BY <1>1 DEF PayInv, RunFresh, Approving, At, runVars
<1>5. PostedIsApproved' /\ Unaccrued' /\ Unsettled'
  BY DEF PayInv, PostedIsApproved, Unaccrued, Unsettled, runVars
<1>6. QED
  BY <1>2, <1>3, <1>4, <1>5 DEF PayInv

\* A month that is not contended is in the hands of one call.
LEMMA OneMonth ==
  ASSUME IInv, PayInv, NEW s \in Sessions, NEW r \in Sessions, r # s,
         At(s, "compute") \/ Approving(s), At(r, "compute") \/ Approving(r),
         call[r].month = call[s].month
  PROVE  call[s].month \in contended
<1>1. call[s].on = {call[s].month} /\ call[r].on = {call[s].month}
  BY DEF PayInv, CallTypes
<1>2. Mine(s, call[s].month) /\ Mine(r, call[s].month)
  BY <1>1 DEF Mine, Approving, At
<1>3. QED
  BY <1>2 DEF IInv, OneHolder

LEMMA OpenKeepsPay ==
  ASSUME IInv, PayInv, NEW m \in Months, openRun(m) PROVE PayInv'
<1>1. /\ run[m] = "none" /\ run' = [run EXCEPT ![m] = "draft"]
      /\ UNCHANGED <<item, payable, order, settled, accrual, liability, call, contended>>
  BY DEF openRun, orderVars, accVars
<1>2. run'[m] = "draft" /\ \A k \in Months \ {m} : run'[k] = run[k]
  BY <1>1 DEF PayInv, PayTypes
<1>3. PayTypes' /\ CallTypes'
  BY <1>1 DEF PayInv, PayTypes, CallTypes, Approving, At
<1>4. RunFresh'
  BY <1>1, <1>2 DEF PayInv, RunFresh, CallTypes, Approving, At
<1>5. PostedIsApproved' /\ Unaccrued' /\ Unsettled'
  BY <1>1, <1>2 DEF PayInv, PostedIsApproved, Unaccrued, Unsettled
<1>6. QED
  BY <1>3, <1>4, <1>5 DEF PayInv

LEMMA ComputeKeepsPay ==
  ASSUME IInv, PayInv, NEW s \in Sessions, ComputeCommits(s) PROVE PayInv'
<1> DEFINE m == call[s].month
           items == [e \in Emps |-> IF e \in activeEmployeesFor(m) THEN computeEmployee(e, m)
                                                                   ELSE Nothing]
<1>1. /\ At(s, "compute") /\ m \in Months
      /\ item' = [item EXCEPT ![m] = items] /\ run' = [run EXCEPT ![m] = "computed"]
      /\ call' = [call EXCEPT ![s] = Nothing]
      /\ UNCHANGED <<payable, order, settled, accrual, liability, contended>>
  BY DEF ComputeCommits, Ends, PayInv, CallTypes, orderVars, accVars
<1>2. /\ run'[m] = "computed" /\ item'[m] = items
      /\ \A k \in Months \ {m} : run'[k] = run[k] /\ item'[k] = item[k]
      /\ call'[s] = Nothing /\ \A r \in Sessions \ {s} : call'[r] = call[r]
  <2> HIDE DEF items
  <2>1. QED
    BY <1>1 DEF IInv, Types, PayInv, PayTypes
<1>3. items \in Items
  <2>1. \A e \in Emps : computeEmployee(e, m) \in SoundItem
    BY <1>1, ItemComputed DEF IInv, PayInv
  <2>2. QED
    BY <2>1 DEF Items
<1> HIDE DEF items
<1>4. PayTypes' /\ CallTypes'
  <2>1. PayTypes'
    BY <1>1, <1>3 DEF PayInv, PayTypes
  <2>2. CallTypes'
    BY <1>2 DEF PayInv, CallTypes, Approving, At
  <2>3. QED
    BY <2>1, <2>2
<1>5. m \in contended \/ run[m] \in {"draft", "computed"}
  BY <1>1 DEF PayInv, RunFresh
<1>6. RunFresh'
  <2> SUFFICES ASSUME NEW r \in Sessions \ {s}, At(r, "compute") \/ Approving(r)
               PROVE  /\ At(r, "compute") => call[r].month \in contended
                                             \/ run'[call[r].month] \in {"draft", "computed"}
                      /\ Approving(r) =>
                           /\ run'[call[r].month] \in {"computed", "approved"}
                           /\ call[r].month \notin contended =>
                                /\ run'[call[r].month] = "computed"
                                /\ call[r].items = item'[call[r].month]
    BY <1>1, <1>2 DEF RunFresh, Approving, At
  <2>1. CASE call[r].month = m
    <3>1. m \in contended
      BY <1>1, <2>1, OneMonth
    <3>2. QED
      BY <1>2, <2>1, <3>1
  <2>2. CASE call[r].month # m
    BY <1>2, <2>2 DEF PayInv, RunFresh, CallTypes
  <2>3. QED
    BY <2>1, <2>2
<1>7. PostedIsApproved' /\ Unaccrued' /\ Unsettled'
  BY <1>1, <1>2, <1>5 DEF PayInv, PostedIsApproved, Unaccrued, Unsettled
<1>8. QED
  BY <1>4, <1>6, <1>7 DEF PayInv

LEMMA ApproveKeepsPay ==
  ASSUME IInv, PayInv, NEW s \in Sessions, ApproveCommits(s) PROVE PayInv'
<1> DEFINE m == call[s].month
           items == call[s].items
           posted == [e \in Emps |-> IF e \in Paid(items)
                        THEN payable[m][e] + PostedToWagesPayable(items[e])
                        ELSE payable[m][e]]
           taken == [e \in Emps |-> IF e \in Paid(items) THEN call[s].acc[e]
                                                         ELSE accrual[m][e]]
<1>1. /\ At(s, "post") /\ Approving(s) /\ m \in Months /\ items \in Items
      /\ call[s].acc \in [Paid(items) -> Int] /\ call[s].delta \in [Paid(items) -> Int]
  BY DEF ApproveCommits, PayInv, CallTypes, Approving
<1>2. /\ run' = [run EXCEPT ![m] = "approved"] /\ payable' = [payable EXCEPT ![m] = posted]
      /\ accrual' = [accrual EXCEPT ![m] = taken] /\ call' = [call EXCEPT ![s] = Nothing]
      /\ UNCHANGED <<item, order, settled, contended>>
  BY <1>1 DEF ApproveCommits, Ends, orderVars, PayInv, PayTypes
<1>3. /\ run'[m] = "approved" /\ payable'[m] = posted /\ accrual'[m] = taken
      /\ \A k \in Months \ {m} : /\ run'[k] = run[k] /\ payable'[k] = payable[k]
                                 /\ accrual'[k] = accrual[k]
      /\ call'[s] = Nothing /\ \A r \in Sessions \ {s} : call'[r] = call[r]
  <2> HIDE DEF posted, taken
  <2>1. QED
    BY <1>1, <1>2 DEF IInv, Types, PayInv, PayTypes
<1>4. \A e \in Paid(items) : /\ e \in Emps /\ PostedToWagesPayable(items[e]) \in Int
                             /\ PostedToWagesPayable(items[e]) = items[e].pay.payout
  BY <1>1 DEF Paid, Items, SoundItem, Item, Pay
<1>5. posted \in [Emps -> Int] /\ taken \in [Emps -> Int \cup {Nothing}]
  <2>1. payable[m] \in [Emps -> Int] /\ accrual[m] \in [Emps -> Int \cup {Nothing}]
    BY <1>1 DEF PayInv, PayTypes
  <2>2. QED
    BY <1>1, <1>4, <2>1
<1>6. PayTypes'
  <2>1. liability' \in [Emps -> Int]
    BY <1>1 DEF ApproveCommits, PayInv, PayTypes
  <2> HIDE DEF posted, taken
  <2>2. QED
    BY <1>1, <1>2, <1>5, <2>1 DEF PayInv, PayTypes
<1>7. CallTypes'
  BY <1>3 DEF PayInv, CallTypes, Approving, At
<1>8. RunFresh'
  <2> SUFFICES ASSUME NEW r \in Sessions \ {s}, At(r, "compute") \/ Approving(r)
               PROVE  /\ At(r, "compute") => call[r].month \in contended
                                             \/ run'[call[r].month] \in {"draft", "computed"}
                      /\ Approving(r) =>
                           /\ run'[call[r].month] \in {"computed", "approved"}
                           /\ call[r].month \notin contended =>
                                /\ run'[call[r].month] = "computed"
                                /\ call[r].items = item[call[r].month]
    BY <1>2, <1>3 DEF RunFresh, Approving, At
  <2>1. CASE call[r].month = m
    <3>1. m \in contended
      BY <1>1, <2>1, OneMonth
    <3>2. QED
      BY <1>3, <2>1, <3>1
  <2>2. CASE call[r].month # m
    BY <1>3, <2>2 DEF PayInv, RunFresh, CallTypes
  <2>3. QED
    BY <2>1, <2>2
<1>9. PostedIsApproved'
  <2> SUFFICES ASSUME NEW k \in Months \ contended, NEW e \in Emps
               PROVE  payable'[k][e] = IF run'[k] = "approved" /\ item[k][e] # Nothing
                                         THEN item[k][e].pay.payout ELSE 0
    BY <1>2 DEF PostedIsApproved
  <2>1. payable[k][e] = IF run[k] = "approved" /\ item[k][e] # Nothing
                          THEN item[k][e].pay.payout ELSE 0
    BY DEF PayInv, PostedIsApproved
  <2>2. CASE k # m
    BY <1>3, <2>1, <2>2
  <2>3. CASE k = m
    <3>1. run[m] = "computed" /\ items = item[m]
      BY <1>1, <2>3 DEF PayInv, RunFresh
    <3>2. payable[m][e] = 0
      BY <2>1, <2>3, <3>1
    <3>3. CASE item[m][e] # Nothing
      <4>1. e \in Paid(items)
        BY <3>1, <3>3 DEF Paid
      <4>2. posted[e] = 0 + items[e].pay.payout /\ items[e].pay.payout \in Int
        BY <1>4, <3>2, <4>1
      <4>3. payable'[k][e] = items[e].pay.payout
        BY <1>3, <2>3, <4>2
      <4>4. QED
        BY <1>3, <2>3, <3>1, <3>3, <4>3
    <3>4. CASE item[m][e] = Nothing
      BY <1>3, <2>3, <3>1, <3>2, <3>4 DEF Paid
    <3>5. QED
      BY <3>3, <3>4
  <2>4. QED
    BY <2>2, <2>3
<1>10. Unaccrued' /\ Unsettled'
  BY <1>2, <1>3 DEF PayInv, Unaccrued, Unsettled
<1>11. QED
  BY <1>6, <1>7, <1>8, <1>9, <1>10 DEF PayInv

LEMMA OrderKeepsPay ==
  ASSUME IInv, PayInv, NEW s \in Sessions, OrderCommits(s) PROVE PayInv'
<1> DEFINE o == call[s].order
           sum == [taxable |-> settled[o].taxable + Settlement(o).taxable,
                   exempt  |-> settled[o].exempt + Settlement(o).exempt]
<1>1. /\ o \in Orders /\ order' = [order EXCEPT ![o] = "approved"]
      /\ call' = [call EXCEPT ![s] = Nothing]
      /\ UNCHANGED <<run, item, payable, accrual, liability, contended>>
  BY DEF OrderCommits, Ends, IInv, Types, runVars, accVars
<1>2. \/ settled' = settled
      \/ /\ HasEarnings(History(OrderSpec[o].emp), MonthOf(OrderSpec[o].to))
         /\ settled' = [settled EXCEPT ![o] = sum]
  BY <1>1 DEF OrderCommits, PayInv, PayTypes
<1>3. /\ call'[s] = Nothing /\ \A r \in Sessions \ {s} : call'[r] = call[r]
      /\ order'[o] = "approved" /\ \A q \in Orders \ {o} : order'[q] = order[q]
  BY <1>1 DEF IInv, Types
<1>4. settled' \in [Orders -> Amounts] /\ \A q \in Orders \ {o} : settled'[q] = settled[q]
  <2>1. CASE settled' = settled
    BY <2>1 DEF PayInv, PayTypes
  <2>2. CASE /\ HasEarnings(History(OrderSpec[o].emp), MonthOf(OrderSpec[o].to))
             /\ settled' = [settled EXCEPT ![o] = sum]
    <3>1. Settlement(o) \in Amounts /\ settled[o] \in Amounts
      BY <1>1, <2>2, SettlementInt DEF IInv, PayInv, PayTypes
    <3>2. sum \in Amounts
      BY <3>1 DEF Amounts
    <3> HIDE DEF sum
    <3>3. QED
      BY <1>1, <2>2, <3>2 DEF PayInv, PayTypes
  <2>3. QED
    BY <1>2, <2>1, <2>2
<1>5. PayTypes' /\ CallTypes'
  <2>1. PayTypes'
    BY <1>1, <1>4 DEF PayInv, PayTypes
  <2>2. CallTypes'
    BY <1>3 DEF PayInv, CallTypes, Approving, At
  <2>3. QED
    BY <2>1, <2>2
<1>6. RunFresh'
  BY <1>1, <1>3 DEF PayInv, RunFresh, Approving, At
<1>7. PostedIsApproved' /\ Unaccrued'
  BY <1>1 DEF PayInv, PostedIsApproved, Unaccrued
<1>8. Unsettled'
  BY <1>3, <1>4 DEF PayInv, Unsettled
<1>9. QED
  BY <1>5, <1>6, <1>7, <1>8 DEF PayInv

\* An approval takes the accruals.
LEMMA AccrualsTaken ==
  ASSUME IInv, PayInv, NEW s \in Sessions, ApproveAccrues(s)
  PROVE  \E c : /\ call' = [call EXCEPT ![s] = c] /\ call[s] # Nothing
                /\ At(s, "approve") /\ c.op = "post" /\ c.on = call[s].on
                /\ c.month = call[s].month /\ c.items = call[s].items
                /\ c.acc \in [Paid(c.items) -> Int] /\ c.delta \in [Paid(c.items) -> Int]
                /\ \A e \in Paid(c.items) :
                     c.delta[e] = c.acc[e] - PreviousAccrual(e, c.month)
<1> DEFINE m == call[s].month
           items == call[s].items
           acc == [e \in Paid(items) |-> Accrued(e, m, items[e].daily)]
           delta == [e \in Paid(items) |-> acc[e] - PreviousAccrual(e, m)]
           c == [op |-> "post", on |-> call[s].on, month |-> m, items |-> items,
                 acc |-> acc, delta |-> delta]
<1>1. At(s, "approve") /\ m \in Months /\ m \in Int /\ items \in Items
  BY MonthsInt DEF ApproveAccrues, PayInv, CallTypes, Approving
<1>2. call' = [call EXCEPT ![s] = c] /\ call[s] # Nothing
  BY <1>1 DEF ApproveAccrues, At, IInv, Types
<1>3. acc \in [Paid(items) -> Int]
  <2>1. \A e \in Paid(items) : e \in Emps /\ items[e].daily \in Int
    BY <1>1 DEF Paid, Items, SoundItem, Item
  <2>2. \A e \in Paid(items) : Accrued(e, m, items[e].daily) \in Int
    BY <1>1, <2>1, AccruedInt DEF IInv
  <2>3. QED
    BY <2>2
<1> HIDE DEF acc
<1>4. \A e \in Paid(items) : PreviousAccrual(e, m) \in Int
  <2> SUFFICES ASSUME NEW e \in Paid(items) PROVE PreviousAccrual(e, m) \in Int
    OBVIOUS
  <2> DEFINE before == {k \in Snapshots(e) : k < m}
  <2>1. e \in Emps /\ before \subseteq Months /\ \A k \in before : accrual[k][e] # Nothing
    BY DEF Paid, Snapshots
  <2>2. IsFiniteSet(before) /\ before \subseteq Int
    BY <2>1, MonthsInt, FS_Subset
  <2>3. before # {} => Max(before) \in before
    <3> HIDE DEF before
    <3>1. QED
      BY <2>2, MaxIsGreatest
  <2>4. PreviousAccrual(e, m) = IF before = {} THEN 0 ELSE accrual[Max(before)][e]
    BY DEF PreviousAccrual
  <2> HIDE DEF before
  <2>5. QED
    BY <2>1, <2>3, <2>4 DEF PayInv, PayTypes
<1>5. delta \in [Paid(items) -> Int]
  BY <1>3, <1>4
<1>6. \A e \in Paid(items) : delta[e] = acc[e] - PreviousAccrual(e, m)
  OBVIOUS
<1> HIDE DEF delta
<1>7. /\ c.op = "post" /\ c.on = call[s].on /\ c.month = m /\ c.items = items
      /\ c.acc = acc /\ c.delta = delta
  OBVIOUS
<1> HIDE DEF c
<1>8. QED
  BY <1>1, <1>2, <1>3, <1>5, <1>6, <1>7

-----------------------------------------------------------------------------
LEMMA StepKeepsPay ==
  ASSUME IInv, PayInv, [Next]_vars PROVE PayInv'
<1>1. ASSUME UNCHANGED <<runVars, order, settled, accrual, liability, call, contended>>
      PROVE  PayInv'
  <2>1. PayTypes' /\ CallTypes'
    BY <1>1 DEF PayInv, PayTypes, CallTypes, Approving, At, Paid, runVars
  <2>2. RunFresh'
    BY <1>1 DEF PayInv, RunFresh, Approving, At, runVars
  <2>3. PostedIsApproved' /\ Unaccrued' /\ Unsettled'
    BY <1>1 DEF PayInv, PostedIsApproved, Unaccrued, Unsettled, runVars
  <2>4. QED
    BY <2>1, <2>2, <2>3 DEF PayInv
<1>2. ASSUME NEW m \in Months, openRun(m) PROVE PayInv'
  BY <1>2, OpenKeepsPay
<1>3. ASSUME NEW s \in Sessions, ComputeReads(s) PROVE PayInv'
  <2>1. PICK m \in Months :
          /\ run[m] \in {"draft", "computed"}
          /\ Begins(s, [op |-> "compute", on |-> {m}, month |-> m])
    BY <1>3 DEF ComputeReads
  <2>2. UNCHANGED <<runVars, order, settled, accrual, liability>>
    BY <1>3 DEF ComputeReads, orderVars, accVars
  <2>3. QED
    BY <2>1, <2>2, BeginsPay
<1>4. ASSUME NEW s \in Sessions, ComputeCommits(s) PROVE PayInv'
  BY <1>4, ComputeKeepsPay
<1>5. ASSUME NEW s \in Sessions, ApproveReads(s) PROVE PayInv'
  <2>1. PICK m \in Months :
          /\ run[m] = "computed"
          /\ Begins(s, [op |-> "approve", on |-> {m}, month |-> m, items |-> item[m]])
    BY <1>5 DEF ApproveReads
  <2>2. UNCHANGED <<runVars, order, settled, accrual, liability>>
    BY <1>5 DEF ApproveReads, orderVars, accVars
  <2>3. QED
    BY <2>1, <2>2, BeginsPay
<1>6. ASSUME NEW s \in Sessions, ApproveAccrues(s) PROVE PayInv'
  <2>1. UNCHANGED <<contended, runVars, order, settled, accrual, liability>>
    BY <1>6 DEF ApproveAccrues, orderVars
  <2>2. QED
    BY <1>6, <2>1, AccrualsTaken, GoesOnPay
<1>7. ASSUME NEW s \in Sessions, ApproveCommits(s) PROVE PayInv'
  BY <1>7, ApproveKeepsPay
<1>8. ASSUME NEW s \in Sessions, OrderReads(s) PROVE PayInv'
  <2>1. PICK o \in Orders :
          Begins(s, [op |-> "order", on |-> {o, OrderSpec[o].emp}, order |-> o,
                     emp |-> emp[OrderSpec[o].emp]])
    BY <1>8 DEF OrderReads
  <2>2. UNCHANGED <<runVars, order, settled, accrual, liability>>
    BY <1>8 DEF OrderReads, orderVars, accVars
  <2>3. QED
    BY <2>1, <2>2, BeginsPay
<1>9. ASSUME NEW s \in Sessions, OrderCommits(s) PROVE PayInv'
  BY <1>9, OrderKeepsPay
<1>10. ASSUME NEW s \in Sessions, RollsBack(s) PROVE PayInv'
  <2>1. call' = [call EXCEPT ![s] = Nothing]
        /\ UNCHANGED <<contended, runVars, order, settled, accrual, liability>>
    BY <1>10 DEF RollsBack, Ends, orderVars, accVars
  <2>2. QED
    BY <2>1, GoesOnPay
<1>11. CASE UNCHANGED vars
  BY <1>1, <1>11 DEF vars, orderVars, accVars
<1>12. QED
  BY <1>2, <1>3, <1>4, <1>5, <1>6, <1>7, <1>8, <1>9, <1>10, <1>11 DEF Next

\* Approval posts to wages payable what the items of the run say is paid
\* out, each once, and nothing before: PostedIsApproved, wherever no two
\* calls about the month overlapped.
THEOREM ApprovedIsPosted == Spec => []PostedIsApproved
<1>1. Init => IInv /\ PayInv
  BY InitIInv, InitPayInv
<1>2. IInv /\ PayInv /\ [Next]_vars => (IInv /\ PayInv)'
  BY StepKeeps, StepKeepsPay
<1>3. IInv /\ PayInv => PostedIsApproved
  BY DEF PayInv
<1>4. QED
  BY <1>1, <1>2, <1>3, PTL DEF Spec

-----------------------------------------------------------------------------
(***************************************************************************)
(* AccrualTies rests on this: one approval at a time has its accruals in   *)
(* hand, and their differences are against the last snapshot there is.     *)
(***************************************************************************)
Last(e) == IF Snapshots(e) = {} THEN 0 ELSE accrual[Max(Snapshots(e))][e]

Ordered == outOfTurn = {} /\ Months \cap contended = {}

OnePosts == \A s, r \in Sessions : At(s, "post") /\ At(r, "post") => s = r

DeltaFresh ==
  \A s \in Sessions : At(s, "post") =>
    \A e \in Paid(call[s].items) :
      call[s].delta[e] = call[s].acc[e] - PreviousAccrual(e, call[s].month)

AccrualInv == Ordered => OnePosts /\ DeltaFresh /\ \A e \in Emps : liability[e] = Last(e)

\* Nothing is posted: what is there stays, if no approval came to post.
LEMMA QuietKeepsAccruals ==
  ASSUME AccrualInv, UNCHANGED <<accrual, liability>>,
         outOfTurn \subseteq outOfTurn', contended \subseteq contended',
         \A r \in Sessions : At(r, "post")' => At(r, "post") /\ call'[r] = call[r]
  PROVE  AccrualInv'
<1> SUFFICES ASSUME Ordered' PROVE (OnePosts /\ DeltaFresh /\ \A e \in Emps : liability[e] = Last(e))'
  BY DEF AccrualInv
<1>1. OnePosts /\ DeltaFresh /\ \A e \in Emps : liability[e] = Last(e)
  BY DEF AccrualInv, Ordered
<1>2. OnePosts'
  BY <1>1 DEF OnePosts
<1>3. DeltaFresh'
  BY <1>1 DEF DeltaFresh, PreviousAccrual, Snapshots, Paid
<1>4. \A e \in Emps : (liability[e] = Last(e))'
  BY <1>1 DEF Last, Snapshots
<1>5. QED
  BY <1>2, <1>3, <1>4

LEMMA AccruesKeepsAccruals ==
  ASSUME IInv, PayInv, AccrualInv, NEW s \in Sessions, ApproveAccrues(s)
  PROVE  AccrualInv'
<1>1. PICK c : /\ call' = [call EXCEPT ![s] = c] /\ c.op = "post"
               /\ c.month = call[s].month /\ c.items = call[s].items
               /\ \A e \in Paid(c.items) :
                    c.delta[e] = c.acc[e] - PreviousAccrual(e, c.month)
  BY AccrualsTaken
<1>2. call'[s] = c /\ \A r \in Sessions \ {s} : call'[r] = call[r]
  BY <1>1 DEF IInv, Types
<1>3. /\ UNCHANGED <<accrual, liability, contended>> /\ call[s].month \in Months
      /\ outOfTurn' = outOfTurn \cup
           {k \in Months : \E r \in Sessions :
              At(r, "post") /\ (k = call[s].month \/ k = call[r].month)}
  BY DEF ApproveAccrues, PayInv, CallTypes, Approving
<1> SUFFICES ASSUME Ordered' PROVE (OnePosts /\ DeltaFresh /\ \A e \in Emps : liability[e] = Last(e))'
  BY DEF AccrualInv
<1>4. \A e \in Emps : liability[e] = Last(e)
  BY <1>3 DEF AccrualInv, Ordered
<1>5. \A r \in Sessions : ~At(r, "post")
  <2> SUFFICES ASSUME NEW r \in Sessions, At(r, "post") PROVE FALSE
    OBVIOUS
  <2>1. call[s].month \in outOfTurn'
    BY <1>3
  <2>2. QED
    BY <2>1 DEF Ordered
<1>6. OnePosts'
  BY <1>2, <1>5 DEF OnePosts, At
<1>7. DeltaFresh'
  BY <1>1, <1>2, <1>3, <1>5 DEF DeltaFresh, At, PreviousAccrual, Snapshots, Paid
<1>8. \A e \in Emps : (liability[e] = Last(e))'
  BY <1>3, <1>4 DEF Last, Snapshots
<1>9. QED
  BY <1>6, <1>7, <1>8

LEMMA PostsKeepsAccruals ==
  ASSUME IInv, PayInv, AccrualInv, NEW s \in Sessions, ApproveCommits(s)
  PROVE  AccrualInv'
<1> DEFINE m == call[s].month
           items == call[s].items
<1>1. /\ At(s, "post") /\ Approving(s) /\ m \in Months
      /\ call[s].acc \in [Paid(items) -> Int]
  BY DEF ApproveCommits, PayInv, CallTypes, Approving
<1>2. /\ call' = [call EXCEPT ![s] = Nothing] /\ contended' = contended
      /\ accrual' = [accrual EXCEPT ![m] = [e \in Emps |->
           IF e \in Paid(items) THEN call[s].acc[e] ELSE accrual[m][e]]]
      /\ liability' = [e \in Emps |->
           IF e \in Paid(items) THEN liability[e] + call[s].delta[e] ELSE liability[e]]
      /\ outOfTurn' = outOfTurn \cup
           {k \in {m} : \E e \in Paid(items), l \in Months : l > m /\ accrual[l][e] # Nothing}
  BY <1>1 DEF ApproveCommits, Ends, PayInv, PayTypes
<1>3. call'[s] = Nothing /\ \A r \in Sessions \ {s} : call'[r] = call[r]
  BY <1>2 DEF IInv, Types
<1>4. /\ \A k \in Months \ {m} : accrual'[k] = accrual[k]
      /\ \A e \in Emps : accrual'[m][e] = IF e \in Paid(items) THEN call[s].acc[e]
                                                             ELSE accrual[m][e]
  BY <1>1, <1>2 DEF PayInv, PayTypes
<1> SUFFICES ASSUME Ordered' PROVE (OnePosts /\ DeltaFresh /\ \A e \in Emps : liability[e] = Last(e))'
  BY DEF AccrualInv
<1>5. /\ OnePosts /\ DeltaFresh /\ (\A e \in Emps : liability[e] = Last(e))
      /\ m \notin contended
      /\ \A e \in Paid(items), l \in Months : l > m => accrual[l][e] = Nothing
  BY <1>1, <1>2 DEF AccrualInv, Ordered
<1>6. \A r \in Sessions : ~At(r, "post")'
  BY <1>1, <1>3, <1>5 DEF OnePosts, At
<1>7. OnePosts' /\ DeltaFresh'
  BY <1>6 DEF OnePosts, DeltaFresh
<1>8. \A e \in Emps : accrual[m][e] = Nothing
  <2>1. run[m] = "computed"
    BY <1>1, <1>5 DEF PayInv, RunFresh
  <2>2. QED
    BY <1>1, <1>5, <2>1 DEF PayInv, Unaccrued
<1>9. ASSUME NEW e \in Emps PROVE liability'[e] = Last(e)'
  <2> DEFINE S == Snapshots(e)
             T == {k \in Months : accrual'[k][e] # Nothing}
  <2>1. S \subseteq Months /\ T \subseteq Months
    BY DEF Snapshots
  <2>2. Last(e)' = IF T = {} THEN 0 ELSE accrual'[Max(T)][e]
    BY DEF Last, Snapshots
  <2>3. liability[e] = IF S = {} THEN 0 ELSE accrual[Max(S)][e]
    BY <1>5 DEF Last
  <2>4. CASE e \notin Paid(items)
    <3>1. \A k \in Months : accrual'[k][e] = accrual[k][e]
      BY <1>4, <2>4
    <3>2. T = S
      BY <3>1 DEF Snapshots
    <3>3. S # {} => Max(S) \in Months
      <4>1. IsFiniteSet(S) /\ S \subseteq Int
        BY <2>1, MonthsInt, FS_Subset
      <4> HIDE DEF S
      <4>2. QED
        BY <2>1, <4>1, MaxIsGreatest
    <3>4. liability'[e] = liability[e]
      BY <1>2, <2>4
    <3> HIDE DEF S, T
    <3>5. QED
      BY <2>2, <2>3, <3>1, <3>2, <3>3, <3>4
  <2>5. CASE e \in Paid(items)
    <3>0. m \in Int /\ \A k \in Months : k \in Int
      BY <1>1, MonthsInt
    <3>1. \A k \in S : k < m
      <4>1. \A k \in S : k \in Months /\ k # m /\ ~(k > m)
        BY <1>5, <1>8, <2>5 DEF Snapshots
      <4> HIDE DEF m, S
      <4>2. QED
        BY <3>0, <4>1
    <3>2. PreviousAccrual(e, m) = liability[e]
      <4>1. {k \in Snapshots(e) : k < m} = S
        BY <3>1
      <4>2. QED
        BY <2>3, <4>1 DEF PreviousAccrual
    <3>3. liability[e] \in Int /\ call[s].acc[e] \in Int
      BY <1>1, <2>5 DEF PayInv, PayTypes
    <3>4. liability'[e] = call[s].acc[e]
      <4>1. call[s].delta[e] = call[s].acc[e] - liability[e]
        BY <1>1, <1>5, <2>5, <3>2 DEF DeltaFresh
      <4>2. liability'[e] = liability[e] + call[s].delta[e]
        BY <1>2, <2>5
      <4>3. QED
        BY <3>3, <4>1, <4>2
    <3>5. accrual'[m][e] = call[s].acc[e] /\ accrual'[m][e] # Nothing
      BY <1>4, <2>5, <3>3, PayrollAssumption
    <3>6. m \in T /\ \A k \in T : k <= m
      <4>1. \A k \in T \ {m} : k \in S
        BY <1>4 DEF Snapshots
      <4>2. m \in T /\ T \subseteq Months
        BY <1>1, <3>5
      <4> HIDE DEF m, S, T
      <4>3. QED
        BY <3>0, <3>1, <4>1, <4>2
    <3>7. Max(T) = m
      <4>1. IsFiniteSet(T) /\ T \subseteq Int /\ T # {}
        BY <2>1, <3>6, MonthsInt, FS_Subset
      <4> HIDE DEF T
      <4>2. Max(T) \in T /\ \A y \in T : y <= Max(T)
        BY <4>1, MaxIsGreatest
      <4> HIDE DEF m
      <4>3. Max(T) \in Int /\ m <= Max(T) /\ Max(T) <= m
        BY <3>6, <4>1, <4>2
      <4>4. QED
        BY <3>0, <4>3
    <3> HIDE DEF T
    <3>8. QED
      BY <2>2, <3>4, <3>5, <3>6, <3>7
  <2>6. QED
    BY <2>4, <2>5
<1>10. QED
  BY <1>7, <1>9

LEMMA StepKeepsAccruals ==
  ASSUME IInv, PayInv, AccrualInv, [Next]_vars PROVE AccrualInv'
<1>1. ASSUME NEW s \in Sessions, NEW c, Begins(s, c), c.op # "post",
             UNCHANGED <<accrual, liability, outOfTurn>>
      PROVE  AccrualInv'
  <2>1. contended \subseteq contended' /\ call' = [call EXCEPT ![s] = c]
    BY <1>1 DEF Begins
  <2>2. \A r \in Sessions : At(r, "post")' => At(r, "post") /\ call'[r] = call[r]
    BY <1>1, <2>1 DEF At, IInv, Types
  <2>3. QED
    BY <1>1, <2>1, <2>2, QuietKeepsAccruals
<1>2. ASSUME NEW s \in Sessions, Ends(s), UNCHANGED <<accrual, liability, outOfTurn>>
      PROVE  AccrualInv'
  <2>1. contended' = contended /\ call' = [call EXCEPT ![s] = Nothing]
    BY <1>2 DEF Ends
  <2>2. \A r \in Sessions : At(r, "post")' => At(r, "post") /\ call'[r] = call[r]
    BY <2>1 DEF At, IInv, Types
  <2>3. QED
    BY <1>2, <2>1, <2>2, QuietKeepsAccruals
<1>3. ASSUME UNCHANGED <<accrual, liability, outOfTurn, call, contended>> PROVE AccrualInv'
  BY <1>3, QuietKeepsAccruals DEF At
<1>4. ASSUME NEW m \in Months, openRun(m) PROVE AccrualInv'
  BY <1>3, <1>4 DEF openRun, accVars
<1>5. ASSUME NEW s \in Sessions, ComputeReads(s) PROVE AccrualInv'
  <2>1. PICK m \in Months : Begins(s, [op |-> "compute", on |-> {m}, month |-> m])
    BY <1>5 DEF ComputeReads
  <2>2. QED
    BY <1>1, <1>5, <2>1 DEF ComputeReads, accVars
<1>6. ASSUME NEW s \in Sessions, ComputeCommits(s) PROVE AccrualInv'
  BY <1>2, <1>6 DEF ComputeCommits, accVars
<1>7. ASSUME NEW s \in Sessions, ApproveReads(s) PROVE AccrualInv'
  <2>1. PICK m \in Months :
          Begins(s, [op |-> "approve", on |-> {m}, month |-> m, items |-> item[m]])
    BY <1>7 DEF ApproveReads
  <2>2. QED
    BY <1>1, <1>7, <2>1 DEF ApproveReads, accVars
<1>8. ASSUME NEW s \in Sessions, ApproveAccrues(s) PROVE AccrualInv'
  BY <1>8, AccruesKeepsAccruals
<1>9. ASSUME NEW s \in Sessions, ApproveCommits(s) PROVE AccrualInv'
  BY <1>9, PostsKeepsAccruals
<1>10. ASSUME NEW s \in Sessions, OrderReads(s) PROVE AccrualInv'
  <2>1. PICK o \in Orders :
          Begins(s, [op |-> "order", on |-> {o, OrderSpec[o].emp}, order |-> o,
                     emp |-> emp[OrderSpec[o].emp]])
    BY <1>10 DEF OrderReads
  <2>2. QED
    BY <1>1, <1>10, <2>1 DEF OrderReads, accVars
<1>11. ASSUME NEW s \in Sessions, OrderCommits(s) PROVE AccrualInv'
  BY <1>2, <1>11 DEF OrderCommits, accVars
<1>12. ASSUME NEW s \in Sessions, RollsBack(s) PROVE AccrualInv'
  BY <1>2, <1>12 DEF RollsBack, accVars
<1>13. CASE UNCHANGED vars
  BY <1>3, <1>13 DEF vars, accVars
<1>14. QED
  BY <1>4, <1>5, <1>6, <1>7, <1>8, <1>9, <1>10, <1>11, <1>12, <1>13 DEF Next

\* The deltas posted for vacation accruals add up to the last snapshot:
\* AccrualTies, for all employees, months, orders and sessions.
THEOREM AccrualsTie == Spec => []AccrualTies
<1>1. Init => IInv /\ PayInv /\ AccrualInv
  <2>1. Init => AccrualInv
    BY DEF Init, AccrualInv, OnePosts, DeltaFresh, Last, Snapshots, At
  <2>2. QED
    BY <2>1, InitIInv, InitPayInv
<1>2. IInv /\ PayInv /\ AccrualInv /\ [Next]_vars => (IInv /\ PayInv /\ AccrualInv)'
  BY StepKeeps, StepKeepsPay, StepKeepsAccruals
<1>3. IInv /\ PayInv /\ AccrualInv => AccrualTies
  BY DEF AccrualInv, Ordered, Last, AccrualTies
<1>4. QED
  BY <1>1, <1>2, <1>3, PTL DEF Spec

-----------------------------------------------------------------------------
(***************************************************************************)
(* SettlementIsPaid rests on this: from the computation on, the item of a  *)
(* terminated employee's last month has the settlement, unless an order    *)
(* has been approved since.                                                *)
(***************************************************************************)
Approved(e) == {r \in OrdersOf(e, "termination") : order[r] = "approved"}

HasSettlement(i, o) ==
  i # Nothing /\ i.other = settled[o].taxable /\ i.pay.severance = settled[o].exempt

Settling ==
  \A o \in Orders :
    LET e == OrderSpec[o].emp
        m == MonthOf(OrderSpec[o].to)
    IN  /\ m \in Months /\ run[m] \in {"computed", "approved"} /\ m \notin stale
        /\ Approved(e) = {o} /\ e \notin contended
        => HasSettlement(item[m][e], o)

\* Nobody leaves before the day of hire: approveOrder does not check it.
HiredFirst ==
  \A o \in Orders : OrderSpec[o].type = "termination" =>
    Card[OrderSpec[o].emp].hired <= OrderSpec[o].to

\* Of the terminations due, one has settled something.
LEMMA OneSettlement ==
  ASSUME Types, PayTypes, Unsettled, NEW e \in Emps, NEW o \in Orders,
         Approved(e) = {o}, NEW m \in Months, m = MonthOf(OrderSpec[o].to)
  PROVE  LET final == DueIn(e, "termination", m)
         IN  /\ SumFunction([q \in final |-> settled[q].taxable]) = settled[o].taxable
             /\ SumFunction([q \in final |-> settled[q].exempt]) = settled[o].exempt
<1> DEFINE final == DueIn(e, "termination", m)
           f == [q \in final |-> settled[q].taxable]
           g == [q \in final |-> settled[q].exempt]
<1>1. o \in final /\ final \subseteq Orders
  BY DEF Approved, DueIn, OrdersOf
<1>2. IsFiniteSet(final)
  BY <1>1, FS_Subset, PayrollAssumption
<1>3. /\ \A q \in final : settled[q].taxable \in Int /\ settled[q].exempt \in Int
      /\ \A q \in final \ {o} : settled[q].taxable = 0 /\ settled[q].exempt = 0
  <2>1. \A q \in final : settled[q] \in Amounts
    BY <1>1 DEF PayTypes
  <2>2. ASSUME NEW q \in final \ {o} PROVE settled[q] = [taxable |-> 0, exempt |-> 0]
    <3>1. q \in OrdersOf(e, "termination") /\ q \notin Approved(e) /\ q \in Orders
      BY <1>1 DEF DueIn
    <3>2. order[q] = "draft"
      BY <3>1 DEF Approved, Types
    <3>3. QED
      BY <3>1, <3>2 DEF Unsettled
  <2>3. QED
    BY <2>1, <2>2 DEF Amounts
<1>4. /\ DOMAIN f = final /\ f[o] = settled[o].taxable
      /\ \A q \in final : f[q] \in Int /\ (q # o => f[q] = 0)
      /\ DOMAIN g = final /\ g[o] = settled[o].exempt
      /\ \A q \in final : g[q] \in Int /\ (q # o => g[q] = 0)
  BY <1>1, <1>3
<1> HIDE DEF final, f, g
<1>5. ASSUME NEW h, DOMAIN h = final, \A q \in final : h[q] \in Int /\ (q # o => h[q] = 0)
      PROVE  SumFunction(h) = h[o]
  <2>1. final \in SUBSET final /\ final \ {o} \in SUBSET final
    OBVIOUS
  <2>2. SumFunctionOnSet(h, final) = h[o] + SumFunctionOnSet(h, final \ {o})
    BY <1>1, <1>2, <1>5, <2>1, SumRecursion
  <2>3. SumFunctionOnSet(h, final \ {o}) = 0
    BY <1>2, <1>5, FS_Subset, SumOfZeros
  <2>4. QED
    BY <1>1, <1>5, <2>2, <2>3 DEF SumFunction
<1>6. SumFunction(f) = settled[o].taxable /\ SumFunction(g) = settled[o].exempt
  BY <1>4, <1>5
<1>7. QED
  BY <1>6 DEF f, g, final

\* No run is computed or approved, and no order approved.
LEMMA QuietKeepsSettling ==
  ASSUME Settling, UNCHANGED <<item, order, settled, stale>>,
         contended \subseteq contended',
         \A m \in Months : run'[m] \in {"computed", "approved"} =>
                             run[m] \in {"computed", "approved"}
  PROVE  Settling'
BY DEF Settling, HasSettlement, Approved, OrdersOf

LEMMA ComputeKeepsSettling ==
  ASSUME HiredFirst, IInv, PayInv, Settling, NEW s \in Sessions, ComputeCommits(s)
  PROVE  Settling'
<1> DEFINE n == call[s].month
           items == [e \in Emps |-> IF e \in activeEmployeesFor(n) THEN computeEmployee(e, n)
                                                                   ELSE Nothing]
<1>1. /\ n \in Months /\ item' = [item EXCEPT ![n] = items]
      /\ run' = [run EXCEPT ![n] = "computed"] /\ stale' = stale \ {n}
      /\ UNCHANGED <<order, settled, contended>>
  BY DEF ComputeCommits, Ends, PayInv, CallTypes, orderVars
<1>2. /\ item'[n] = items
      /\ \A k \in Months \ {n} : run'[k] = run[k] /\ item'[k] = item[k]
  <2> HIDE DEF items
  <2>1. QED
    BY <1>1 DEF PayInv, PayTypes
<1> SUFFICES ASSUME NEW o \in Orders, MonthOf(OrderSpec[o].to) \in Months,
                    run'[MonthOf(OrderSpec[o].to)] \in {"computed", "approved"},
                    MonthOf(OrderSpec[o].to) \notin stale',
                    Approved(OrderSpec[o].emp) = {o}, OrderSpec[o].emp \notin contended
             PROVE  HasSettlement(item'[MonthOf(OrderSpec[o].to)][OrderSpec[o].emp], o)
  BY <1>1 DEF Settling, HasSettlement, Approved, OrdersOf
<1> DEFINE e == OrderSpec[o].emp
           m == MonthOf(OrderSpec[o].to)
<1>3. CASE m # n
  <2>1. run[m] \in {"computed", "approved"} /\ m \notin stale /\ item'[m] = item[m]
    BY <1>1, <1>2, <1>3
  <2>2. QED
    BY <2>1 DEF Settling
<1>4. CASE m = n
  <2>1. e \in Emps /\ OrderSpec[o].to \in Int
    BY SpecTypes
  <2>2. o \in OrdersOf(e, "termination") /\ OrderSpec[o].type = "termination"
    BY DEF Approved, OrdersOf
  <2>3. emp[e].terminated = OrderSpec[o].to
    BY <2>1 DEF IInv, OrdersHold, Approved
  <2>4. e \in activeEmployeesFor(n)
    <3>1. FirstDay(n) <= OrderSpec[o].to /\ OrderSpec[o].to <= LastDay(n)
      BY <1>4, <2>1, MonthOfInt
    <3>2. Card[e].hired <= OrderSpec[o].to /\ Card[e].hired \in Int
      BY <2>1, <2>2, PayrollAssumption DEF HiredFirst
    <3>3. n \in Int /\ FirstDay(n) \in Int /\ LastDay(n) \in Int
      BY <1>1, MonthsInt, MonthBounds
    <3>4. QED
      BY <2>1, <2>3, <3>1, <3>2, <3>3 DEF activeEmployeesFor
  <2>5. item'[n][e] = computeEmployee(e, n)
    BY <1>2, <2>1, <2>4
  <2>6. PICK i : i = computeEmployee(e, n)
    OBVIOUS
  <2>7. /\ i \in SoundItem /\ i.other = settled[o].taxable
        /\ i.pay.severance = settled[o].exempt
    <3>1. LET final == DueIn(e, "termination", n)
          IN  /\ i \in SoundItem
              /\ i.other = SumFunction([q \in final |-> settled[q].taxable])
              /\ i.pay.severance = SumFunction([q \in final |-> settled[q].exempt])
      BY <1>1, <2>1, <2>6, ItemComputed DEF IInv, PayInv
    <3>2. LET final == DueIn(e, "termination", n)
          IN  /\ SumFunction([q \in final |-> settled[q].taxable]) = settled[o].taxable
              /\ SumFunction([q \in final |-> settled[q].exempt]) = settled[o].exempt
      BY <1>1, <1>4, <2>1, OneSettlement DEF IInv, PayInv
    <3>3. QED
      BY ONLY <3>1, <3>2
  <2>8. i # Nothing
    BY <2>7, PayrollAssumption DEF SoundItem
  <2>9. QED
    BY <1>4, <2>5, <2>6, <2>7, <2>8 DEF HasSettlement
<1>5. QED
  BY <1>3, <1>4

LEMMA StepKeepsSettling ==
  ASSUME HiredFirst, IInv, PayInv, Settling, [Next]_vars PROVE Settling'
<1>1. ASSUME UNCHANGED <<run, item, order, settled, stale>>, contended \subseteq contended'
      PROVE  Settling'
  BY <1>1, QuietKeepsSettling
<1>2. ASSUME NEW m \in Months, openRun(m) PROVE Settling'
  <2>1. run' = [run EXCEPT ![m] = "draft"]
        /\ UNCHANGED <<item, order, settled, stale, contended>>
    BY <1>2 DEF openRun, orderVars
  <2>2. QED
    BY <2>1, QuietKeepsSettling DEF PayInv, PayTypes
<1>3. ASSUME NEW s \in Sessions, ComputeReads(s) PROVE Settling'
  BY <1>1, <1>3 DEF ComputeReads, Begins, runVars, orderVars
<1>4. ASSUME NEW s \in Sessions, ComputeCommits(s) PROVE Settling'
  BY <1>4, ComputeKeepsSettling
<1>5. ASSUME NEW s \in Sessions, ApproveReads(s) PROVE Settling'
  BY <1>1, <1>5 DEF ApproveReads, Begins, runVars, orderVars
<1>6. ASSUME NEW s \in Sessions, ApproveAccrues(s) PROVE Settling'
  BY <1>1, <1>6 DEF ApproveAccrues, runVars, orderVars
<1>7. ASSUME NEW s \in Sessions, ApproveCommits(s) PROVE Settling'
  <2>1. /\ run' = [run EXCEPT ![call[s].month] = "approved"] /\ Approving(s)
        /\ UNCHANGED <<item, order, settled, stale, contended>>
    BY <1>7 DEF ApproveCommits, Ends, orderVars, Approving
  <2>2. run[call[s].month] \in {"computed", "approved"}
    BY <2>1 DEF PayInv, RunFresh
  <2>3. QED
    BY <2>1, <2>2, QuietKeepsSettling DEF PayInv, PayTypes
<1>8. ASSUME NEW s \in Sessions, OrderReads(s) PROVE Settling'
  BY <1>1, <1>8 DEF OrderReads, Begins, runVars, orderVars
<1>9. ASSUME NEW s \in Sessions, OrderCommits(s) PROVE Settling'
  <2>1. stale' = stale \cup {m \in Months : run[m] \in {"computed", "approved"}}
        /\ run' = run
    BY <1>9 DEF OrderCommits, runVars
  <2>2. QED
    BY <2>1 DEF Settling
<1>10. ASSUME NEW s \in Sessions, RollsBack(s) PROVE Settling'
  BY <1>1, <1>10 DEF RollsBack, Ends, runVars, orderVars
<1>11. CASE UNCHANGED vars
  BY <1>1, <1>11 DEF vars, runVars, orderVars
<1>12. QED
  BY <1>2, <1>3, <1>4, <1>5, <1>6, <1>7, <1>8, <1>9, <1>10, <1>11 DEF Next

\* The final settlement is in the approved run of its month, whole and once:
\* SettlementIsPaid, where nobody leaves before the day of hire.
THEOREM SettlementsArePaid == HiredFirst => (Spec => []SettlementIsPaid)
<1> SUFFICES ASSUME HiredFirst PROVE Spec => []SettlementIsPaid
  OBVIOUS
<1>1. Init => IInv /\ PayInv /\ Settling
  <2>1. Init => Settling
    BY DEF Init, Settling
  <2>2. QED
    BY <2>1, InitIInv, InitPayInv
<1>2. IInv /\ PayInv /\ Settling /\ [Next]_vars => (IInv /\ PayInv /\ Settling)'
  BY StepKeeps, StepKeepsPay, StepKeepsSettling
<1>3. IInv /\ PayInv /\ Settling => SettlementIsPaid
  BY DEF Settling, HasSettlement, Approved, SettlementIsPaid
<1>4. QED
  BY <1>1, <1>2, <1>3, PTL DEF Spec
=============================================================================
