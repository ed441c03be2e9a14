---------------------------- MODULE MCPayrollRun ----------------------------
(***************************************************************************)
(* Two months of four days: an employee with a vacation, a change of wage, *)
(* a termination and an opening history too old for the window; and one    *)
(* without history who is often sick.                                      *)
(***************************************************************************)
EXTENDS PayrollRun, TLC

CONSTANTS e1, e2, s1, s2, vacOrder, raiseOrder, finalOrder

MCWorkDays == {d \in -80..20 : d % 4 # 0}

MCParams ==
  [iinBasic |-> 2550, iinTop |-> 3300, iinBand3 |-> 3600,
   threshold |-> 2000, threshold2 |-> 3000, minimum |-> 400, pensioner |-> 800,
   dependent |-> 250, disability12 |-> 154, disability3 |-> 120,
   repression |-> 154, vsaoi |-> 1050, vsaoiEmployer |-> 2359, riskDuty |-> 36,
   sick23 |-> 7500, sick49 |-> 8000, deductionCap |-> 5000]

MCCard == e1 :> [hired |-> -300, wage |-> 3000, openingDays |-> 500, openingMonth |-> 0]
       @@ e2 :> [hired |-> 2, wage |-> 1000, openingDays |-> 0, openingMonth |-> 0]

MCOpening == e1 :> (-7 :> [gross |-> 2700, days |-> 3]) @@ e2 :> <<>>

MCTax == e1 :> [active |-> TRUE, dependents |-> 1, pensioner |-> FALSE,
                disability |-> 0, repressed |-> FALSE]
      @@ e2 :> [active |-> TRUE, dependents |-> 0, pensioner |-> TRUE,
                disability |-> 3, repressed |-> TRUE]

MCDeduction == e1 :> 400 @@ e2 :> 9000

MCSick == e1 :> {} @@ e2 :> {[from |-> 3, to |-> 9]}

MCOrderSpec ==
     vacOrder :> [type |-> "vacation", emp |-> e1, amount |-> 0, from |-> 2, to |-> 5]
  @@ raiseOrder :> [type |-> "wage_change", emp |-> e1, amount |-> 4000, from |-> 5, to |-> 5]
  @@ finalOrder :> [type |-> "termination", emp |-> e1, amount |-> 1, from |-> 7, to |-> 7]

\* Bounds: calls overlap on a month, an order or an employee once, and what
\* they then had in hand is left alone.  (A run computed again while it is
\* being approved can be approved again, without end.)
OneOverlap ==
  /\ contended' = contended \/ contended = {}
  /\ \A s \in Sessions :
       call[s] = Nothing /\ call'[s] # Nothing => call'[s].on \cap contended = {}

Sym == Permutations(Sessions)

=============================================================================
