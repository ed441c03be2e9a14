------------------------- MODULE BankMatchingProofs -------------------------
(***************************************************************************)
(* Theorems about bank matching, for all bank transactions, targets,       *)
(* amounts and sessions.                                                   *)
(***************************************************************************)
EXTENDS BankMatching, SumTheorems, TLAPS

\* A call of each kind.
Decision == [op : {"approve", "posting", "reject"}, on : Props]
Payment == [op : {"payrun"}, bills : SUBSET Bills]
Match == [op : {"match"}, new : SUBSET Txns, picks : Picks]
Calls == Decision \cup Payment \cup Match \cup {Nothing}

(***************************************************************************)
(* What the types rest on: a proposal that has been created joins a        *)
(* transaction with a target, and one being decided on has been created.   *)
(***************************************************************************)
Joins ==
  /\ \A p \in Props : proposal[p] # "none" =>
       payload[p].txn \in Txns /\ payload[p].target \in Targets
  /\ \A s \in Sessions : call[s] # Nothing /\ call[s].op \in {"approve", "posting", "reject"} =>
       proposal[call[s].on] # "none"

IInv == TypeOK /\ Joins

LEMMA CallTypes ==
  ASSUME TypeOK
  PROVE  call \in [Sessions -> Calls]
<1>1. \A s \in Sessions : call[s] \in Calls
  BY DEF TypeOK, Open, Calls, Decision, Payment, Match
<1>2. QED
  BY <1>1 DEF TypeOK

\* The open calls by their op.
LEMMA CallKinds ==
  ASSUME TypeOK, NEW s \in Sessions, call[s] # Nothing
  PROVE  /\ call[s] \in Decision \cup Payment \cup Match
         /\ call[s].op \in {"approve", "posting", "reject"} =>
              call[s] \in Decision /\ call[s].on \in Props
         /\ call[s].op = "payrun" => call[s] \in Payment /\ call[s].bills \in SUBSET Bills
         /\ call[s].op = "match" =>
              /\ call[s] \in Match /\ call[s].new \in SUBSET Txns
              /\ DOMAIN call[s].picks \in SUBSET Txns
              /\ call[s].picks \in [DOMAIN call[s].picks -> Targets]
<1>1. call[s] \in Decision \cup Payment \cup Match
  BY CallTypes DEF Calls
<1>2. CASE call[s] \in Decision
  BY <1>2 DEF Decision
<1>3. CASE call[s] \in Payment
  BY <1>3 DEF Payment
<1>4. CASE call[s] \in Match
  BY <1>4 DEF Match, Picks
<1>5. QED
  BY <1>1, <1>2, <1>3, <1>4

\* What a call is about are transactions and targets, or no target yet.
LEMMA AboutTypes ==
  ASSUME TypeOK, NEW c \in Decision \cup Payment \cup Match
  PROVE  About(c) \subseteq Txns \cup Targets \cup {Nothing}
<1>1. CASE c \in Decision
  BY <1>1 DEF Decision, About, TypeOK
<1>2. CASE c \in Payment
  BY <1>2 DEF Payment, About, Targets, Items
<1>3. CASE c \in Match
  BY <1>3 DEF Match, Picks, About
<1>4. QED
  BY <1>1, <1>2, <1>3

-----------------------------------------------------------------------------
\* The step of a call that only reads.
LEMMA ReadsKeep ==
  ASSUME IInv, NEW s \in Sessions, NEW c \in Decision \cup Payment \cup Match,
         Begins(s, c), Contends(s), UNCHANGED <<proposal, entries, bankVars>>,
         c.op \in {"approve", "posting", "reject"} => proposal[c.on] # "none"
  PROVE  IInv'
<1>0. TypeOK /\ Joins /\ call \in [Sessions -> Calls]
  BY CallTypes DEF IInv
<1>1. /\ call' = [call EXCEPT ![s] = c] /\ call' \in [Sessions -> Calls]
      /\ call'[s] = c /\ \A r \in Sessions \ {s} : call'[r] = call[r]
  BY <1>0 DEF Begins, Calls
<1>2. \A r \in Sessions : call'[r] # Nothing => call'[r] \in Decision \cup Payment \cup Match
  BY <1>1 DEF Calls
<1>3. contended' \subseteq Txns \cup Targets
  <2>1. contended' = contended \cup
          ((About(call'[s]) \cap UNION {About(call[r]) : r \in Open}) \ {Nothing})
    BY DEF Contends
  <2>2. contended' \subseteq contended \cup (About(c) \ {Nothing})
    BY <1>1, <2>1
  <2>3. QED
    BY <1>0, <2>2, AboutTypes DEF TypeOK
<1>4. TypeOK'
  BY <1>0, <1>1, <1>2, <1>3 DEF TypeOK, bankVars, Open, Decision, Payment, Match
<1>5. Joins'
  BY <1>0, <1>1 DEF Joins, bankVars
<1>6. QED
  BY <1>4, <1>5 DEF IInv

LEMMA ReadsPendingKeep ==
  ASSUME IInv, NEW s \in Sessions, NEW op \in {"approve", "reject"},
         ReadsPending(s, op), Contends(s), UNCHANGED bankVars
  PROVE  IInv'
<1>1. PICK p \in Props : proposal[p] = "pending_approval" /\ Begins(s, [op |-> op, on |-> p])
  BY DEF ReadsPending, ReadsStatus
<1>2. [op |-> op, on |-> p] \in Decision
  BY DEF Decision
<1>3. QED
  BY <1>1, <1>2, ReadsKeep DEF ReadsPending, ReadsStatus

\* A call that ends leaves the others as they are.
LEMMA EndsKeeps ==
  ASSUME IInv, NEW s \in Sessions, Ends(s)
  PROVE  /\ call' = [r \in Sessions |-> call'[r]]
         /\ contended' \subseteq Txns \cup Targets
         /\ \A r \in Sessions : call'[r] # Nothing =>
              /\ call'[r] = call[r] /\ r # s
              /\ call'[r] \in Decision \cup Payment \cup Match
<1>1. call \in [Sessions -> Calls]
  BY CallTypes DEF IInv
<1>2. call' \in [Sessions -> Calls]
      /\ \A r \in Sessions : call'[r] # Nothing => call'[r] = call[r] /\ r # s
  BY <1>1 DEF Ends, Calls
<1>3. QED
  BY <1>1, <1>2 DEF IInv, TypeOK, Ends, Calls

\* Settling keeps the rows' types.
LEMMA SettleTypes ==
  ASSUME TypeOK, NEW S, Settle(S)
  PROVE  /\ item' \in [Items -> {"none", "open", "settled"}]
         /\ payments' \in [Items -> Nat]
BY DEF TypeOK, Settle

\* A pay run that is cleared is a pay run.
LEMMA ClearedRow ==
  ASSUME NEW row \in [bills : SUBSET Bills, cleared : BOOLEAN]
  PROVE  [row EXCEPT !.cleared = TRUE] \in [bills : SUBSET Bills, cleared : BOOLEAN]
OBVIOUS

LEMMA InitIInv == Init => IInv
BY DEF Init, ProposalsInit, IInv, TypeOK, Joins, Open, ProposalStatuses

LEMMA StepKeeps ==
  ASSUME IInv, [Next]_vars PROVE IInv'
<1>0. TypeOK /\ Joins /\ call \in [Sessions -> Calls]
  BY CallTypes DEF IInv
<1>1. ASSUME NEW i \in Items, ItemOpens(i) PROVE IInv'
  BY <1>0, <1>1 DEF ItemOpens, IInv, TypeOK, Joins, Open
<1>2. ASSUME NEW s \in Sessions, MatchReads(s) PROVE IInv'
  <2>1. PICK N \in SUBSET Txns :
          \E m \in Matchings(N \cup {t \in Txns : txn[t] = "unmatched"}) :
            Begins(s, [op |-> "match", new |-> N,
                       picks |-> [t \in {u \in DOMAIN m : m[u] # Nothing} |-> m[t]]])
    BY <1>2 DEF MatchReads
  <2> DEFINE L == N \cup {t \in Txns : txn[t] = "unmatched"}
  <2>2. PICK m \in Matchings(L) :
            Begins(s, [op |-> "match", new |-> N,
                       picks |-> [t \in {u \in DOMAIN m : m[u] # Nothing} |-> m[t]]])
    BY <2>1
  <2> DEFINE picks == [t \in {u \in DOMAIN m : m[u] # Nothing} |-> m[t]]
             c == [op |-> "match", new |-> N, picks |-> picks]
  <2>3. picks \in Picks
    <3>1. m \in [L -> Targets \cup {Nothing}] /\ L \subseteq Txns
      BY DEF Matchings
    <3>2. picks \in [{u \in L : m[u] # Nothing} -> Targets]
      BY <3>1
    <3>3. QED
      BY <3>1, <3>2 DEF Picks
  <2>4. c \in Match /\ c.op = "match"
    BY <2>3 DEF Match
  <2>5. Begins(s, c) /\ Contends(s) /\ UNCHANGED <<proposal, entries, bankVars>>
    BY <1>2, <2>2 DEF MatchReads
  <2> HIDE DEF c
  <2>6. QED
    BY <2>4, <2>5, ReadsKeep
<1>3. ASSUME NEW s \in Sessions, MatchCommits(s) PROVE IInv'
  <2> DEFINE c == call[s]
  <2>1. /\ c \in Match /\ c.new \in SUBSET Txns
        /\ DOMAIN c.picks \in SUBSET Txns /\ c.picks \in [DOMAIN c.picks -> Targets]
    BY <1>0, <1>3, CallKinds DEF MatchCommits, At
  <2>2. PICK made \in [DOMAIN c.picks -> {p \in Props : proposal[p] = "none"}] :
          /\ proposal' = [p \in Props |->
               IF \E t \in DOMAIN made : made[t] = p THEN "pending_approval" ELSE proposal[p]]
          /\ payload' = [p \in Props |->
               IF \E t \in DOMAIN made : made[t] = p
                 THEN LET t == CHOOSE u \in DOMAIN made : made[u] = p
                      IN Payload(t, c.picks[t])
                 ELSE payload[p]]
    BY <1>3 DEF MatchCommits
  <2>3. /\ txn' = [t \in Txns |-> CASE t \in DOMAIN c.picks -> "matched"
                              [] t \in c.new \ DOMAIN c.picks -> "unmatched"
                              [] OTHER -> txn[t]]
        /\ Ends(s)
        /\ UNCHANGED <<entries, item, run, paidBy, transit, payments, booked>>
    BY <1>3 DEF MatchCommits
  <2>4. \A p \in Props :
          \/ /\ proposal'[p] = "pending_approval"
             /\ payload'[p] \in [txn : Txns, target : Targets]
          \/ proposal'[p] = proposal[p] /\ payload'[p] = payload[p]
    <3> TAKE p \in Props
    <3>1. CASE \E t \in DOMAIN made : made[t] = p
      <4> DEFINE t == CHOOSE u \in DOMAIN made : made[u] = p
      <4>1. t \in DOMAIN made
        BY <3>1
      <4>2. t \in Txns /\ c.picks[t] \in Targets
        BY <2>1, <2>2, <4>1
      <4>3. proposal'[p] = "pending_approval" /\ payload'[p] = Payload(t, c.picks[t])
        BY <2>2, <3>1
      <4>4. QED
        BY <4>2, <4>3 DEF Payload
    <3>2. CASE ~ \E t \in DOMAIN made : made[t] = p
      BY <2>2, <3>2
    <3>3. QED
      BY <3>1, <3>2
  <2>5. proposal' \in [Props -> ProposalStatuses]
    BY <1>0, <2>2 DEF TypeOK, ProposalStatuses
  <2>6. payload' \in [Props -> [txn : Txns \cup {Nothing}, target : Targets \cup {Nothing}]]
    <3>1. payload' = [p \in Props |-> payload'[p]]
      BY <2>2
    <3>2. QED
      BY <1>0, <2>4, <3>1 DEF TypeOK
  <2>7. txn' \in [Txns -> {"none", "unmatched", "matched", "reconciled"}]
    BY <1>0, <2>3 DEF TypeOK
  <2>8. TypeOK'
    BY <1>0, <2>3, <2>5, <2>6, <2>7, EndsKeeps DEF TypeOK, Open, Decision, Payment, Match
  <2>9. Joins'
    BY <1>0, <2>3, <2>4, EndsKeeps, CallKinds DEF Joins
  <2>10. QED
    BY <2>8, <2>9 DEF IInv
<1>4. ASSUME NEW s \in Sessions, PayRunReads(s) PROVE IInv'
  <2>1. PICK B \in SUBSET Bills : Begins(s, [op |-> "payrun", bills |-> B])
    BY <1>4 DEF PayRunReads
  <2>2. [op |-> "payrun", bills |-> B] \in Payment
    BY DEF Payment
  <2>3. QED
    BY <1>4, <2>1, <2>2, ReadsKeep DEF PayRunReads
<1>5. ASSUME NEW s \in Sessions, PayRunCommits(s) PROVE IInv'
  <2>1. call[s].bills \in SUBSET Bills
    BY <1>0, <1>5, CallKinds DEF PayRunCommits, At
  <2>2. run' \in [Runs -> [bills : SUBSET Bills, cleared : BOOLEAN]]
    BY <1>0, <1>5, <2>1 DEF PayRunCommits, TypeOK
  <2>3. Ends(s) /\ Settle(call[s].bills)
        /\ UNCHANGED <<proposal, entries, txn, payload, paidBy, booked>>
    BY <1>5 DEF PayRunCommits
  <2>4. TypeOK'
    BY <1>0, <2>2, <2>3, EndsKeeps, SettleTypes DEF TypeOK, Open, Decision, Payment, Match
  <2>5. Joins'
    BY <1>0, <2>3, EndsKeeps DEF Joins
  <2>6. QED
    BY <2>4, <2>5 DEF IInv
<1>6. ASSUME NEW s \in Sessions, ApproveReads(s) PROVE IInv'
  BY <1>6, ReadsPendingKeep DEF ApproveReads
<1>7. ASSUME NEW s \in Sessions, PostReads(s) PROVE IInv'
  <2>1. /\ call[s] \in Decision /\ call[s].op = "approve" /\ call[s] # Nothing
        /\ call' = [call EXCEPT ![s] = [call[s] EXCEPT !.op = "posting"]]
        /\ UNCHANGED <<proposal, entries, contended, txn, item, run, payload, paidBy,
                       transit, payments, booked>>
    BY <1>0, <1>7, CallKinds DEF PostReads, At, bankVars
  <2>2. /\ [call[s] EXCEPT !.op = "posting"] \in Decision
        /\ [call[s] EXCEPT !.op = "posting"].on = call[s].on
    BY <2>1 DEF Decision
  <2>3. /\ call' = [r \in Sessions |-> call'[r]]
        /\ \A r \in Sessions : call'[r] # Nothing =>
             /\ call'[r] \in Decision \cup Payment \cup Match
             /\ call[r] # Nothing
             /\ call'[r] = call[r] \/ (r = s /\ call'[r].on = call[r].on)
    BY <1>0, <2>1, <2>2 DEF Calls
  <2>4. TypeOK'
    BY <1>0, <2>1, <2>3 DEF TypeOK, Open, Decision, Payment, Match
  <2>5. Joins'
    BY <1>0, <2>1, <2>3 DEF Joins
  <2>6. QED
    BY <2>4, <2>5 DEF IInv
<1>8. ASSUME NEW s \in Sessions, PostCommits(s) PROVE IInv'
  <2> DEFINE p == call[s].on
             x == payload[p].target
             t == payload[p].txn
  <2>1. p \in Props /\ proposal[p] # "none" /\ x \in Targets /\ t \in Txns
    BY <1>0, <1>8, CallKinds DEF PostCommits, At, Joins
  <2>2. /\ IF x \in Runs THEN Clears(x) ELSE Pays(t, x)
        /\ proposal' = [proposal EXCEPT ![p] = "posted"]
        /\ entries' = [entries EXCEPT ![p] = @ + 1]
        /\ txn' = [txn EXCEPT ![t] = "reconciled"]
        /\ booked' = [booked EXCEPT ![t] = @ + 1]
        /\ Ends(s) /\ UNCHANGED payload
    BY <1>8 DEF PostCommits, IsPosted
  <2>3. /\ item' \in [Items -> {"none", "open", "settled"}]
        /\ payments' \in [Items -> Nat]
        /\ run' \in [Runs -> [bills : SUBSET Bills, cleared : BOOLEAN]]
        /\ paidBy' \in [Items -> SUBSET Txns]
    <3>1. CASE x \in Runs
      <4>1. /\ run' = [run EXCEPT ![x].cleared = TRUE]
            /\ UNCHANGED <<item, payments, paidBy>>
        BY <2>2, <3>1 DEF Clears
      <4>2. [run[x] EXCEPT !.cleared = TRUE] \in [bills : SUBSET Bills, cleared : BOOLEAN]
        <5>1. run[x] \in [bills : SUBSET Bills, cleared : BOOLEAN]
          BY <1>0, <3>1 DEF TypeOK
        <5>2. QED
          BY <5>1, ClearedRow
      <4>3. run' \in [Runs -> [bills : SUBSET Bills, cleared : BOOLEAN]]
        BY <1>0, <4>1, <4>2 DEF TypeOK
      <4>4. QED
        BY <1>0, <4>1, <4>3 DEF TypeOK
    <3>2. CASE x \notin Runs
      <4>1. /\ paidBy' = [paidBy EXCEPT ![x] = IF x \in Claims THEN {t} ELSE @ \cup {t}]
            /\ Settle({x}) /\ UNCHANGED run
        BY <2>2, <3>2 DEF Pays
      <4>2. item' \in [Items -> {"none", "open", "settled"}] /\ payments' \in [Items -> Nat]
        BY <1>0, <4>1, SettleTypes
      <4>3. paidBy' \in [Items -> SUBSET Txns]
        BY <1>0, <2>1, <4>1 DEF TypeOK
      <4>4. QED
        BY <1>0, <4>1, <4>2, <4>3 DEF TypeOK
    <3>3. QED
      BY <3>1, <3>2
  <2>4. booked' \in [Txns -> Nat] /\ entries' \in [Props -> Nat]
    BY <1>0, <2>1, <2>2 DEF TypeOK
  <2>5. TypeOK'
    BY <1>0, <2>1, <2>2, <2>3, <2>4, EndsKeeps
    DEF TypeOK, ProposalStatuses, Open, Decision, Payment, Match
  <2>6. Joins'
    BY <1>0, <2>1, <2>2, EndsKeeps, CallKinds DEF TypeOK, Joins
  <2>7. QED
    BY <2>5, <2>6 DEF IInv
<1>9. ASSUME NEW s \in Sessions, RejectReads(s) PROVE IInv'
  BY <1>9, ReadsPendingKeep DEF RejectReads
<1>10. ASSUME NEW s \in Sessions, RejectCommits(s) PROVE IInv'
  <2> DEFINE p == call[s].on
             t == payload[p].txn
  <2>1. /\ p \in Props /\ proposal[p] # "none"
        /\ proposal' = [proposal EXCEPT ![p] = "rejected"]
        /\ txn' = [txn EXCEPT ![t] = IF @ = "matched" THEN "unmatched" ELSE @]
        /\ Ends(s)
        /\ UNCHANGED <<entries, item, run, payload, paidBy, transit, payments, booked>>
    BY <1>0, <1>10, CallKinds DEF RejectCommits, IsRejected, At, Joins
  <2>2. TypeOK'
    BY <1>0, <2>1, EndsKeeps DEF TypeOK, ProposalStatuses, Open, Decision, Payment, Match
  <2>3. Joins'
    BY <1>0, <2>1, EndsKeeps, CallKinds DEF TypeOK, Joins
  <2>4. QED
    BY <2>2, <2>3 DEF IInv
<1>11. ASSUME NEW s \in Sessions, RollsBack(s) PROVE IInv'
  <2>1. /\ Ends(s)
        /\ UNCHANGED <<proposal, entries, txn, item, run, payload, paidBy, transit,
                       payments, booked>>
    BY <1>11 DEF RollsBack, bankVars
  <2>2. TypeOK'
    BY <1>0, <2>1, EndsKeeps DEF TypeOK, Open, Decision, Payment, Match
  <2>3. Joins'
    BY <1>0, <2>1, EndsKeeps DEF Joins
  <2>4. QED
    BY <2>2, <2>3 DEF IInv
<1>12. CASE UNCHANGED vars
  BY <1>0, <1>12 DEF vars, bankVars, IInv, TypeOK, Joins, Open
<1>13. QED
  BY <1>1, <1>2, <1>3, <1>4, <1>5, <1>6, <1>7, <1>8, <1>9, <1>10, <1>11, <1>12 DEF Next

\* Every reachable state of bank matching has its type.
THEOREM TypeCorrect == Spec => []TypeOK
<1>1. IInv => TypeOK
  BY DEF IInv
<1>2. QED
  BY <1>1, InitIInv, StepKeeps, PTL DEF Spec

-----------------------------------------------------------------------------
(***************************************************************************)
(* The clearing account.  A run is cleared only with bills in it, and one  *)
(* being posted has bills already, which the amount of its transaction     *)
(* shows: so bills never enter a run that is cleared.                      *)
(***************************************************************************)
ClearedHasBills == \A r \in Runs : run[r].cleared => run[r].bills # {}

PostedHasBills ==
  \A s \in Sessions : At(s, "posting") =>
    LET x == payload[call[s].on].target IN x \in Runs => run[x].bills # {}

TransitInv == TransitIsUncleared /\ ClearedHasBills /\ PostedHasBills

LEMMA TotalType ==
  /\ Total({}) = 0
  /\ \A B \in SUBSET Bills : Total(B) \in Int
<1>1. IsFiniteSet(Bills) /\ \A b \in Bills : Worth[b] \in Int
  BY BankAssumption DEF Items
<1>2. QED
  BY <1>1, SumRecursion DEF Total

LEMMA TransitType ==
  ASSUME TypeOK, TransitIsUncleared PROVE transit \in Int
<1> DEFINE f == [q \in Runs |-> Uncleared(q)]
<1>1. DOMAIN f = Runs /\ \A q \in Runs : f[q] \in Int
  BY TotalType DEF TypeOK, Uncleared
<1> HIDE DEF f
<1>2. SumFunctionOnSet(f, Runs) \in Int
  BY <1>1, SumRecursion, BankAssumption
<1>3. QED
  BY <1>1, <1>2 DEF f, TransitIsUncleared, SumFunction

\* A step that changes one run changes the clearing account by as much.
LEMMA OneRunChanges ==
  ASSUME TypeOK, TypeOK', TransitIsUncleared, NEW r \in Runs,
         \A q \in Runs \ {r} : run'[q] = run[q],
         transit' = transit - Uncleared(r) + Uncleared(r)'
  PROVE  TransitIsUncleared'
<1> DEFINE f == [q \in Runs |-> Uncleared(q)]
           g == [q \in Runs |-> Uncleared(q)']
<1>1. \A q \in Runs : f[q] \in Int /\ g[q] \in Int
  BY TotalType DEF TypeOK, Uncleared
<1>2. \A q \in Runs \ {r} : g[q] = f[q]
  BY DEF Uncleared
<1>3. f[r] = Uncleared(r) /\ g[r] = Uncleared(r)' /\ DOMAIN f = Runs /\ DOMAIN g = Runs
  OBVIOUS
<1>4. transit = SumFunctionOnSet(f, Runs)
  BY <1>3 DEF TransitIsUncleared, SumFunction
<1> HIDE DEF f, g
<1>5. IsFiniteSet(Runs)
  BY BankAssumption
<1>6. SumFunctionOnSet(g, Runs) = SumFunctionOnSet(f, Runs) - f[r] + g[r]
  BY <1>1, <1>2, <1>5, SumChanges
<1>7. transit' = SumFunctionOnSet(g, Runs)
  BY <1>3, <1>4, <1>6
<1>8. QED
  BY <1>3, <1>7 DEF g, TransitIsUncleared, SumFunction

\* A call that ends, or that comes to hold no posting, adds no posting.
LEMMA PostingsKeep ==
  ASSUME IInv, PostedHasBills, UNCHANGED run,
         \A s \in Sessions : At(s, "posting")' =>
           call'[s] = call[s] /\ payload'[call[s].on] = payload[call[s].on]
  PROVE  PostedHasBills'
BY DEF PostedHasBills, At

LEMMA TransitStep ==
  ASSUME IInv, IInv', TransitInv, [Next]_vars PROVE TransitInv'
<1>0. /\ TypeOK /\ TypeOK' /\ Joins /\ call \in [Sessions -> Calls]
      /\ TransitIsUncleared /\ ClearedHasBills /\ PostedHasBills
  BY CallTypes DEF IInv, TransitInv
<1>1. ASSUME UNCHANGED <<run, transit>>, PostedHasBills' PROVE TransitInv'
  BY <1>0, <1>1 DEF TransitInv, TransitIsUncleared, Uncleared, ClearedHasBills
<1>2. ASSUME NEW s \in Sessions, NEW c, Begins(s, c), c.op # "posting",
             UNCHANGED bankVars
      PROVE  TransitInv'
  <2>1. \A r \in Sessions : At(r, "posting")' => call'[r] = call[r]
    BY <1>0, <1>2 DEF At, Begins
  <2>2. QED
    BY <1>0, <1>1, <1>2, <2>1, PostingsKeep DEF bankVars
<1>3. ASSUME NEW s \in Sessions, Ends(s), UNCHANGED <<run, transit>>,
             \A p \in Props : proposal[p] # "none" => payload'[p] = payload[p]
      PROVE  TransitInv'
  <2>1. \A r \in Sessions : At(r, "posting")' =>
          call'[r] = call[r] /\ payload'[call[r].on] = payload[call[r].on]
    BY <1>0, <1>3, EndsKeeps, CallKinds DEF At, Joins
  <2>2. QED
    BY <1>0, <1>1, <1>3, <2>1, PostingsKeep
<1>4. ASSUME NEW i \in Items, ItemOpens(i) PROVE TransitInv'
  BY <1>0, <1>1, <1>4, PostingsKeep DEF ItemOpens, At
<1>5. ASSUME NEW s \in Sessions, MatchReads(s) \/ PayRunReads(s) PROVE TransitInv'
  <2>1. UNCHANGED bankVars /\ \E c : c.op # "posting" /\ Begins(s, c)
    BY <1>5 DEF MatchReads, PayRunReads
  <2>2. QED
    BY <1>2, <2>1
<1>6. ASSUME NEW s \in Sessions, ApproveReads(s) \/ RejectReads(s) PROVE TransitInv'
  <2>1. UNCHANGED bankVars /\ \E c : c.op # "posting" /\ Begins(s, c)
    BY <1>6 DEF ApproveReads, RejectReads, ReadsPending, ReadsStatus
  <2>2. QED
    BY <1>2, <2>1
<1>7. ASSUME NEW s \in Sessions, MatchCommits(s) PROVE TransitInv'
  <2>1. Ends(s) /\ UNCHANGED <<run, transit>>
    BY <1>7 DEF MatchCommits
  <2>2. \A p \in Props : proposal[p] # "none" => payload'[p] = payload[p]
    <3>1. PICK made \in [DOMAIN call[s].picks -> {p \in Props : proposal[p] = "none"}] :
            payload' = [p \in Props |->
              IF \E t \in DOMAIN made : made[t] = p
                THEN LET t == CHOOSE u \in DOMAIN made : made[u] = p
                     IN Payload(t, call[s].picks[t])
                ELSE payload[p]]
      BY <1>7 DEF MatchCommits
    <3>2. \A t \in DOMAIN made : proposal[made[t]] = "none"
      OBVIOUS
    <3>3. QED
      BY <3>1, <3>2
  <2>3. QED
    BY <1>3, <2>1, <2>2
<1>8. ASSUME NEW s \in Sessions, PayRunCommits(s) PROVE TransitInv'
  <2> DEFINE B == call[s].bills
  <2>1. PICK r \in Runs : run[r].bills = {} /\ run' = [run EXCEPT ![r].bills = B]
    BY <1>8 DEF PayRunCommits
  <2>2. /\ transit' = transit + Total(B) /\ Ends(s) /\ B \in SUBSET Bills
        /\ UNCHANGED payload
    BY <1>0, <1>8, CallKinds DEF PayRunCommits, At
  <2>3. /\ \A q \in Runs \ {r} : run'[q] = run[q]
        /\ ~run[r].cleared /\ ~run'[r].cleared /\ run'[r].bills = B
    BY <1>0, <2>1 DEF TypeOK, ClearedHasBills
  <2>4. Uncleared(r) = 0 /\ Uncleared(r)' = Total(B)
    BY <2>1, <2>3, TotalType DEF Uncleared
  <2>5. Total(B) \in Int /\ transit \in Int
    BY <1>0, <2>2, TotalType, TransitType
  <2>6. transit' = transit - Uncleared(r) + Uncleared(r)'
    BY <2>2, <2>4, <2>5
  <2>7. TransitIsUncleared'
    BY <1>0, <2>3, <2>6, OneRunChanges
  <2>8. ClearedHasBills'
    BY <1>0, <2>3 DEF ClearedHasBills
  <2>9. PostedHasBills'
    <3>1. \A q \in Sessions : At(q, "posting")' => call'[q] = call[q] /\ call[q] # Nothing
      BY <1>0, <2>2, EndsKeeps DEF At
    <3>2. QED
      BY <1>0, <2>1, <2>2, <2>3, <3>1 DEF PostedHasBills, At, TypeOK
  <2>10. QED
    BY <2>7, <2>8, <2>9 DEF TransitInv
<1>9. ASSUME NEW s \in Sessions, PostReads(s) PROVE TransitInv'
  <2> DEFINE p == call[s].on  x == payload[p].target
  <2>1. /\ call[s] \in Decision /\ p \in Props /\ proposal[p] # "none"
        /\ call[s] # Nothing /\ payload[p].txn \in Txns
    BY <1>0, <1>9, CallKinds DEF PostReads, At, Joins
  <2>2. /\ x \in Runs => Uncleared(x) = Worth[payload[p].txn]
        /\ call' = [call EXCEPT ![s] = [call[s] EXCEPT !.op = "posting"]]
        /\ UNCHANGED <<run, transit, payload>>
    BY <1>9 DEF PostReads, bankVars
  <2>3. x \in Runs => run[x].bills # {}
    BY <2>1, <2>2, TotalType, BankAssumption DEF Uncleared
  <2>4. \A q \in Sessions : At(q, "posting")' =>
          call'[q].on = call[q].on /\ (q # s => At(q, "posting"))
    BY <1>0, <2>1, <2>2 DEF At, Decision
  <2>5. PostedHasBills'
    BY <1>0, <2>2, <2>3, <2>4 DEF PostedHasBills
  <2>6. QED
    BY <1>1, <2>2, <2>5
<1>10. ASSUME NEW s \in Sessions, PostCommits(s) PROVE TransitInv'
  <2>0. PICK x, t : x = payload[call[s].on].target /\ t = payload[call[s].on].txn
    OBVIOUS
  <2>1. /\ IF x \in Runs THEN Clears(x) ELSE Pays(t, x)
        /\ Ends(s) /\ UNCHANGED payload /\ At(s, "posting")
    BY <1>10, <2>0 DEF PostCommits
  <2>2. CASE x \notin Runs
    BY <1>3, <2>1, <2>2 DEF Pays
  <2>3. CASE x \in Runs
    <3>1. /\ ~run[x].cleared /\ run' = [run EXCEPT ![x].cleared = TRUE]
          /\ transit' = transit - Total(run[x].bills)
      BY <2>1, <2>3 DEF Clears
    <3>2. /\ \A q \in Runs \ {x} : run'[q] = run[q]
          /\ run'[x].cleared /\ run'[x].bills = run[x].bills /\ run[x].bills \in SUBSET Bills
      BY <1>0, <2>3, <3>1 DEF TypeOK
    <3>3. Uncleared(x) = Total(run[x].bills) /\ Uncleared(x)' = 0
      BY <3>1, <3>2 DEF Uncleared
    <3>4. transit' = transit - Uncleared(x) + Uncleared(x)'
      BY <1>0, <3>1, <3>2, <3>3, TotalType, TransitType
    <3>5. TransitIsUncleared'
      BY <1>0, <2>3, <3>2, <3>4, OneRunChanges
    <3>6. run[x].bills # {}
      BY <1>0, <2>0, <2>1, <2>3 DEF PostedHasBills
    <3>7. ClearedHasBills'
      BY <1>0, <3>2, <3>6 DEF ClearedHasBills
    <3>8. PostedHasBills'
      <4>1. \A q \in Sessions : At(q, "posting")' => call'[q] = call[q] /\ call[q] # Nothing
        BY <1>0, <2>1, EndsKeeps DEF At
      <4>2. \A r \in Runs : run'[r].bills = run[r].bills
        BY <3>2
      <4>3. QED
        BY <1>0, <2>1, <4>1, <4>2 DEF PostedHasBills, At
    <3>9. QED
      BY <3>5, <3>7, <3>8 DEF TransitInv
  <2>4. QED
    BY <2>2, <2>3
<1>11. ASSUME NEW s \in Sessions, RejectCommits(s) \/ RollsBack(s) PROVE TransitInv'
  <2>1. Ends(s) /\ UNCHANGED <<run, transit, payload>>
    BY <1>11 DEF RejectCommits, RollsBack, bankVars
  <2>2. QED
    BY <1>3, <2>1
<1>12. CASE UNCHANGED vars
  BY <1>0, <1>1, <1>12, PostingsKeep DEF vars, bankVars, At
<1>13. QED
  BY <1>4, <1>5, <1>6, <1>7, <1>8, <1>9, <1>10, <1>11, <1>12 DEF Next

\* confirm-match.ts: "a run clears at most once".  The clearing account holds
\* just the pay runs the bank has not booked, for all runs and amounts.
THEOREM ClearingTies == Spec => []TransitIsUncleared
<1>1. Init => TransitInv
  <2> SUFFICES ASSUME Init PROVE TransitInv
    OBVIOUS
  <2> DEFINE f == [r \in Runs |-> Uncleared(r)]
  <2>1. DOMAIN f = Runs /\ \A r \in Runs : f[r] = 0
    BY TotalType DEF Init, Uncleared
  <2> HIDE DEF f
  <2>2. SumFunctionOnSet(f, Runs) = 0
    BY <2>1, SumOfZeros, BankAssumption
  <2>3. TransitIsUncleared
    BY <2>1, <2>2 DEF f, Init, TransitIsUncleared, SumFunction
  <2>4. ClearedHasBills /\ PostedHasBills
    BY DEF Init, ProposalsInit, ClearedHasBills, PostedHasBills, At
  <2>5. QED
    BY <2>3, <2>4 DEF TransitInv
<1>2. TransitInv => TransitIsUncleared
  BY DEF TransitInv
<1>3. QED
  BY <1>1, <1>2, InitIInv, StepKeeps, TransitStep, PTL DEF Spec

-----------------------------------------------------------------------------
(***************************************************************************)
(* What no two calls had in hand at once: it has one holder, and what the  *)
(* holder has read of it is still so.  A statement line that is being      *)
(* imported belongs to one import and is no proposal's yet.                *)
(***************************************************************************)
OneHolder ==
  \A r, s \in Open : r # s =>
    About(call[r]) \cap About(call[s]) \subseteq contended \cup {Nothing}

\* The lines c imports, and those it has found a target for.
LinesFresh(c) ==
  c.op = "match" =>
    /\ \A t \in c.new : txn[t] = "none"
    /\ \A t \in DOMAIN c.picks : txn[t] = "none" => t \in c.new
    /\ \A t \in DOMAIN c.picks \ contended : txn[t] \in {"none", "unmatched"}
    /\ \A t \in DOMAIN c.picks : c.picks[t] \notin contended => Pending(c.picks[t]) = {}
    /\ \A t, u \in DOMAIN c.picks : t # u => c.picks[t] # c.picks[u]

BillsFresh(c) == c.op = "payrun" => \A b \in c.bills \ contended : item[b] = "open"

DecisionFresh(c) ==
  c.op \in {"approve", "posting", "reject"} =>
    LET t == payload[c.on].txn  x == payload[c.on].target IN
    /\ t \notin contended => txn[t] = "matched"
    /\ {t, x} \subseteq contended \/ proposal[c.on] = "pending_approval"
    /\ c.op = "posting" /\ x \in Items \ contended => item[x] = "open"

IsFresh(c) == LinesFresh(c) /\ BillsFresh(c) /\ DecisionFresh(c)

Fresh ==
  /\ \A s \in Open : IsFresh(call[s])
  /\ \A r, s \in Open : r # s /\ call[r].op = "match" /\ call[s].op = "match" =>
       call[r].new \cap call[s].new = {}

Imported == \A p \in Props : proposal[p] # "none" => txn[payload[p].txn] # "none"

\* ClaimedOnce and BankTiesToStatement at one transaction, target or item.
LineTies(t) ==
  /\ txn[t] = "matched" => Pending(t) # {}
  /\ \A p, q \in Pending(t) : p = q /\ txn[t] = "matched"
  /\ booked[t] = IF txn[t] = "reconciled" THEN 1 ELSE 0

PromisedOnce(x) == \A p, q \in Pending(x) : p = q

PaidOnce(i) == payments[i] = IF item[i] = "settled" THEN 1 ELSE 0

Ties ==
  /\ \A t \in Txns \ contended : LineTies(t)
  /\ \A x \in Targets \ contended : PromisedOnce(x)
  /\ \A i \in Items \ contended : PaidOnce(i)

UInv == OneHolder /\ Fresh /\ Imported /\ Ties

\* A call that begins has read what it is about as it is.
LEMMA ReadsStayFresh ==
  ASSUME IInv, UInv, NEW s \in Sessions, NEW c \in Decision \cup Payment \cup Match,
         Begins(s, c), Contends(s), UNCHANGED <<proposal, entries, bankVars>>,
         IsFresh(c),
         \A r \in Open : c.op = "match" /\ call[r].op = "match" => call[r].new \cap c.new = {}
  PROVE  UInv'
<1>0. TypeOK /\ OneHolder /\ Fresh /\ Imported /\ Ties /\ call \in [Sessions -> Calls]
  BY CallTypes DEF IInv, UInv
<1>1. /\ call'[s] = c /\ s \notin Open /\ Open' \subseteq Open \cup {s}
      /\ \A r \in Open : call'[r] = call[r]
      /\ \A d : About(d)' = About(d)
      /\ contended' = contended \cup
           ((About(c) \cap UNION {About(call[r]) : r \in Open}) \ {Nothing})
      /\ UNCHANGED <<proposal, txn, item, payload, payments, booked>>
  BY <1>0 DEF Begins, Open, About, Contends, bankVars
<1>2. OneHolder'
  <2> SUFFICES ASSUME NEW q \in Open', NEW r \in Open', q # r
               PROVE  About(call'[q]) \cap About(call'[r]) \subseteq contended' \cup {Nothing}
    BY <1>1 DEF OneHolder
  <2>1. CASE q \in Open /\ r \in Open
    BY <1>0, <1>1, <2>1 DEF OneHolder
  <2>2. CASE q = s /\ r \in Open
    BY <1>1, <2>2
  <2>3. CASE r = s /\ q \in Open
    BY <1>1, <2>3
  <2>4. QED
    BY <1>1, <2>1, <2>2, <2>3
<1>3. \A d : IsFresh(d) => IsFresh(d)'
  BY <1>1 DEF IsFresh, LinesFresh, BillsFresh, DecisionFresh, Pending
<1>4. Fresh'
  BY <1>0, <1>1, <1>3 DEF Fresh
<1>5. Imported' /\ Ties'
  BY <1>0, <1>1 DEF Imported, Ties, LineTies, PromisedOnce, PaidOnce, Pending
<1>6. QED
  BY <1>2, <1>4, <1>5 DEF UInv

\* A call about A writes nothing else: it moves lines, items and proposals of
\* A, creates proposals that join members of A, and imports its own lines.
WritesOnly(c, A) ==
  /\ \A t \in Txns :
       /\ txn'[t] = "none" => txn[t] = "none"
       /\ txn[t] = "none" => txn'[t] = "none" \/ (c.op = "match" /\ t \in c.new)
  /\ \A t \in Txns \ A :
       /\ txn'[t] = txn[t] \/ (txn[t] = "none" /\ txn'[t] = "unmatched")
       /\ booked'[t] = booked[t]
  /\ \A i \in Items \ A : item'[i] = item[i] /\ payments'[i] = payments[i]
  /\ \A p \in Props :
       \/ proposal'[p] = proposal[p] /\ payload'[p] = payload[p]
       \/ /\ payload'[p].txn \in A \cap Txns /\ payload'[p].target \in A \cap Targets
          /\ \/ proposal[p] # "none" /\ payload'[p] = payload[p]
             \/ proposal[p] = "none" /\ txn'[payload'[p].txn] # "none"

\* What the other calls have in hand is out of its reach.
LEMMA OthersStayFresh ==
  ASSUME IInv, UInv, NEW s \in Open, Ends(s), WritesOnly(call[s], About(call[s]))
  PROVE  OneHolder' /\ Fresh' /\ Imported'
<1>0. TypeOK /\ Joins /\ OneHolder /\ Fresh /\ Imported /\ Ties /\ s \in Sessions
  BY DEF IInv, UInv, Open
<1> DEFINE A == About(call[s])
<1>1. /\ contended' = contended
      /\ \A r \in Open' : call'[r] = call[r] /\ r # s /\ r \in Open /\ r \in Sessions
  BY <1>0, EndsKeeps DEF Ends, Open
<1>2. \A r \in Open' : About(call[r]) \cap A \subseteq contended \cup {Nothing}
  BY <1>0, <1>1 DEF OneHolder
<1>3. \A p \in Props : proposal[p] # "none" =>
        payload'[p] = payload[p] /\ payload[p].txn \in Txns /\ payload[p].target \in Targets
  BY <1>0 DEF WritesOnly, Joins
<1>4. \A r \in Open' : call[r].op \in {"approve", "posting", "reject"} =>
        call[r].on \in Props /\ proposal[call[r].on] # "none"
  BY <1>0, <1>1, CallKinds DEF Joins, Open
<1>5. \A r \in Open' : About(call[r])' = About(call[r])
  <2> TAKE r \in Open'
  <2>1. call[r].op \in {"approve", "posting", "reject", "payrun", "match"}
    BY <1>0, <1>1, CallKinds DEF Open, Decision, Payment, Match
  <2>2. CASE call[r].op \in {"approve", "posting", "reject"}
    BY <1>1, <1>3, <1>4, <2>2 DEF About
  <2>3. CASE call[r].op = "payrun"
    BY <1>1, <2>3 DEF About
  <2>4. CASE call[r].op = "match"
    BY <1>1, <2>4 DEF About
  <2>5. QED
    BY <2>1, <2>2, <2>3, <2>4
<1>6. OneHolder'
  BY <1>0, <1>1, <1>5 DEF OneHolder
<1>7. ASSUME NEW x \in Targets \ A, Pending(x) = {} PROVE Pending(x)' = {}
  <2>1. \A p \in Props : proposal'[p] = "pending_approval" => x \notin {payload'[p].txn, payload'[p].target}
    BY <1>7, BankAssumption DEF Pending, WritesOnly
  <2>2. QED
    BY <2>1 DEF Pending
<1>8. ASSUME NEW r \in Open', NEW c, c = call[r] PROVE IsFresh(c)'
  <2>0. /\ IsFresh(c) /\ c \in Decision \cup Payment \cup Match
        /\ About(c) \cap A \subseteq contended \cup {Nothing}
        /\ r \in Sessions /\ call[r] # Nothing /\ r # s /\ r \in Open
    BY <1>0, <1>1, <1>2, <1>8, CallKinds DEF Fresh, Open
  <2>1. LinesFresh(c)'
    <3> SUFFICES ASSUME c.op = "match" PROVE LinesFresh(c)'
      BY DEF LinesFresh
    <3>1. /\ c.new \in SUBSET Txns /\ DOMAIN c.picks \in SUBSET Txns
          /\ c.picks \in [DOMAIN c.picks -> Targets]
      BY <1>0, <1>8, <2>0, CallKinds
    <3>2. \A t \in DOMAIN c.picks : {t, c.picks[t]} \subseteq About(c)
      BY DEF About
    <3>3. \A t \in DOMAIN c.picks :
            /\ t \in A => t \in contended
            /\ c.picks[t] \in A => c.picks[t] \in contended
      BY <2>0, <3>1, <3>2, BankAssumption
    <3>4. \A t \in c.new : txn'[t] = "none"
      <4>1. \A t \in c.new : txn[t] = "none" /\ t \in Txns
        BY <2>0, <3>1 DEF IsFresh, LinesFresh
      <4>2. call[s].op = "match" => call[s].new \cap c.new = {}
        BY <1>0, <1>8, <2>0 DEF Fresh
      <4>3. QED
        BY <4>1, <4>2 DEF WritesOnly
    <3>5. \A t \in DOMAIN c.picks : txn'[t] = "none" => t \in c.new
      BY <2>0, <3>1 DEF IsFresh, LinesFresh, WritesOnly
    <3>6. \A t \in DOMAIN c.picks \ contended : txn'[t] \in {"none", "unmatched"}
      BY <2>0, <3>1, <3>3 DEF IsFresh, LinesFresh, WritesOnly
    <3>7. \A t \in DOMAIN c.picks :
            c.picks[t] \notin contended => Pending(c.picks[t])' = {}
      BY <1>7, <2>0, <3>1, <3>3 DEF IsFresh, LinesFresh
    <3>8. QED
      BY <1>1, <2>0, <3>4, <3>5, <3>6, <3>7 DEF IsFresh, LinesFresh
  <2>2. BillsFresh(c)'
    <3> SUFFICES ASSUME c.op = "payrun" PROVE BillsFresh(c)'
      BY DEF BillsFresh
    <3>1. c.bills \in SUBSET Bills /\ About(c) = c.bills
      BY <1>0, <1>8, <2>0, CallKinds DEF About
    <3>2. QED
      BY <1>1, <2>0, <3>1, BankAssumption DEF IsFresh, BillsFresh, WritesOnly, Targets, Items
  <2>3. DecisionFresh(c)'
    <3> SUFFICES ASSUME c.op \in {"approve", "posting", "reject"} PROVE DecisionFresh(c)'
      BY DEF DecisionFresh
    <3> DEFINE t == payload[c.on].txn  x == payload[c.on].target
    <3>1. /\ c.on \in Props /\ proposal[c.on] # "none" /\ payload'[c.on] = payload[c.on]
          /\ t \in Txns /\ x \in Targets /\ t # Nothing /\ x # Nothing
      BY <1>3, <1>4, <1>8, BankAssumption
    <3>2. About(c) = {t, x}
      BY DEF About
    <3>3. (t \in A => t \in contended) /\ (x \in A => x \in contended)
      BY <2>0, <3>1, <3>2
    <3>4. /\ t \notin contended => txn[t] = "matched"
          /\ {t, x} \subseteq contended \/ proposal[c.on] = "pending_approval"
          /\ c.op = "posting" /\ x \in Items \ contended => item[x] = "open"
      BY <2>0 DEF IsFresh, DecisionFresh
    <3>5. t \notin contended => txn'[t] = "matched"
      BY <3>1, <3>3, <3>4 DEF WritesOnly
    <3>6. {t, x} \subseteq contended \/ proposal'[c.on] = "pending_approval"
      BY <3>1, <3>3, <3>4 DEF WritesOnly
    <3>7. c.op = "posting" /\ x \in Items \ contended => item'[x] = "open"
      BY <3>3, <3>4 DEF WritesOnly
    <3>8. QED
      BY <1>1, <3>1, <3>5, <3>6, <3>7 DEF DecisionFresh
  <2>4. QED
    BY <2>1, <2>2, <2>3 DEF IsFresh
<1>9. Fresh'
  <2>1. \A r \in Open' : IsFresh(call[r])'
    BY <1>1, <1>8 DEF IsFresh, LinesFresh, BillsFresh, DecisionFresh
  <2>2. QED
    BY <1>0, <1>1, <2>1 DEF Fresh
<1>10. Imported'
  BY <1>0, <1>3 DEF Imported, WritesOnly
<1>11. QED
  BY <1>6, <1>9, <1>10

\* So a call that commits has to answer for what it is about, and no more.
LEMMA CommitTies ==
  ASSUME IInv, UInv, NEW s \in Open, NEW A, A = About(call[s]),
         Ends(s), WritesOnly(call[s], A),
         \A t \in (A \cap Txns) \ contended : LineTies(t)',
         \A x \in (A \cap Targets) \ contended : PromisedOnce(x)',
         \A i \in (A \cap Items) \ contended : PaidOnce(i)'
  PROVE  UInv'
<1>0. /\ TypeOK /\ Ties /\ contended' = contended
      /\ OneHolder' /\ Fresh' /\ Imported'
  BY OthersStayFresh DEF IInv, UInv, Ends
<1>1. \A x \in (Txns \cup Targets) \ A : Pending(x)' = Pending(x)
  <2> TAKE x \in (Txns \cup Targets) \ A
  <2>1. \A p \in Props :
          (proposal'[p] = "pending_approval" /\ x \in {payload'[p].txn, payload'[p].target})
          <=> (proposal[p] = "pending_approval" /\ x \in {payload[p].txn, payload[p].target})
    <3> TAKE p \in Props
    <3>1. CASE proposal'[p] = proposal[p] /\ payload'[p] = payload[p]
      BY <3>1
    <3>2. CASE /\ x \notin {payload'[p].txn, payload'[p].target}
               /\ payload'[p] = payload[p] \/ proposal[p] = "none"
      BY <3>2
    <3>3. QED
      BY <3>1, <3>2 DEF WritesOnly
  <2>2. QED
    BY <2>1 DEF Pending
<1>2. ASSUME NEW t \in Txns \ contended, t \notin A PROVE LineTies(t)'
  <2>1. LineTies(t) /\ Pending(t)' = Pending(t) /\ booked'[t] = booked[t]
    BY <1>0, <1>1, <1>2 DEF Ties, WritesOnly
  <2>2. txn'[t] = txn[t] \/ (txn[t] = "none" /\ txn'[t] = "unmatched")
    BY <1>2 DEF WritesOnly
  <2>3. QED
    BY <2>1, <2>2 DEF LineTies
<1>3. ASSUME NEW x \in Targets \ contended, x \notin A PROVE PromisedOnce(x)'
  BY <1>0, <1>1, <1>3 DEF Ties, PromisedOnce
<1>4. ASSUME NEW i \in Items \ contended, i \notin A PROVE PaidOnce(i)'
  BY <1>0, <1>4 DEF Ties, PaidOnce, WritesOnly
<1>5. Ties'
  BY <1>0, <1>2, <1>3, <1>4 DEF Ties
<1>6. QED
  BY <1>0, <1>5 DEF UInv

LEMMA UncontendedStep ==
  ASSUME IInv, UInv, [Next]_vars PROVE UInv'
<1>0. /\ TypeOK /\ Joins /\ call \in [Sessions -> Calls]
      /\ OneHolder /\ Fresh /\ Imported /\ Ties
  BY CallTypes DEF IInv, UInv
<1>1. ASSUME NEW i \in Items, ItemOpens(i) PROVE UInv'
  <2>1. /\ item[i] = "none" /\ item' = [item EXCEPT ![i] = "open"]
        /\ UNCHANGED <<proposal, entries, call, contended, txn, run, payload, paidBy,
                       transit, payments, booked>>
    BY <1>1 DEF ItemOpens
  <2>2. \A j \in Items : item'[j] = item[j] \/ (item[j] = "none" /\ item'[j] = "open")
    BY <1>0, <2>1 DEF TypeOK
  <2>3. OneHolder' /\ Imported'
    BY <1>0, <2>1 DEF OneHolder, Imported, Open, About
  <2>4. Fresh'
    <3>1. ASSUME NEW s \in Open PROVE IsFresh(call[s])'
      <4>1. IsFresh(call[s]) /\ UNCHANGED <<call, contended, proposal, payload, txn>>
        BY <1>0, <2>1 DEF Fresh
      <4>2. LinesFresh(call[s])'
        BY <4>1 DEF IsFresh, LinesFresh, Pending
      <4>3. BillsFresh(call[s])'
        <5>1. call[s].op = "payrun" => call[s].bills \subseteq Items
          BY <1>0, CallKinds DEF Open, Items
        <5>2. QED
          BY <2>2, <4>1, <5>1 DEF IsFresh, BillsFresh
      <4>4. DecisionFresh(call[s])'
        BY <2>2, <4>1 DEF IsFresh, DecisionFresh
      <4>5. QED
        BY <4>2, <4>3, <4>4 DEF IsFresh
    <3>2. QED
      BY <1>0, <2>1, <3>1 DEF Fresh, Open
  <2>5. Ties'
    BY <1>0, <2>1, <2>2 DEF Ties, LineTies, PromisedOnce, PaidOnce, Pending
  <2>6. QED
    BY <2>3, <2>4, <2>5 DEF UInv
<1>2. ASSUME NEW s \in Sessions, MatchReads(s) PROVE UInv'
  <2>1. PICK N \in SUBSET {t \in Txns : txn[t] = "none" /\
                    \A r \in Open : call[r].op = "match" => t \notin call[r].new} :
          \E m \in Matchings(N \cup {t \in Txns : txn[t] = "unmatched"}) :
            Begins(s, [op |-> "match", new |-> N,
                       picks |-> [t \in {u \in DOMAIN m : m[u] # Nothing} |-> m[t]]])
    BY <1>2 DEF MatchReads
  <2> DEFINE L == N \cup {t \in Txns : txn[t] = "unmatched"}
  <2>2. PICK m \in Matchings(L) :
            Begins(s, [op |-> "match", new |-> N,
                       picks |-> [t \in {u \in DOMAIN m : m[u] # Nothing} |-> m[t]]])
    BY <2>1
  <2> DEFINE picks == [t \in {u \in DOMAIN m : m[u] # Nothing} |-> m[t]]
             c == [op |-> "match", new |-> N, picks |-> picks]
  <2>3. /\ m \in [L -> Targets \cup {Nothing}] /\ L \subseteq Txns
        /\ \A t \in L : m[t] # Nothing => Fits(t, m[t])
        /\ \A t, u \in L : t # u /\ m[t] # Nothing => m[t] # m[u]
    BY DEF Matchings
  <2>4. /\ DOMAIN picks \subseteq L /\ picks \in [DOMAIN picks -> Targets]
        /\ \A t \in DOMAIN picks : picks[t] = m[t] /\ m[t] # Nothing
    BY <2>3
  <2>5. c \in Match /\ c.op = "match" /\ c.new = N /\ c.picks = picks
    BY <2>3, <2>4 DEF Match, Picks
  <2>6. IsFresh(c)
    <3>1. \A t \in N : txn[t] = "none"
      OBVIOUS
    <3>2. \A t \in DOMAIN picks : txn[t] \in {"none", "unmatched"} /\ (txn[t] = "none" => t \in N)
      BY <2>4
    <3>3. \A t \in DOMAIN picks : Pending(picks[t]) = {}
      <4> TAKE t \in DOMAIN picks
      <4>1. picks[t] \in Targets /\ ~Claimed(picks[t])
        BY <2>3, <2>4 DEF Fits
      <4>2. \A p \in Props : proposal[p] = "pending_approval" => payload[p].target # picks[t]
        BY <4>1 DEF Claimed, Unresolved
      <4>3. \A p \in Props : proposal[p] = "pending_approval" => payload[p].txn # picks[t]
        BY <1>0, <4>1, BankAssumption DEF Joins
      <4>4. QED
        BY <4>2, <4>3 DEF Pending
    <3>4. \A t, u \in DOMAIN picks : t # u => picks[t] # picks[u]
      BY <2>3, <2>4
    <3>5. LinesFresh(c)
      BY <2>5, <3>1, <3>2, <3>3, <3>4 DEF LinesFresh
    <3>6. QED
      BY <2>5, <3>5 DEF IsFresh, BillsFresh, DecisionFresh
  <2>7. \A r \in Open : call[r].op = "match" => call[r].new \cap c.new = {}
    BY <2>5
  <2>8. Begins(s, c) /\ Contends(s) /\ UNCHANGED <<proposal, entries, bankVars>>
    BY <1>2, <2>2 DEF MatchReads
  <2> HIDE DEF c
  <2>9. QED
    BY <1>0, <2>5, <2>6, <2>7, <2>8, ReadsStayFresh
<1>3. ASSUME NEW s \in Sessions, PayRunReads(s) PROVE UInv'
  <2>1. PICK B \in SUBSET {b \in Bills : item[b] = "open"} :
          Begins(s, [op |-> "payrun", bills |-> B])
    BY <1>3 DEF PayRunReads
  <2> DEFINE c == [op |-> "payrun", bills |-> B]
  <2>2. c \in Payment /\ IsFresh(c) /\ c.op # "match"
    BY DEF Payment, IsFresh, LinesFresh, BillsFresh, DecisionFresh
  <2>3. Begins(s, c) /\ Contends(s) /\ UNCHANGED <<proposal, entries, bankVars>>
    BY <1>3, <2>1 DEF PayRunReads
  <2> HIDE DEF c
  <2>4. QED
    BY <2>2, <2>3, ReadsStayFresh
<1>4. ASSUME NEW s \in Sessions, ApproveReads(s) \/ RejectReads(s) PROVE UInv'
  <2>1. PICK p \in Props, op \in {"approve", "reject"} :
          /\ proposal[p] = "pending_approval" /\ Begins(s, [op |-> op, on |-> p])
          /\ Contends(s) /\ UNCHANGED <<proposal, entries, bankVars>>
    BY <1>4 DEF ApproveReads, RejectReads, ReadsPending, ReadsStatus
  <2> DEFINE c == [op |-> op, on |-> p]
  <2>2. c \in Decision /\ c.op \notin {"match", "payrun", "posting"}
    BY DEF Decision
  <2>3. payload[p].txn \in Txns /\ p \in Pending(payload[p].txn)
    BY <1>0, <2>1 DEF Joins, Pending
  <2>4. payload[p].txn \notin contended => txn[payload[p].txn] = "matched"
    BY <1>0, <2>3 DEF Ties, LineTies
  <2>5. IsFresh(c)
    BY <2>1, <2>2, <2>4 DEF IsFresh, LinesFresh, BillsFresh, DecisionFresh
  <2> HIDE DEF c
  <2>6. QED
    BY <2>1, <2>2, <2>5, ReadsStayFresh DEF c
<1>5. ASSUME NEW s \in Sessions, MatchCommits(s) PROVE UInv'
  <2> DEFINE c == call[s]  A == About(call[s])
  <2>1. /\ s \in Open /\ c.op = "match" /\ Ends(s) /\ c.new \in SUBSET Txns
        /\ DOMAIN c.picks \in SUBSET Txns /\ c.picks \in [DOMAIN c.picks -> Targets]
        /\ A = UNION {{t, c.picks[t]} : t \in DOMAIN c.picks}
        /\ IsFresh(c)
    BY <1>0, <1>5, CallKinds DEF MatchCommits, At, About, Open, Fresh
  <2>2. PICK made \in [DOMAIN c.picks -> {p \in Props : proposal[p] = "none"}] :
          /\ \A t, u \in DOMAIN made : t # u => made[t] # made[u]
          /\ proposal' = [p \in Props |->
               IF \E t \in DOMAIN made : made[t] = p THEN "pending_approval" ELSE proposal[p]]
          /\ payload' = [p \in Props |->
               IF \E t \in DOMAIN made : made[t] = p
                 THEN LET t == CHOOSE u \in DOMAIN made : made[u] = p
                      IN Payload(t, c.picks[t])
                 ELSE payload[p]]
    BY <1>5 DEF MatchCommits
  <2>3. /\ txn' = [t \in Txns |-> CASE t \in DOMAIN c.picks -> "matched"
                              [] t \in c.new \ DOMAIN c.picks -> "unmatched"
                              [] OTHER -> txn[t]]
        /\ UNCHANGED <<item, payments, booked>>
    BY <1>5 DEF MatchCommits
  <2>4. \A p \in Props :
          \/ /\ proposal'[p] = proposal[p] /\ payload'[p] = payload[p]
             /\ \A t \in DOMAIN c.picks : made[t] # p
          \/ /\ proposal[p] = "none"
             /\ \E t \in DOMAIN c.picks : made[t] = p /\ payload'[p] = Payload(t, c.picks[t])
    BY <2>2
  <2>5. \A t \in DOMAIN c.picks : {t, c.picks[t]} \subseteq A
    BY <2>1
  <2>6. \A x \in A : x \in DOMAIN c.picks \/ \E t \in DOMAIN c.picks : x = c.picks[t]
    BY <2>1
  <2>7. A \cap Txns \subseteq DOMAIN c.picks
        /\ \A x \in A \cap Targets : \E t \in DOMAIN c.picks : x = c.picks[t]
    BY <2>1, <2>6, BankAssumption
  <2>8. WritesOnly(c, A)
    <3>1. \A t \in Txns \ A : t \notin DOMAIN c.picks
      BY <2>5
    <3>2. \A t \in c.new : txn[t] = "none"
      BY <2>1 DEF IsFresh, LinesFresh
    <3>3. \A t \in DOMAIN c.picks : txn[t] = "none" => t \in c.new
      BY <2>1 DEF IsFresh, LinesFresh
    <3>4. \A t \in Txns :
            /\ txn'[t] = "none" => txn[t] = "none"
            /\ txn[t] = "none" => txn'[t] = "none" \/ (c.op = "match" /\ t \in c.new)
      BY <2>1, <2>3, <3>3
    <3>5. \A t \in Txns \ A :
            /\ txn'[t] = txn[t] \/ (txn[t] = "none" /\ txn'[t] = "unmatched")
            /\ booked'[t] = booked[t]
      BY <2>3, <3>1, <3>2
    <3>6. \A p \in Props :
       \/ proposal'[p] = proposal[p] /\ payload'[p] = payload[p]
       \/ /\ payload'[p].txn \in A \cap Txns /\ payload'[p].target \in A \cap Targets
          /\ proposal[p] = "none" /\ txn'[payload'[p].txn] # "none"
      <4> TAKE p \in Props
      <4>1. CASE proposal'[p] = proposal[p] /\ payload'[p] = payload[p]
        BY <4>1
      <4>2. ASSUME proposal[p] = "none", NEW t \in DOMAIN c.picks,
                   payload'[p] = Payload(t, c.picks[t])
            PROVE  /\ payload'[p].txn \in A \cap Txns /\ payload'[p].target \in A \cap Targets
                   /\ txn'[payload'[p].txn] # "none"
        <5>1. payload'[p].txn = t /\ payload'[p].target = c.picks[t]
          BY <4>2 DEF Payload
        <5>2. t \in A /\ c.picks[t] \in A /\ t \in Txns /\ c.picks[t] \in Targets
          BY <2>1, <2>5
        <5>3. txn'[t] = "matched"
          BY <2>3, <5>2
        <5>4. QED
          BY <5>1, <5>2, <5>3
      <4>3. QED
        BY <2>4, <4>1, <4>2
    <3>7. QED
      BY <2>3, <3>4, <3>5, <3>6 DEF WritesOnly
  <2>9. ASSUME NEW t \in (A \cap Txns) \ contended PROVE LineTies(t)'
    <3>1. t \in DOMAIN c.picks /\ txn[t] \in {"none", "unmatched"} /\ txn'[t] = "matched"
      BY <2>1, <2>3, <2>7 DEF IsFresh, LinesFresh
    <3>2. Pending(t) = {} /\ booked[t] = 0
      BY <1>0, <3>1 DEF Ties, LineTies
    <3>3. made[t] \in Props /\ proposal'[made[t]] = "pending_approval"
      BY <2>2, <3>1
    <3>4. payload'[made[t]].txn = t
      <4>1. \E u \in DOMAIN c.picks : made[u] = made[t] /\ payload'[made[t]] = Payload(u, c.picks[u])
        BY <2>4, <3>1, <3>3
      <4>2. QED
        BY <2>2, <3>1, <4>1 DEF Payload
    <3>5. \A p \in Pending(t)' : p = made[t]
      <4> TAKE p \in Pending(t)'
      <4>1. p \in Props /\ proposal'[p] = "pending_approval" /\ t \in {payload'[p].txn, payload'[p].target}
        BY DEF Pending
      <4>2. p \notin Pending(t)
        BY <3>2
      <4>3. PICK u \in DOMAIN c.picks : made[u] = p /\ payload'[p] = Payload(u, c.picks[u])
        BY <2>4, <4>1, <4>2 DEF Pending
      <4>4. c.picks[u] # t
        BY <2>1, <3>1, BankAssumption
      <4>5. QED
        BY <4>1, <4>3, <4>4 DEF Payload
    <3>6. made[t] \in Pending(t)'
      BY <3>3, <3>4 DEF Pending
    <3>7. QED
      BY <2>3, <3>1, <3>2, <3>5, <3>6 DEF LineTies
  <2>10. ASSUME NEW x \in (A \cap Targets) \ contended PROVE PromisedOnce(x)'
    <3>1. PICK t \in DOMAIN c.picks : x = c.picks[t]
      BY <2>7
    <3>2. Pending(x) = {}
      BY <2>1, <3>1 DEF IsFresh, LinesFresh
    <3>3. \A p \in Pending(x)' : p = made[t]
      <4> TAKE p \in Pending(x)'
      <4>1. p \in Props /\ proposal'[p] = "pending_approval" /\ x \in {payload'[p].txn, payload'[p].target}
        BY DEF Pending
      <4>2. PICK u \in DOMAIN c.picks : made[u] = p /\ payload'[p] = Payload(u, c.picks[u])
        BY <2>4, <3>2, <4>1 DEF Pending
      <4>3. u # x
        BY <2>1, <2>10, BankAssumption
      <4>4. c.picks[u] = c.picks[t]
        BY <3>1, <4>1, <4>2, <4>3 DEF Payload
      <4>5. QED
        BY <2>1, <4>2, <4>4 DEF IsFresh, LinesFresh
    <3>4. QED
      BY <3>3 DEF PromisedOnce
  <2>11. \A i \in (A \cap Items) \ contended : PaidOnce(i)'
    BY <1>0, <2>3 DEF Ties, PaidOnce
  <2>12. QED
    BY <2>1, <2>8, <2>9, <2>10, <2>11, CommitTies
<1>6. ASSUME NEW s \in Sessions, PayRunCommits(s) PROVE UInv'
  <2>0. PICK c, B : c = call[s] /\ B = call[s].bills
    OBVIOUS
  <2>1. /\ s \in Open /\ c.op = "payrun" /\ Ends(s) /\ B \in SUBSET Bills
        /\ About(call[s]) = B /\ Settle(B)
        /\ UNCHANGED <<proposal, txn, payload, booked>>
    BY <1>0, <1>6, <2>0, CallKinds DEF PayRunCommits, At, About, Open
  <2>2. \A i \in Items : IF i \in B THEN item'[i] = "settled" /\ payments'[i] = payments[i] + 1
                                    ELSE item'[i] = item[i] /\ payments'[i] = payments[i]
    BY <2>1 DEF Settle
  <2>3. WritesOnly(c, B)
    BY <2>1, <2>2 DEF WritesOnly
  <2>4. \A i \in (B \cap Items) \ contended : PaidOnce(i)'
    <3>1. \A i \in B \ contended : item[i] = "open"
      BY <1>0, <2>0, <2>1 DEF Fresh, IsFresh, BillsFresh
    <3>2. QED
      BY <1>0, <2>2, <3>1 DEF Ties, PaidOnce
  <2>5. \A x \in (B \cap Targets) \ contended : PromisedOnce(x)'
    BY <1>0, <2>1 DEF Ties, PromisedOnce, Pending
  <2>6. \A t \in (B \cap Txns) \ contended : LineTies(t)'
    BY <1>0, <2>1 DEF Ties, LineTies, Pending
  <2>7. QED
    BY <2>0, <2>1, <2>3, <2>4, <2>5, <2>6, CommitTies
<1>7. ASSUME NEW s \in Sessions, PostReads(s) PROVE UInv'
  <2>0. PICK c, p, x, t : /\ c = [call[s] EXCEPT !.op = "posting"] /\ p = call[s].on
                          /\ x = payload[p].target /\ t = payload[p].txn
    OBVIOUS
  <2>1. /\ call[s] \in Decision /\ call[s].op = "approve" /\ s \in Open /\ x \in Targets
        /\ IF x \in Runs THEN Uncleared(x) = Worth[t] ELSE item[x] = "open"
        /\ call' = [call EXCEPT ![s] = c]
        /\ UNCHANGED <<proposal, contended, txn, item, payload, payments, booked>>
    BY <1>0, <1>7, <2>0, CallKinds DEF PostReads, At, bankVars, Open, Joins
  <2>2. c.op = "posting" /\ c.on = p
    BY <2>0, <2>1 DEF Decision
  <2>3. /\ Open' \subseteq Open /\ call'[s] = c /\ \A r \in Open \ {s} : call'[r] = call[r]
        /\ About(c) = About(call[s]) /\ \A d : About(d)' = About(d)
    BY <1>0, <2>0, <2>1, <2>2 DEF Open, About
  <2>4. OneHolder'
    BY <1>0, <2>1, <2>3 DEF OneHolder
  <2>5. \A d : IsFresh(d) => IsFresh(d)'
    BY <2>1 DEF IsFresh, LinesFresh, BillsFresh, DecisionFresh, Pending
  <2>6. IsFresh(c)
    <3>1. DecisionFresh(call[s])
      BY <1>0, <2>1 DEF Fresh, IsFresh
    <3>2. /\ t \notin contended => txn[t] = "matched"
          /\ {t, x} \subseteq contended \/ proposal[p] = "pending_approval"
      BY <2>0, <2>1, <3>1 DEF DecisionFresh
    <3>3. x \in Items => x \notin Runs
      BY BankAssumption
    <3>4. DecisionFresh(c)
      BY <2>0, <2>1, <2>2, <3>2, <3>3 DEF DecisionFresh
    <3>5. QED
      BY <2>2, <3>4 DEF IsFresh, LinesFresh, BillsFresh
  <2>7. Fresh'
    BY <1>0, <2>2, <2>3, <2>5, <2>6 DEF Fresh
  <2>8. Imported' /\ Ties'
    BY <1>0, <2>1 DEF Imported, Ties, LineTies, PromisedOnce, PaidOnce, Pending
  <2>9. QED
    BY <2>4, <2>7, <2>8 DEF UInv
<1>8. ASSUME NEW s \in Sessions, PostCommits(s) PROVE UInv'
  <2>0. PICK c, p, x, t : /\ c = call[s] /\ p = call[s].on
                          /\ x = payload[p].target /\ t = payload[p].txn
    OBVIOUS
  <2>1. /\ s \in Open /\ c.op = "posting" /\ p \in Props /\ proposal[p] # "none"
        /\ x \in Targets /\ t \in Txns /\ About(call[s]) = {t, x} /\ DecisionFresh(c)
    BY <1>0, <1>8, <2>0, CallKinds DEF PostCommits, At, Joins, Open, About, Fresh, IsFresh
  <2>2. /\ IF x \in Runs THEN Clears(x) ELSE Pays(t, x)
        /\ proposal' = [proposal EXCEPT ![p] = "posted"]
        /\ txn' = [txn EXCEPT ![t] = "reconciled"]
        /\ booked' = [booked EXCEPT ![t] = @ + 1]
        /\ Ends(s) /\ UNCHANGED payload
    BY <1>8, <2>0 DEF PostCommits, IsPosted
  <2>3. txn[t] # "none"
    BY <1>0, <2>0, <2>1 DEF Imported
  <2>4. \A i \in Items : IF i = x THEN item'[i] = "settled" /\ payments'[i] = payments[i] + 1
                                  ELSE item'[i] = item[i] /\ payments'[i] = payments[i]
    <3>1. CASE x \in Runs
      BY <2>2, <3>1, BankAssumption DEF Clears
    <3>2. CASE x \notin Runs
      BY <2>2, <3>2 DEF Pays, Settle
    <3>3. QED
      BY <3>1, <3>2
  <2>5. /\ proposal'[p] = "posted" /\ \A q \in Props \ {p} : proposal'[q] = proposal[q]
        /\ txn'[t] = "reconciled" /\ booked'[t] = booked[t] + 1 /\ booked[t] \in Nat
        /\ \A u \in Txns \ {t} : txn'[u] = txn[u] /\ booked'[u] = booked[u]
    BY <1>0, <2>1, <2>2 DEF TypeOK
  <2>6. WritesOnly(c, {t, x})
    BY <2>0, <2>1, <2>2, <2>3, <2>4, <2>5 DEF WritesOnly
  <2>7. \A y \in {t, x} : Pending(y)' \subseteq Pending(y) \ {p}
    BY <2>2, <2>5 DEF Pending
  <2>8. t \notin contended => LineTies(t)'
    <3>1. t \notin contended => txn[t] = "matched" /\ p \in Pending(t)
      BY <2>0, <2>1 DEF DecisionFresh, Pending
    <3>2. t \notin contended => booked[t] = 0 /\ Pending(t)' = {}
      BY <1>0, <2>1, <2>7, <3>1 DEF Ties, LineTies
    <3>3. QED
      BY <2>5, <3>2 DEF LineTies
  <2>9. x \notin contended => PromisedOnce(x)'
    BY <1>0, <2>1, <2>7 DEF Ties, PromisedOnce
  <2>10. x \in Items \ contended => PaidOnce(x)'
    BY <1>0, <2>0, <2>1, <2>4 DEF DecisionFresh, Ties, PaidOnce
  <2>11. t \notin Targets /\ x \notin Txns
    BY <2>1, BankAssumption
  <2>12. t \notin Items
    BY <2>11 DEF Targets
  <2>13. QED
    BY <2>0, <2>1, <2>2, <2>6, <2>8, <2>9, <2>10, <2>11, <2>12, CommitTies
<1>9. ASSUME NEW s \in Sessions, RejectCommits(s) PROVE UInv'
  <2>0. PICK c, p, x, t : /\ c = call[s] /\ p = call[s].on
                          /\ x = payload[p].target /\ t = payload[p].txn
    OBVIOUS
  <2>1. /\ s \in Open /\ c.op = "reject" /\ p \in Props /\ proposal[p] # "none"
        /\ x \in Targets /\ t \in Txns /\ About(call[s]) = {t, x} /\ DecisionFresh(c)
    BY <1>0, <1>9, <2>0, CallKinds DEF RejectCommits, At, Joins, Open, About, Fresh, IsFresh
  <2>2. /\ proposal' = [proposal EXCEPT ![p] = "rejected"]
        /\ txn' = [txn EXCEPT ![t] = IF @ = "matched" THEN "unmatched" ELSE @]
        /\ Ends(s) /\ UNCHANGED <<item, payload, payments, booked>>
    BY <1>9, <2>0 DEF RejectCommits, IsRejected
  <2>3. txn[t] # "none"
    BY <1>0, <2>0, <2>1 DEF Imported
  <2>4. /\ proposal'[p] = "rejected" /\ \A q \in Props \ {p} : proposal'[q] = proposal[q]
        /\ txn'[t] = IF txn[t] = "matched" THEN "unmatched" ELSE txn[t]
        /\ \A u \in Txns \ {t} : txn'[u] = txn[u]
    BY <1>0, <2>1, <2>2 DEF TypeOK
  <2>5. WritesOnly(c, {t, x})
    <3>1. \A u \in Txns : (txn'[u] = "none" <=> txn[u] = "none") /\ booked'[u] = booked[u]
      BY <2>2, <2>3, <2>4
    <3>2. payload'[p].txn \in {t, x} \cap Txns /\ payload'[p].target \in {t, x} \cap Targets
      BY <2>0, <2>1, <2>2
    <3>3. QED
      BY <2>1, <2>2, <2>4, <3>1, <3>2 DEF WritesOnly
  <2>6. \A y \in {t, x} : Pending(y)' \subseteq Pending(y) \ {p}
    BY <2>2, <2>4 DEF Pending
  <2>7. t \notin contended => LineTies(t)'
    <3>1. t \notin contended => txn[t] = "matched" /\ p \in Pending(t)
      BY <2>0, <2>1 DEF DecisionFresh, Pending
    <3>2. t \notin contended => booked[t] = 0 /\ Pending(t)' = {}
      BY <1>0, <2>1, <2>6, <3>1 DEF Ties, LineTies
    <3>3. QED
      BY <2>2, <2>4, <3>1, <3>2 DEF LineTies
  <2>8. x \notin contended => PromisedOnce(x)'
    BY <1>0, <2>1, <2>6 DEF Ties, PromisedOnce
  <2>9. \A i \in Items \ contended : PaidOnce(i)'
    BY <1>0, <2>2 DEF Ties, PaidOnce
  <2>10. t \notin Targets /\ x \notin Txns
    BY <2>1, BankAssumption
  <2>11. QED
    BY <2>0, <2>1, <2>2, <2>5, <2>7, <2>8, <2>9, <2>10, CommitTies
<1>10. ASSUME NEW s \in Sessions, RollsBack(s) PROVE UInv'
  <2>0. PICK c, A : c = call[s] /\ A = About(call[s])
    OBVIOUS
  <2>1. /\ s \in Open /\ Ends(s)
        /\ UNCHANGED <<proposal, txn, item, payload, payments, booked>>
    BY <1>10 DEF RollsBack, bankVars, Open
  <2>2. WritesOnly(c, A)
    BY <2>1 DEF WritesOnly
  <2>3. /\ \A t \in Txns \ contended : LineTies(t)'
        /\ \A x \in Targets \ contended : PromisedOnce(x)'
        /\ \A i \in Items \ contended : PaidOnce(i)'
    BY <1>0, <2>1 DEF Ties, LineTies, PromisedOnce, PaidOnce, Pending
  <2>4. QED
    BY <2>0, <2>1, <2>2, <2>3, CommitTies
<1>11. CASE UNCHANGED vars
  <2>1. UNCHANGED <<proposal, call, contended, txn, item, payload, payments, booked>>
    BY <1>11 DEF vars, bankVars
  <2>2. OneHolder' /\ Imported'
    BY <1>0, <2>1 DEF OneHolder, Imported, Open, About
  <2>3. Fresh'
    BY <1>0, <2>1 DEF Fresh, IsFresh, LinesFresh, BillsFresh, DecisionFresh, Open, Pending
  <2>4. Ties'
    BY <1>0, <2>1 DEF Ties, LineTies, PromisedOnce, PaidOnce, Pending
  <2>5. QED
    BY <2>2, <2>3, <2>4 DEF UInv
<1>12. QED
  BY <1>1, <1>2, <1>3, <1>4, <1>5, <1>6, <1>7, <1>8, <1>9, <1>10, <1>11 DEF Next

LEMMA UncontendedAlways == Spec => []UInv
<1>1. Init => UInv
  BY BankAssumption DEF Init, ProposalsInit, UInv, OneHolder, Fresh, Imported, Ties, LineTies, PromisedOnce,
     PaidOnce, Pending, Open
<1>2. QED
  BY <1>1, InitIInv, StepKeeps, UncontendedStep, PTL DEF Spec

\* match.ts: what no two calls had in hand at once waits for one decision at
\* a time, a transaction just as long as it is matched.
THEOREM MatchesAreClaimedOnce == Spec => []ClaimedOnce
<1>1. UInv => ClaimedOnce
  <2> SUFFICES ASSUME UInv PROVE ClaimedOnce
    OBVIOUS
  <2>0. Ties
    BY DEF UInv
  <2>1. ASSUME NEW t \in Txns \ contended
        PROVE  Cardinality(Pending(t)) = IF txn[t] = "matched" THEN 1 ELSE 0
    <3>1. CASE txn[t] = "matched"
      <4>1. PICK p : Pending(t) = {p}
        BY <2>0, <3>1 DEF Ties, LineTies
      <4>2. QED
        BY <3>1, <4>1, FS_Singleton
    <3>2. CASE txn[t] # "matched"
      <4>1. Pending(t) = {}
        BY <2>0, <3>2 DEF Ties, LineTies
      <4>2. QED
        BY <3>2, <4>1, FS_EmptySet
    <3>3. QED
      BY <3>1, <3>2
  <2>2. ASSUME NEW x \in Targets \ contended PROVE Cardinality(Pending(x)) <= 1
    <3>1. Pending(x) = {} \/ \E p : Pending(x) = {p}
      BY <2>0 DEF Ties, PromisedOnce
    <3>2. QED
      BY <3>1, FS_EmptySet, FS_Singleton
  <2>3. QED
    BY <2>1, <2>2 DEF ClaimedOnce
<1>2. QED
  BY <1>1, UncontendedAlways, PTL

\* The bank account ties to the statement on what no two calls had in hand at
\* once: booked once when reconciled, paid once when settled.
THEOREM StatementTies == Spec => []BankTiesToStatement
<1>1. UInv => BankTiesToStatement
  BY DEF UInv, Ties, LineTies, PaidOnce, BankTiesToStatement
<1>2. QED
  BY <1>1, UncontendedAlways, PTL
=============================================================================
