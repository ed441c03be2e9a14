---------------------------- MODULE BankMatching ----------------------------
(***************************************************************************)
(* Bank transactions and what they settle: importStatement, the three      *)
(* proposers and postApprovedBankMatch (src/banking/{import,match,         *)
(* confirm-match}.ts), settleBill and createPayRun (src/payables/          *)
(* {settlement,pay-run}.ts), and the decision on a bank_match proposal     *)
(* (src/proposals/lifecycle.ts, src/api/handlers.ts).                      *)
(*                                                                         *)
(* Every amount settled here is the whole outstanding amount of its item,  *)
(* so an item is open or settled; partial payments are in Receivables.     *)
(* The SELECTs of one proposer run, or of one pay run, are one step, and   *)
(* what is computed from them is written and committed in a later one.     *)
(***************************************************************************)
EXTENDS Proposals, Integers, FiniteSetsExt

CONSTANTS
  Bills, Claims, Invoices,  \* open items: payables, expense claims, receivables
  Runs,       \* pay runs
  Txns,       \* bank transactions
  Debits,     \* those with side = debit, the others are credits
  Later,      \* items approved or sent only after the start
  Worth       \* amount_cents of a transaction, gross total of an item

Items   == Bills \cup Claims \cup Invoices
Targets == Items \cup Runs

ASSUME BankAssumption ==
  /\ Debits \subseteq Txns /\ Later \subseteq Items
  /\ Worth \in [Txns \cup Items -> Nat \ {0}]
  /\ Items \cap Runs = {} /\ Targets \cap Txns = {}
  /\ Bills \cap Claims = {} /\ (Bills \cup Claims) \cap Invoices = {}
  /\ Nothing \notin Targets \cup Txns
  /\ IsFiniteSet(Bills) /\ IsFiniteSet(Runs)

VARIABLES
  txn,       \* bank_transactions.status, "none" before its import
  item,      \* status of an open item, "none" before it can be settled
  run,       \* per pay run: its bills, and whether they are cleared
  payload,   \* per proposal: the transaction and the target it joins
  paidBy,    \* bank transactions that the payments of an item refer to
  transit,   \* balance of the bank clearing account, credits less debits
  payments,  \* history: payment rows per item
  booked     \* history: bank entries posted per transaction

bankVars == <<txn, item, run, payload, paidBy, transit, payments, booked>>
vars     == <<proposal, entries, call, contended, bankVars>>

Init ==
  /\ ProposalsInit
  /\ txn = [t \in Txns |-> "none"]
  /\ item = [i \in Items |-> IF i \in Later THEN "none" ELSE "open"]
  /\ run = [r \in Runs |-> [bills |-> {}, cleared |-> FALSE]]
  /\ payload = [p \in Props |-> [txn |-> Nothing, target |-> Nothing]]
  /\ paidBy = [i \in Items |-> {}]
  /\ transit = 0
  /\ payments = [i \in Items |-> 0]
  /\ booked = [t \in Txns |-> 0]

-----------------------------------------------------------------------------
Total(B) == SumFunctionOnSet(Worth, B)

\* The sum of a run's uncleared payments; 0 when there are none.
Uncleared(r) == IF run[r].cleared THEN 0 ELSE Total(run[r].bills)

Cost(x) == IF x \in Runs THEN Uncleared(x) ELSE Worth[x]

\* Rows a call has read and will write.
About(c) ==
  CASE c.op = "match"  -> UNION {{t, c.picks[t]} : t \in DOMAIN c.picks}
    [] c.op = "payrun" -> c.bills
    [] OTHER           -> {payload[c.on].txn, payload[c.on].target}

Contends(s) ==
  contended' = contended \cup
    ((About(call'[s]) \cap UNION {About(call[r]) : r \in Open}) \ {Nothing})

\* A bill or a claim has been approved, an invoice sent.
ItemOpens(i) ==
  /\ item[i] = "none"
  /\ item' = [item EXCEPT ![i] = "open"]
  /\ UNCHANGED <<proposal, entries, call, contended, txn, run, payload, paidBy,
                 transit, payments, booked>>

-----------------------------------------------------------------------------
\* NOT EXISTS an unresolved bank_match proposal for the target.
Unresolved == {p \in Props : proposal[p] \in {"pending_approval", "approved"}}
Claimed(x) == \E p \in Unresolved : payload[p].target = x

\* Mutant of Fits: without NOT EXISTS.
FitsAlways(t, x) ==
  /\ IF x \in Runs THEN Uncleared(x) > 0 ELSE item[x] = "open"
  /\ Cost(x) = Worth[t]
  /\ x \in Invoices <=> t \notin Debits

\* A target whose outstanding amount equals the transaction's.
Fits(t, x) ==
  /\ IF x \in Runs THEN Uncleared(x) > 0 ELSE item[x] = "open"
  /\ Cost(x) = Worth[t]
  /\ x \in Invoices <=> t \notin Debits
  /\ ~Claimed(x)

\* A debit goes to a pay run before a bill, to a bill before a claim.
Before(x, y) == (x \in Runs /\ y \notin Runs) \/ (x \in Bills /\ y \in Claims)

\* What the proposers may pick for the unmatched transactions L: no target
\* twice (the claimed sets), and none passed over that was left.
Matchings(L) ==
  {m \in [L -> Targets \cup {Nothing}] :
     /\ \A t \in L : m[t] # Nothing => Fits(t, m[t])
     /\ \A t, u \in L : t # u /\ m[t] # Nothing => m[t] # m[u]
     /\ \A t \in L, x \in Targets :
          Fits(t, x) /\ (m[t] = Nothing \/ Before(x, m[t])) =>
            x \in {m[u] : u \in L}}

Payload(t, x) == [txn |-> t, target |-> x]

\* importStatement, then the proposers on what is unmatched, in one
\* transaction.  A statement another transaction is importing makes this one
\* wait at the unique key, and is no new one then.
MatchReads(s) ==
  /\ \E N \in SUBSET {t \in Txns : txn[t] = "none" /\
                        \A r \in Open : call[r].op = "match" => t \notin call[r].new} :
       \E m \in Matchings(N \cup {t \in Txns : txn[t] = "unmatched"}) :
         LET picks == [t \in {u \in DOMAIN m : m[u] # Nothing} |-> m[t]] IN
         /\ N # {} \/ DOMAIN picks # {}
         /\ Begins(s, [op |-> "match", new |-> N, picks |-> picks])
  /\ Contends(s)
  /\ UNCHANGED <<proposal, entries, bankVars>>

\* A pending proposal per pick, by createProposal, and the transaction is
\* matched, whatever its status has become.
MatchCommits(s) ==
  LET c == call[s] IN
  /\ At(s, "match")
  /\ \E made \in [DOMAIN c.picks -> {p \in Props : proposal[p] = "none"}] :
       /\ \A t, u \in DOMAIN made : t # u => made[t] # made[u]
       /\ proposal' = [p \in Props |->
            IF \E t \in DOMAIN made : made[t] = p THEN "pending_approval" ELSE proposal[p]]
       /\ payload' = [p \in Props |->
            IF \E t \in DOMAIN made : made[t] = p
              THEN LET t == CHOOSE u \in DOMAIN made : made[u] = p
                   IN Payload(t, c.picks[t])
              ELSE payload[p]]
  /\ txn' = [t \in Txns |-> CASE t \in DOMAIN c.picks -> "matched"
                              [] t \in c.new \ DOMAIN c.picks -> "unmatched"
                              [] OTHER -> txn[t]]
  /\ Ends(s)
  /\ UNCHANGED <<entries, item, run, paidBy, transit, payments, booked>>

-----------------------------------------------------------------------------
\* settleBill, settleReceivable, settleClaim after their guards: a payment
\* row for each item, settled by id.
Settle(S) ==
  /\ item' = [i \in Items |-> IF i \in S THEN "settled" ELSE item[i]]
  /\ payments' = [i \in Items |-> IF i \in S THEN payments[i] + 1 ELSE payments[i]]

\* createPayRun: every bill is validated before any is settled.
PayRunReads(s) ==
  /\ \E B \in (SUBSET {b \in Bills : item[b] = "open"}) \ {{}} :
       Begins(s, [op |-> "payrun", bills |-> B])
  /\ Contends(s)
  /\ UNCHANGED <<proposal, entries, bankVars>>

\* The run and its payments, all or none, against the clearing account.
PayRunCommits(s) ==
  /\ At(s, "payrun")
  /\ \E r \in Runs :
       /\ run[r].bills = {}
       /\ run' = [run EXCEPT ![r].bills = call[s].bills]
  /\ Settle(call[s].bills)
  /\ transit' = transit + Total(call[s].bills)
  /\ Ends(s)
  /\ UNCHANGED <<proposal, entries, txn, payload, paidBy, booked>>

-----------------------------------------------------------------------------
ApproveReads(s) ==
  ReadsPending(s, "approve") /\ Contends(s) /\ UNCHANGED bankVars

\* The proposal row is locked from transition's UPDATE to the commit.
Locked(p) == \E r \in Open : call[r].op = "posting" /\ call[r].on = p

\* Mutant of PostReads: what the target has become is not looked at.
PostReadsUnverified(s) ==
  /\ At(s, "approve") /\ ~Locked(call[s].on)
  /\ call' = [call EXCEPT ![s].op = "posting"]
  /\ UNCHANGED <<proposal, entries, contended, bankVars>>

\* The bank transaction has paid another item of the same kind.
PaidAnother(t, x) ==
  \E K \in {Claims, Invoices} : x \in K /\ \E i \in K : t \in paidBy[i]

\* approveProposal has updated the proposal; postApprovedBankMatch reads its
\* target: a run's uncleared sum must still be the amount, an item be open,
\* and settleReceivable and settleClaim look for an earlier payment.
PostReads(s) ==
  LET p == call[s].on  x == payload[p].target IN
  /\ At(s, "approve") /\ ~Locked(p)
  /\ IF x \in Runs THEN Uncleared(x) = Worth[payload[p].txn] ELSE item[x] = "open"
  /\ ~PaidAnother(payload[p].txn, x)
  /\ call' = [call EXCEPT ![s].op = "posting"]
  /\ UNCHANGED <<proposal, entries, contended, bankVars>>

\* Mutant of Clears: rowCount is not looked at.
ClearsAgain(x) ==
  /\ run' = [run EXCEPT ![x].cleared = TRUE]
  /\ transit' = transit - Total(run[x].bills)
  /\ UNCHANGED <<item, payments, paidBy>>

\* The whole run is cleared at once; a run that another post has cleared in
\* the meantime has no uncleared row to update, and this one throws.
Clears(x) ==
  /\ ~run[x].cleared
  /\ run' = [run EXCEPT ![x].cleared = TRUE]
  /\ transit' = transit - Total(run[x].bills)
  /\ UNCHANGED <<item, payments, paidBy>>

\* A claim names one transaction, which is unique among claims; an invoice
\* has a payment row for each.
Pays(t, x) ==
  /\ x \in Claims => \A i \in Claims \ {x} : t \notin paidBy[i]
  /\ paidBy' = [paidBy EXCEPT ![x] = IF x \in Claims THEN {t} ELSE @ \cup {t}]
  /\ Settle({x})
  /\ UNCHANGED <<run, transit>>

\* DR the target's account / CR bank (or the reverse for a credit), the
\* proposal is posted and the transaction reconciled.
PostCommits(s) ==
  LET p == call[s].on  x == payload[p].target  t == payload[p].txn IN
  /\ At(s, "posting")
  /\ IF x \in Runs THEN Clears(x) ELSE Pays(t, x)
  /\ IsPosted(p)
  /\ txn' = [txn EXCEPT ![t] = "reconciled"]
  /\ booked' = [booked EXCEPT ![t] = @ + 1]
  /\ Ends(s)
  /\ UNCHANGED payload

RejectReads(s) ==
  ReadsPending(s, "reject") /\ Contends(s) /\ UNCHANGED bankVars

\* rejectProposal frees the transaction, if it is still only matched.
RejectCommits(s) ==
  LET p == call[s].on  t == payload[p].txn IN
  /\ At(s, "reject") /\ ~Locked(p)
  /\ IsRejected(p)
  /\ txn' = [txn EXCEPT ![t] = IF @ = "matched" THEN "unmatched" ELSE @]
  /\ Ends(s)
  /\ UNCHANGED <<item, run, payload, paidBy, transit, payments, booked>>

\* A guard throws, the period is closed, two transactions deadlock.
RollsBack(s) ==
  /\ call[s] # Nothing
  /\ Ends(s)
  /\ UNCHANGED <<proposal, entries, bankVars>>

Next ==
  \/ \E i \in Items : ItemOpens(i)
  \/ \E s \in Sessions :
       \/ MatchReads(s) \/ MatchCommits(s)
       \/ PayRunReads(s) \/ PayRunCommits(s)
       \/ ApproveReads(s) \/ PostReads(s) \/ PostCommits(s)
       \/ RejectReads(s) \/ RejectCommits(s)
       \/ RollsBack(s)

Spec == Init /\ [][Next]_vars

-----------------------------------------------------------------------------
\* What a match may have picked: a target for some of the transactions.
Picks == UNION {[D -> Targets] : D \in SUBSET Txns}

\* transit is a sum, which TransitIsUncleared gives.
TypeOK ==
  /\ proposal \in [Props -> ProposalStatuses]
  /\ entries \in [Props -> Nat]
  /\ txn \in [Txns -> {"none", "unmatched", "matched", "reconciled"}]
  /\ item \in [Items -> {"none", "open", "settled"}]
  /\ run \in [Runs -> [bills : SUBSET Bills, cleared : BOOLEAN]]
  /\ payload \in [Props -> [txn : Txns \cup {Nothing}, target : Targets \cup {Nothing}]]
  /\ paidBy \in [Items -> SUBSET Txns]
  /\ payments \in [Items -> Nat]
  /\ booked \in [Txns -> Nat]
  /\ contended \subseteq Txns \cup Targets
  /\ call = [s \in Sessions |-> call[s]]
  /\ \A s \in Open :
       \/ call[s] \in [op : {"approve", "posting", "reject"}, on : Props]
       \/ call[s] \in [op : {"payrun"}, bills : SUBSET Bills]
       \/ call[s] \in [op : {"match"}, new : SUBSET Txns, picks : Picks]

\* confirm-match.ts: "a run clears at most once".  The clearing account holds
\* exactly the pay runs the bank has not booked yet, however proposals for
\* one run, their decisions and new runs overlap.
TransitIsUncleared == transit = SumFunction([r \in Runs |-> Uncleared(r)])

\* match.ts: a transaction waits for one decision at a time and is matched
\* just as long, and no target is promised to two transactions, unless two
\* calls had it in hand at once.
Pending(x) ==
  {p \in Props : proposal[p] = "pending_approval" /\
                 x \in {payload[p].txn, payload[p].target}}

ClaimedOnce ==
  /\ \A t \in Txns \ contended :
       Cardinality(Pending(t)) = IF txn[t] = "matched" THEN 1 ELSE 0
  /\ \A x \in Targets \ contended : Cardinality(Pending(x)) <= 1

\* The ledger's bank account ties to the statement: a transaction is booked
\* once when it is reconciled, and an item paid once when it is settled,
\* whether by a pay run or by a match, unless two calls had it in hand.
BankTiesToStatement ==
  /\ \A t \in Txns \ contended : booked[t] = IF txn[t] = "reconciled" THEN 1 ELSE 0
  /\ \A i \in Items \ contended : payments[i] = IF item[i] = "settled" THEN 1 ELSE 0
=============================================================================
