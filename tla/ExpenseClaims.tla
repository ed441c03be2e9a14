--------------------------- MODULE ExpenseClaims ---------------------------
(***************************************************************************)
(* Employees' expense claims: saveClaim, submitClaim, deleteDraft, the     *)
(* decision on the proposal a submission creates, and settleClaim          *)
(* (src/expenses/{claims,submit,reimburse}.ts, with post-proposal.ts and   *)
(* rejectProposal), and the settlement account they book on: what the      *)
(* client owes its employees.                                              *)
(*                                                                         *)
(* Each call reads the claim in one step and writes by id in a later one,  *)
(* whatever the claim's status is by then, or whether it still exists.     *)
(***************************************************************************)
EXTENDS Proposals, Integers

CONSTANTS
  Claims,     \* expense claims
  BankTxns,   \* bank transactions that may reimburse one
  Totals      \* totals a claim may have, in cents

ASSUME ClaimsAssumption ==
  /\ Totals \subseteq Nat
  /\ Nothing \notin Claims \cup BankTxns

VARIABLES
  claim,       \* the claims' rows
  source,      \* per proposal, the claim and the amount in its payload
  owed         \* per claim, what its entries leave on the settlement
               \* account: credits less debits

claimVars == <<claim, source, owed>>
vars      == <<proposal, entries, call, contended, claimVars>>

Rows == [status : {"none", "draft", "submitted", "approved", "reimbursed", "deleted"},
         total : Nat, prop : Props \cup {Nothing}, txn : BankTxns \cup {Nothing}]
Payloads == [claim : Claims \cup {Nothing}, amount : Nat]

Init ==
  /\ ProposalsInit
  /\ claim = [c \in Claims |->
       [status |-> "none", total |-> 0, prop |-> Nothing, txn |-> Nothing]]
  /\ source = [p \in Props |-> [claim |-> Nothing, amount |-> 0]]
  /\ owed = [c \in Claims |-> 0]

Exists(c) == claim[c].status \notin {"none", "deleted"}

-----------------------------------------------------------------------------
\* saveClaim without an id: a new draft, with the total of its lines.
SaveNew(c) ==
  /\ claim[c].status = "none"
  /\ \E t \in Totals :
       claim' = [claim EXCEPT ![c].status = "draft", ![c].total = t]
  /\ UNCHANGED <<proposal, entries, call, contended, source, owed>>

\* What a call is about, and the claims on which it finds others open.
ClaimOf(c) == IF c.op \in {"approve", "reject"} THEN source[c.on].claim ELSE c.on

Contends(s) ==
  contended' = contended \cup
    ({ClaimOf(call'[s])} \cap {ClaimOf(call[r]) : r \in Open})

\* The read of a call on an existing claim, with the status it requires.
ReadsClaim(s, op, status) ==
  /\ \E c \in Claims :
       /\ claim[c].status = status
       /\ Begins(s, [op |-> op, on |-> c, total |-> claim[c].total])
  /\ Contends(s)
  /\ UNCHANGED <<proposal, entries, claimVars>>

\* saveClaim with an id: only drafts, as read; new lines and total.  For a
\* claim deleted meanwhile the new lines find no row and it throws.
SaveReads(s) == ReadsClaim(s, "save", "draft")

SaveCommits(s) ==
  /\ At(s, "save") /\ Exists(call[s].on)
  /\ \E t \in Totals : claim' = [claim EXCEPT ![call[s].on].total = t]
  /\ Ends(s)
  /\ UNCHANGED <<proposal, entries, source, owed>>

\* deleteDraft.
DeleteReads(s) == ReadsClaim(s, "delete", "draft")

DeleteCommits(s) ==
  /\ At(s, "delete")
  /\ claim' = [claim EXCEPT ![call[s].on].status = "deleted"]
  /\ Ends(s)
  /\ UNCHANGED <<proposal, entries, source, owed>>

\* submitClaim: a proposal for the total it has read, and the claim.
SubmitReads(s) ==
  ReadsClaim(s, "submit", "draft") /\ call'[s].total > 0

SubmitCommits(s) ==
  LET c == call[s].on IN
  /\ At(s, "submit")
  /\ \E p \in Props :
       /\ proposal[p] = "none"
       /\ Creates(p)
       /\ source' = [source EXCEPT ![p] = [claim |-> c, amount |-> call[s].total]]
       /\ claim' = IF Exists(c)
                     THEN [claim EXCEPT ![c].status = "submitted", ![c].prop = p]
                     ELSE claim
  /\ Ends(s)
  /\ UNCHANGED <<entries, owed>>

\* The claim a decision on p moves: the one that still points to p and is
\* still submitted.
Moves(p, status, prop) ==
  claim' = [c \in Claims |->
    IF claim[c].prop = p /\ claim[c].status = "submitted"
      THEN [claim[c] EXCEPT !.status = status, !.prop = prop] ELSE claim[c]]

\* approveHandler: the payload's entry credits the settlement account.
ApproveReads(s) == ReadsPending(s, "approve") /\ Contends(s) /\ UNCHANGED claimVars

\* Mutant of ApproveCommits: no poster for the proposal's type.
ApproveCommitsOnly(s) ==
  LET p == call[s].on IN
  /\ At(s, "approve")
  /\ proposal' = [proposal EXCEPT ![p] = "approved"]
  /\ Moves(p, "approved", p)
  /\ Ends(s)
  /\ UNCHANGED <<entries, source, owed>>

ApproveCommits(s) ==
  LET p == call[s].on IN
  /\ At(s, "approve")
  /\ IsPosted(p)
  /\ owed' = [owed EXCEPT ![source[p].claim] = @ + source[p].amount]
  /\ Moves(p, "approved", p)
  /\ Ends(s)
  /\ UNCHANGED source

\* rejectHandler: the claim goes back to draft.
RejectReads(s) == ReadsPending(s, "reject") /\ Contends(s) /\ UNCHANGED claimVars

\* Mutant of RejectCommits: the claim keeps its status.
RejectCommitsOnly(s) ==
  /\ At(s, "reject")
  /\ IsRejected(call[s].on)
  /\ Ends(s)
  /\ UNCHANGED claimVars

RejectCommits(s) ==
  /\ At(s, "reject")
  /\ IsRejected(call[s].on)
  /\ Moves(call[s].on, "draft", Nothing)
  /\ Ends(s)
  /\ UNCHANGED <<source, owed>>

\* Mutant of SettleReads: reimbursed claims too.
SettleReadsAgain(s) ==
  \E st \in {"approved", "reimbursed"} : ReadsClaim(s, "settle", st)

\* settleClaim, by hand or from an approved bank match: an approved claim as
\* read; the unique index on the bank transaction backs its dedup query.
SettleReads(s) == ReadsClaim(s, "settle", "approved")

SettleCommits(s) ==
  LET c == call[s].on IN
  /\ At(s, "settle")
  /\ owed' = [owed EXCEPT ![c] = @ - call[s].total]
  /\ \E t \in BankTxns \cup {Nothing} :
       /\ t # Nothing => \A d \in Claims \ {c} : claim[d].txn # t
       /\ claim' = IF Exists(c)
                     THEN [claim EXCEPT ![c].status = "reimbursed", ![c].txn = t]
                     ELSE claim
  /\ Ends(s)
  /\ UNCHANGED <<proposal, entries, source>>

\* A check throws, or the period is closed.
RollsBack(s) ==
  /\ call[s] # Nothing
  /\ Ends(s)
  /\ UNCHANGED <<proposal, entries, claimVars>>

Next ==
  \/ \E c \in Claims : SaveNew(c)
  \/ \E s \in Sessions :
       \/ SaveReads(s) \/ SaveCommits(s) \/ DeleteReads(s) \/ DeleteCommits(s)
       \/ SubmitReads(s) \/ SubmitCommits(s)
       \/ ApproveReads(s) \/ ApproveCommits(s)
       \/ RejectReads(s) \/ RejectCommits(s)
       \/ SettleReads(s) \/ SettleCommits(s)
       \/ RollsBack(s)

Spec == Init /\ [][Next]_vars

-----------------------------------------------------------------------------
TypeOK ==
  /\ proposal \in [Props -> ProposalStatuses]
  /\ entries \in [Props -> Nat]
  /\ call \in [Sessions -> [op : {"approve", "reject"}, on : Props] \cup {Nothing}
       \cup [op : {"save", "delete", "submit", "settle"}, on : Claims, total : Nat]]
  /\ contended \subseteq Claims
  /\ claim \in [Claims -> Rows]
  /\ source \in [Props -> Payloads]
  /\ owed \in [Claims -> Int]

\* However calls interleave, an approved claim has been posted.
ApprovedIsPosted ==
  \A c \in Claims : claim[c].status = "approved" =>
    claim[c].prop # Nothing /\ entries[claim[c].prop] >= 1

\* The settlement account owes an employee what the approved claim says and
\* nothing before or after: what was booked at approval is the claim's total
\* and is cleared once, on every claim that no two calls had in hand at once.
OwedToEmployees ==
  \A c \in Claims \ contended :
    owed[c] = IF claim[c].status = "approved" THEN claim[c].total ELSE 0

\* On such a claim, a proposal that waits for a decision is the one the claim
\* points to, for the claim's total, and a submitted claim has one.
SubmittedAwaits ==
  /\ \A p \in Props : proposal[p] = "pending_approval" /\ source[p].claim \notin contended =>
       LET c == source[p].claim IN
       /\ claim[c].status = "submitted" /\ claim[c].prop = p
       /\ claim[c].total = source[p].amount
  /\ \A c \in Claims \ contended : claim[c].status = "submitted" =>
       claim[c].prop # Nothing /\ proposal[claim[c].prop] = "pending_approval"
=============================================================================
