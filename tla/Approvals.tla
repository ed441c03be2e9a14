----------------------------- MODULE Approvals ------------------------------
(***************************************************************************)
(* The approval queue over what proposals post: bills and vendor credit    *)
(* notes (src/payables/bills.ts, credit-notes.ts) and captured documents   *)
(* (src/intake, src/documents) wait for their posting proposal to be       *)
(* decided (src/proposals, src/api/handlers.ts).  A document and its       *)
(* proposal are created together and known by the same value here.  A      *)
(* recurring_invoice proposal issues and posts its invoice                 *)
(* (src/recurring/post-approved.ts); a task (or a declaration, a sales     *)
(* list) has no ledger effect.                                             *)
(***************************************************************************)
EXTENDS Proposals

CONSTANTS
  Bills, CreditNotes, Captures, RecurringInvoices, Tasks   \* what proposals stand for

ASSUME ApprovalsAssumption ==
  /\ Props = Bills \cup CreditNotes \cup Captures \cup RecurringInvoices \cup Tasks
  /\ Bills \cap CreditNotes = {}
  /\ Captures \cap (Bills \cup CreditNotes) = {}
  /\ (Bills \cup CreditNotes \cup Captures \cup RecurringInvoices) \cap Tasks = {}

VARIABLE
  document   \* bills.status, vendor_credit_notes.status, documents.status;
             \* "none" for others

approvalVars == <<proposal, entries, call, contended, document>>

DocumentStatuses == {"none", "awaiting_approval", "open", "applied", "void",
                     "extracted", "needs_review", "posted"}

ApprovalsInit ==
  /\ ProposalsInit
  /\ document = [p \in Props |-> "none"]

-----------------------------------------------------------------------------
\* Mutant of Create: bills are open at once.
CreateOpen(p) ==
  /\ proposal[p] = "none"
  /\ Creates(p)
  /\ document' = [document EXCEPT ![p] = IF p \in Bills THEN "open" ELSE "none"]
  /\ UNCHANGED <<entries, call, contended>>

\* createBill, createVendorCreditNote; the other proposals stand alone.
Create(p) ==
  /\ p \notin Captures
  /\ proposal[p] = "none"
  /\ Creates(p)
  /\ document' = [document EXCEPT ![p] =
       IF p \in Bills \cup CreditNotes THEN "awaiting_approval" ELSE "none"]
  /\ UNCHANGED <<entries, call, contended>>

\* Mutant of runIntake: a document that needs review is suggested too.
runIntakeTrusting(p) ==
  /\ p \in Captures
  /\ proposal[p] = "none"
  /\ \E needsReview, auto \in BOOLEAN :
       /\ proposal' = [proposal EXCEPT ![p] =
            IF auto THEN "suggested" ELSE "pending_approval"]
       /\ document' = [document EXCEPT ![p] =
            IF needsReview THEN "needs_review" ELSE "extracted"]
  /\ UNCHANGED <<entries, call, contended>>

\* The capture handler: createDocument and runIntake, in one transaction.  What
\* the extractor makes of the document may need review; resolveAutonomy, from
\* the policy and the amount, says auto or approval.
runIntake(p) ==
  /\ p \in Captures
  /\ proposal[p] = "none"
  /\ \E needsReview, auto \in BOOLEAN :
       /\ proposal' = [proposal EXCEPT ![p] =
            IF needsReview \/ ~auto THEN "pending_approval" ELSE "suggested"]
       /\ document' = [document EXCEPT ![p] =
            IF needsReview THEN "needs_review" ELSE "extracted"]
  /\ UNCHANGED <<entries, call, contended>>

\* The call that begins finds others open on the same document.
QueueContends(s) ==
  contended' = contended \cup ({call'[s].on} \cap {call[r].on : r \in Open})

\* The row lock voidBill holds on the bill until it commits.
BillLocked(p) == \E r \in Sessions : At(r, "voiding") /\ call[r].on = p

\* submitForApproval.
SubmitForApprovalReads(s) ==
  /\ ReadsStatus(s, "submit", "suggested")
  /\ QueueContends(s)
  /\ UNCHANGED document

SubmitForApprovalCommits(s) ==
  /\ At(s, "submit")
  /\ proposal' = [proposal EXCEPT ![call[s].on] = "pending_approval"]
  /\ Ends(s)
  /\ UNCHANGED <<entries, document>>

\* approveHandler: approveProposal, then the poster for the type.
ApproveHandlerReads(s) == ReadsPending(s, "approve") /\ QueueContends(s) /\ UNCHANGED document

ApproveHandlerCommits(s) ==
  LET p == call[s].on IN
  /\ At(s, "approve")
  /\ IF p \in Tasks
       THEN /\ proposal' = [proposal EXCEPT ![p] = "approved"]
            /\ UNCHANGED <<entries, document>>
       ELSE /\ IsPosted(p)
            /\ ~BillLocked(p)
            /\ document' = [document EXCEPT ![p] =
                 IF p \in Captures THEN "posted"
                 ELSE IF @ # "awaiting_approval" THEN @
                 ELSE IF p \in Bills THEN "open" ELSE "applied"]
  /\ Ends(s)

\* rejectHandler: no statement of it touches any of these documents.
RejectHandlerReads(s) == ReadsPending(s, "reject") /\ QueueContends(s) /\ UNCHANGED document

RejectHandlerCommits(s) ==
  /\ At(s, "reject")
  /\ IsRejected(call[s].on)
  /\ Ends(s)
  /\ UNCHANGED document

\* voidBill reads the bill, ...
VoidReads(s) ==
  /\ \E p \in Bills :
       /\ document[p] = "awaiting_approval"
       /\ Begins(s, [op |-> "void", on |-> p])
  /\ QueueContends(s)
  /\ UNCHANGED <<proposal, entries, document>>

\* Mutant of VoidUpdates: the proposal's status is not looked at.
VoidUpdatesAnyway(s) ==
  /\ At(s, "void")
  /\ ~BillLocked(call[s].on)
  /\ call' = [call EXCEPT ![s].op = "voiding"]
  /\ UNCHANGED <<proposal, entries, contended, document>>

\* ... updates it, which locks it, and has rejectProposal read the proposal,
\* which throws unless that is pending, ...
VoidUpdates(s) ==
  /\ At(s, "void")
  /\ ~BillLocked(call[s].on)
  /\ proposal[call[s].on] = "pending_approval"
  /\ call' = [call EXCEPT ![s].op = "voiding"]
  /\ UNCHANGED <<proposal, entries, contended, document>>

\* Mutant of VoidCommits: the proposal stays pending.
VoidCommitsAlone(s) ==
  /\ At(s, "voiding")
  /\ document' = [document EXCEPT ![call[s].on] = "void"]
  /\ Ends(s)
  /\ UNCHANGED <<proposal, entries>>

\* ... rejects it and commits.
VoidCommits(s) ==
  /\ At(s, "voiding")
  /\ document' = [document EXCEPT ![call[s].on] = "void"]
  /\ IsRejected(call[s].on)
  /\ Ends(s)

\* A check throws, the period is closed, two transactions deadlock.
QueueRollsBack(s) ==
  /\ call[s] # Nothing
  /\ Ends(s)
  /\ UNCHANGED <<proposal, entries, document>>

ApprovalsNext ==
  \/ \E p \in Props : Create(p) \/ runIntake(p)
  \/ \E s \in Sessions :
       \/ SubmitForApprovalReads(s) \/ SubmitForApprovalCommits(s)
       \/ ApproveHandlerReads(s) \/ ApproveHandlerCommits(s)
       \/ RejectHandlerReads(s) \/ RejectHandlerCommits(s)
       \/ VoidReads(s) \/ VoidUpdates(s) \/ VoidCommits(s)
       \/ QueueRollsBack(s)

ApprovalsSpec == ApprovalsInit /\ [][ApprovalsNext]_approvalVars

-----------------------------------------------------------------------------
ApprovalsTypeOK ==
  /\ proposal \in [Props -> ProposalStatuses]
  /\ entries \in [Props -> Nat]
  /\ document \in [Props -> DocumentStatuses]
  /\ call \in [Sessions -> [op : {"submit", "approve", "reject"}, on : Props]
                      \cup [op : {"void", "voiding"}, on : Bills] \cup {Nothing}]
  /\ contended \subseteq Props

\* However decisions overlap, a bill that can be paid, a credit note that
\* counts, or a captured document marked posted, has been posted to the ledger.
OpenIsPosted ==
  \A p \in Props : document[p] \in {"open", "applied", "posted"} => entries[p] >= 1

\* And what has been decided never moves again here: a bill that a payment may
\* rely on is not voided by a call that read it earlier, nor a void bill
\* opened.
SettledDocuments ==
  [][\A p \in Props : document[p] \in {"open", "applied", "void", "posted"}
                        => document'[p] = document[p]]_approvalVars

\* What no two transactions had in hand at once is posted to the ledger once
\* when its proposal is posted, and not at all otherwise, ...
OneEntryPerPosting ==
  \A p \in Props \ contended : entries[p] = IF proposal[p] = "posted" THEN 1 ELSE 0

\* ... and its document tells how its proposal was decided: payable when
\* posted, void only if rejected.  Awaiting may also mean rejected: nothing in
\* rejectHandler moves the document on, and voidBill then throws for good.  A
\* captured document that needs review is posted only when somebody decided.
DocumentFollowsProposal ==
  /\ \A p \in (Bills \cup CreditNotes) \ contended :
       /\ document[p] \in {"open", "applied"} <=> proposal[p] = "posted"
       /\ document[p] = "void" => proposal[p] = "rejected"
       /\ document[p] = "awaiting_approval" => proposal[p] \in {"pending_approval", "rejected"}
  /\ \A p \in Captures \ contended :
       /\ document[p] = "posted" <=> proposal[p] = "posted"
       /\ document[p] = "needs_review" => proposal[p] \in {"pending_approval", "rejected"}

\* headless-gaps design: "Double-approve is already guarded ... so a repeated
\* approve cannot double-send".
DoubleApproveIsGuarded == \A p \in Props : entries[p] <= 1
=============================================================================
