----------------------------- MODULE Proposals ------------------------------
(***************************************************************************)
(* The life of a proposal (src/proposals/lifecycle.ts, post-proposal.ts)   *)
(* and the shape of the transactions that decide on it.  A transaction is  *)
(* READ COMMITTED and locks nothing it reads: it reads a status in one     *)
(* step, and what it then writes, by id and whatever the status is by now, *)
(* is locked from its first UPDATE to its commit, so that is one step too. *)
(*                                                                         *)
(* Modules about what proposals stand for (bills, expense claims) extend   *)
(* this one, and say in `contended' what two transactions had in hand at   *)
(* once.                                                                   *)
(***************************************************************************)
EXTENDS Naturals, FiniteSets

CONSTANTS
  Props,       \* proposals
  Sessions,    \* concurrent requests
  Nothing      \* no open transaction, no proposal

ASSUME ProposalsAssumption == Nothing \notin Props

VARIABLES
  proposal,  \* proposals.status, "none" before it is created
  entries,   \* history: journal entries posted for a proposal
  call,      \* per session, the open transaction and what it has read
  contended  \* history: what two open transactions were about at once

ProposalStatuses ==
  {"none", "suggested", "pending_approval", "approved", "rejected", "posted"}

ProposalsInit ==
  /\ proposal = [p \in Props |-> "none"]
  /\ entries = [p \in Props |-> 0]
  /\ call = [s \in Sessions |-> Nothing]
  /\ contended = {}

-----------------------------------------------------------------------------
At(s, op) == call[s] # Nothing /\ call[s].op = op

Open == {s \in Sessions : call[s] # Nothing}

Begins(s, c) ==
  /\ call[s] = Nothing
  /\ call' = [call EXCEPT ![s] = c]

Ends(s) == call' = [call EXCEPT ![s] = Nothing] /\ UNCHANGED contended

\* Mutant of ReadsPending: any status.
ReadsAny(s, op) ==
  /\ \E p \in Props : proposal[p] # "none" /\ Begins(s, [op |-> op, on |-> p])
  /\ UNCHANGED <<proposal, entries>>

\* transition's read: a submission needs suggested, ...
ReadsStatus(s, op, status) ==
  /\ \E p \in Props :
       /\ proposal[p] = status
       /\ Begins(s, [op |-> op, on |-> p])
  /\ UNCHANGED <<proposal, entries>>

\* ... approve and reject both need pending_approval.
ReadsPending(s, op) == ReadsStatus(s, op, "pending_approval")

\* createProposal, already pending_approval.
Creates(p) == proposal' = [proposal EXCEPT ![p] = "pending_approval"]

\* transition's UPDATE, and postApprovedPosting's: approved, posted to the
\* ledger and marked so, in one transaction.
IsPosted(p) ==
  /\ proposal' = [proposal EXCEPT ![p] = "posted"]
  /\ entries' = [entries EXCEPT ![p] = @ + 1]

IsRejected(p) ==
  /\ proposal' = [proposal EXCEPT ![p] = "rejected"]
  /\ UNCHANGED entries

=============================================================================
