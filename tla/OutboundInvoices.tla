-------------------------- MODULE OutboundInvoices --------------------------
(***************************************************************************)
(* An invoice or credit note that goes out, and its report to the tax      *)
(* office: sendInvoice and sendCreditNote (src/einvoice/outbound.ts),      *)
(* submitToVid and the two lists of deadlines (src/einvoice/vid.ts).       *)
(*                                                                         *)
(* Both calls go over the network inside their transaction: what went out  *)
(* stays out when the transaction is rolled back.  The entry the invoice   *)
(* posts is in Receivables and Books.                                      *)
(***************************************************************************)
EXTENDS Naturals, FiniteSets

CONSTANTS
  Outbound,      \* invoices and credit notes composed
  IssuedOn,      \* per invoice, its issue date, which is as the user says
  DaysOff,       \* weekends and public holidays
  Sessions,      \* concurrent requests
  NoRequest,     \* no open transaction, no date stored
  FinalDay,      \* bound: the clock stops at this day
  MaxSubmits     \* bound: calls of the tax office per invoice

VARIABLES
  asOf,          \* the current date
  dispatched,    \* history: what the access point has sent
  row,           \* einvoices.vid_status, "none" without a row, and vid_due_date
  accepted,      \* history: what the tax office has accepted
  unrecorded,    \* history: dispatched, then rolled back
  request,       \* per session, the open transaction
  submits        \* bound: calls of the tax office so far

vars == <<asOf, dispatched, row, accepted, unrecorded, request, submits>>

Init ==
  /\ asOf = 1
  /\ dispatched = {}
  /\ row = [o \in Outbound |-> [status |-> "none", due |-> NoRequest]]
  /\ accepted = {}
  /\ unrecorded = {}
  /\ request = [s \in Sessions |-> NoRequest]
  /\ submits = [o \in Outbound |-> 0]

-----------------------------------------------------------------------------
\* The n-th working day after a date.
addWorkingDays(date, n) ==
  CHOOSE d \in date..(date + n + Cardinality(DaysOff)) :
    d \notin DaysOff /\ Cardinality(((date + 1)..d) \ DaysOff) = n

At(s, step) == request[s] # NoRequest /\ request[s].step = step

\* Validated, posted and handed to the access point, ...
SendDispatches(s, o) ==
  /\ request[s] = NoRequest
  /\ o \notin dispatched
  /\ dispatched' = dispatched \cup {o}
  /\ request' = [request EXCEPT ![s] = [step |-> "sent", on |-> o]]
  /\ UNCHANGED <<asOf, row, accepted, unrecorded, submits>>

\* ... then recorded.
SendCommits(s) ==
  /\ At(s, "sent")
  /\ row' = [row EXCEPT ![request[s].on].status = "pending"]
  /\ request' = [request EXCEPT ![s] = NoRequest]
  /\ UNCHANGED <<asOf, dispatched, accepted, unrecorded, submits>>

\* submitToVid reads the row, whatever its status, ...
SubmitReads(s, o) ==
  /\ request[s] = NoRequest
  /\ row[o].status # "none"
  /\ request' = [request EXCEPT ![s] = [step |-> "submit", on |-> o]]
  /\ UNCHANGED <<asOf, dispatched, row, accepted, unrecorded, submits>>

\* ... calls the office, which accepts or refuses, its answer arriving or not, ...
SubmitCalls(s) ==
  /\ At(s, "submit")
  /\ submits[request[s].on] < MaxSubmits
  /\ \E accepts, answers \in BOOLEAN :
       /\ accepted' = IF accepts THEN accepted \cup {request[s].on} ELSE accepted
       /\ request' = [request EXCEPT ![s] =
            [step |-> "submitted", on |-> @.on, ok |-> accepts /\ answers]]
  /\ submits' = [submits EXCEPT ![request[s].on] = @ + 1]
  /\ UNCHANGED <<asOf, dispatched, row, unrecorded>>

\* ... and writes what it heard by id, over what others wrote meanwhile.
SubmitCommits(s) ==
  /\ At(s, "submitted")
  /\ row' = [row EXCEPT ![request[s].on] =
       [status |-> IF request[s].ok THEN "submitted" ELSE "failed",
        due |-> addWorkingDays(IssuedOn[request[s].on], 5)]]
  /\ request' = [request EXCEPT ![s] = NoRequest]
  /\ UNCHANGED <<asOf, dispatched, accepted, unrecorded, submits>>

\* A statement fails or the process dies: what has gone out has gone out.
RollsBack(s) ==
  /\ request[s] # NoRequest
  /\ unrecorded' = unrecorded \cup (IF At(s, "sent") THEN {request[s].on} ELSE {})
  /\ request' = [request EXCEPT ![s] = NoRequest]
  /\ UNCHANGED <<asOf, dispatched, row, accepted, submits>>

NextDay ==
  /\ asOf < FinalDay
  /\ asOf' = asOf + 1
  /\ UNCHANGED <<dispatched, row, accepted, unrecorded, request, submits>>

Next ==
  \/ \E s \in Sessions :
       \/ \E o \in Outbound : SendDispatches(s, o) \/ SubmitReads(s, o)
       \/ SendCommits(s) \/ SubmitCalls(s) \/ SubmitCommits(s)
       \/ RollsBack(s)
  \/ NextDay

Spec == Init /\ [][Next]_vars

-----------------------------------------------------------------------------
\* Mutant of findOverdueVidSubmissions: a failed one counts as dealt with.
findOverduePending(date) ==
  {o \in Outbound : /\ row[o].status = "pending"
                    /\ row[o].due # NoRequest /\ row[o].due < date}

\* What was tried and has a due date that passed.
findOverdueVidSubmissions(date) ==
  {o \in Outbound : /\ row[o].status \in {"pending", "failed"}
                    /\ row[o].due # NoRequest /\ row[o].due < date}

\* What was never tried, by the date stored or else computed; those overdue.
upcomingVidDeadlines(date) ==
  {o \in Outbound :
     /\ row[o].status = "pending"
     /\ (IF row[o].due # NoRequest THEN row[o].due
         ELSE addWorkingDays(IssuedOn[o], 5)) < date}

(* Properties.                                                             *)

\* "The legal window is never silently missed": an invoice the office has not
\* accepted five working days after its date is on one of the two lists (on
\* neither alone), however submissions fail, overlap, are rolled back or lose
\* their answer -- unless its record was lost after it was dispatched.
DeadlinesSeen ==
  \A o \in dispatched \ (accepted \cup unrecorded) :
    /\ \A s \in Sessions : At(s, "sent") => request[s].on # o
    /\ addWorkingDays(IssuedOn[o], 5) < asOf
    => o \in findOverdueVidSubmissions(asOf) \cup upcomingVidDeadlines(asOf)

=============================================================================
