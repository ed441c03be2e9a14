-------------------------- MODULE RecurringBilling --------------------------
(***************************************************************************)
(* One recurring-invoice template and the chain of recurring_generate jobs *)
(* that bills it: src/recurring/{recurring,generate,schedule,reap}.ts, the *)
(* handler in src/jobs/register.ts and the routes web/app/api/recurring.   *)
(* The queue below them is LeaseQueue; a job's key is the run date it was  *)
(* enqueued for, and the handler does not look at it.                      *)
(*                                                                         *)
(* A run date is the number of its month, so periodKey is the identity and *)
(* advanceRunDate is "+ Interval" (the day within the month, anchor_day    *)
(* clamped, never changes which month it is).  Transactions are READ       *)
(* COMMITTED: a handler and an edit read the template in one step and      *)
(* write and commit in a later one.                                        *)
(***************************************************************************)
EXTENDS LeaseQueue, Naturals, FiniteSets

CONSTANTS
  Users,       \* concurrent PATCH requests on the template
  None,        \* no transaction open
  Horizon,     \* model bound: the clock stops at this month
  Interval,    \* interval_months
  FirstRun,    \* firstRunDate
  EndDate,     \* end_date; a month after every date stands for null
  Unlimited,   \* occurrences_remaining = null
  Occurrences, \* occurrences_remaining at creation
  Faults,      \* TRUE: a worker may die, or completeJob throw, in the gap
               \* between the handler's commit and completeJob's
  Patches      \* the kinds of PATCH: subset of {"date", "rest"}, those that
               \* set nextRunDate and those that do not; model bound: each
               \* kind is begun at most once

Dates == 0..(Horizon + Interval)

Row == [next : Dates, left : Nat \cup {Unlimited}, active : BOOLEAN]

\* A handler at work: its job, how far it is, its date and the row it read.
Handler == [job : Jobs, phase : {"read", "committed"}, asOf : 0..Horizon, row : Row]

ASSUME BillingAssumption ==
  /\ Horizon \in Nat /\ Interval \in Nat \ {0}
  /\ Jobs = Dates /\ FirstRun \in Dates
  /\ EndDate \in Nat
  /\ Occurrences \in (Nat \ {0}) \cup {Unlimited} /\ Unlimited \notin Nat
  /\ None \notin Handler
  /\ Faults \in BOOLEAN /\ Patches \subseteq {"date", "rest"}

VARIABLES
  today,     \* the current month
  template,  \* the template row: next, left (occurrences), active
  run,       \* per worker, the handler it is in: job, phase, what it read
  edit,      \* per user, the row its open updateTemplate will write
  billed,    \* history: invoices (or proposals of one) per run date, at most 2
  touched,   \* history: the kinds of PATCH that have been begun
  stopped    \* history: whether a user has deactivated the template, and
             \* whether a handler that had read it was then still to write

billVars == <<today, template, run, edit, billed, touched, stopped>>
vars     == <<queueVars, billVars>>

\* POST /api/recurring: the row and its first job, in one transaction.
Init ==
  /\ status = [j \in Jobs |-> IF j = FirstRun THEN "pending" ELSE "none"]
  /\ holders = [j \in Jobs |-> {}]
  /\ handled = {}
  /\ today = 0
  /\ template = [next |-> FirstRun, left |-> Occurrences, active |-> TRUE]
  /\ run = [w \in Workers |-> None]
  /\ edit = [u \in Users |-> None]
  /\ billed = [d \in Dates |-> 0]
  /\ touched = {}
  /\ stopped = "no"

-----------------------------------------------------------------------------
advanceRunDate(d) == d + Interval

\* generateDueRecurring's skip-to-current: the latest occurrence on or before
\* asOf, or the next one when that is still ahead.
BillDate(next, asOf) ==
  IF next > asOf THEN next ELSE asOf - ((asOf - next) % Interval)

\* Mutant of PastEnd: off by one.
PastEndLate(date, left) == date > EndDate + 1 \/ left = 0

PastEnd(date, left) == date > EndDate \/ left = 0

\* Mutant of OneLess: the count is written back as read.
OneLessNot(left) == left

OneLess(left) == IF left \in Nat \ {0} THEN left - 1 ELSE left

\* claimDue: a job is due from the run date that is its key.
Claim(w) ==
  /\ \E S \in SUBSET {j \in Jobs : j <= today} : Take(w, S)
  /\ UNCHANGED billVars

\* drainOnce turns to a job of its batch; the handler takes the date and
\* reads the template.
HandlerReads(w) ==
  /\ run[w] = None
  /\ \E j \in Jobs :
       /\ w \in holders[j]
       /\ run' = [run EXCEPT ![w] =
            [job |-> j, phase |-> "read", asOf |-> today, row |-> template]]
  /\ UNCHANGED <<queueVars, today, template, edit, billed, touched, stopped>>

\* The handler commits, enqueuing `new' in the same transaction.
Commits(w, new) ==
  /\ Work(w, run[w].job, new)
  /\ run' = [run EXCEPT ![w].phase = "committed"]
  /\ UNCHANGED <<today, edit, touched, stopped>>

Reading(w) == run[w] # None /\ run[w].phase = "read"
InGap(w) == run[w] # None /\ run[w].phase = "committed"
DateOf(w) == BillDate(run[w].row.next, run[w].asOf)

\* The template it read is inactive: the chain ends here.
FindsInactive(w) ==
  /\ Reading(w) /\ ~run[w].row.active
  /\ Commits(w, {})
  /\ UNCHANGED <<template, billed>>

\* Not due yet: the handler reads the template again and enqueues its period.
FindsNotDue(w) ==
  /\ Reading(w) /\ run[w].row.active
  /\ DateOf(w) > run[w].asOf
  /\ Commits(w, {template.next})
  /\ UNCHANGED <<template, billed>>

\* Due past an end condition: deactivateTemplate.
FindsEnded(w) ==
  /\ Reading(w) /\ run[w].row.active
  /\ DateOf(w) <= run[w].asOf
  /\ PastEnd(DateOf(w), run[w].row.left)
  /\ template' = [template EXCEPT !.active = FALSE]
  /\ Commits(w, {})
  /\ UNCHANGED billed

\* Due: sendInvoice (or createProposal, as autonomy says), then
\* advanceSchedule, which writes all it computed from the row it had read.
Bills(w) ==
  LET d     == DateOf(w)
      next  == advanceRunDate(d)
      left  == OneLess(run[w].row.left)
      goesOn == ~PastEnd(next, left)
  IN /\ Reading(w) /\ run[w].row.active
     /\ d <= run[w].asOf /\ ~PastEnd(d, run[w].row.left)
     /\ billed' = [billed EXCEPT ![d] = IF @ < 2 THEN @ + 1 ELSE @]
     /\ template' = [next |-> next, left |-> left, active |-> goesOn]
     /\ Commits(w, IF goesOn THEN {next} ELSE {})

HandlerCommits(w) == FindsInactive(w) \/ FindsNotDue(w) \/ FindsEnded(w) \/ Bills(w)

\* completeJob after the commit.
Completes(w) ==
  /\ InGap(w)
  /\ Finish(w, run[w].job)
  /\ run' = [run EXCEPT ![w] = None]
  /\ UNCHANGED <<today, template, edit, billed, touched, stopped>>

\* The handler throws and rolls back; or, in the gap, completeJob throws.
Fails(w) ==
  /\ run[w] # None /\ (InGap(w) => Faults)
  /\ GiveBack(w, run[w].job)
  /\ run' = [run EXCEPT ![w] = None]
  /\ UNCHANGED <<today, template, edit, billed, touched, stopped>>

\* The worker dies: an open handler transaction is rolled back.
Dies(w) ==
  /\ InGap(w) => Faults
  /\ Lose(w)
  /\ run' = [run EXCEPT ![w] = None]
  /\ UNCHANGED <<today, template, edit, billed, touched, stopped>>

-----------------------------------------------------------------------------
\* Mutants of Reap: without NOT EXISTS, and with ON CONFLICT DO NOTHING.
ReapBeside ==
  /\ template.active /\ template.next <= today
  /\ Offer(template.next)
  /\ UNCHANGED billVars

ReapOnce ==
  /\ template.active /\ template.next <= today
  /\ status[template.next] = "none"
  /\ Offer(template.next)
  /\ UNCHANGED billVars

\* reapRecurring: an active template, due, and no live job of it.
Reap ==
  /\ template.active /\ template.next <= today
  /\ \A j \in Jobs : status[j] \notin Live
  /\ Offer(template.next)
  /\ UNCHANGED billVars

\* updateTemplate reads the row and merges the patch into it ...
Merged(kind, row) ==
  IF kind = "date" THEN {[row EXCEPT !.next = d] : d \in 0..Horizon}
                   ELSE {row, [row EXCEPT !.left = 1]}

EditReads(u) ==
  /\ edit[u] = None
  /\ \E kind \in Patches \ touched : \E merged \in Merged(kind, template) :
       /\ edit' = [edit EXCEPT ![u] = merged]
       /\ touched' = touched \cup {kind}
  /\ UNCHANGED <<queueVars, today, template, run, billed, stopped>>

\* Mutant of EditWrites: active too.
EditWritesActive(u) ==
  /\ edit[u] # None
  /\ template' = edit[u]
  /\ edit' = [edit EXCEPT ![u] = None]
  /\ UNCHANGED <<queueVars, today, run, billed, touched, stopped>>

\* ... and writes every column of it back, except active.
EditWrites(u) ==
  /\ edit[u] # None
  /\ template' = [edit[u] EXCEPT !.active = template.active]
  /\ edit' = [edit EXCEPT ![u] = None]
  /\ UNCHANGED <<queueVars, today, run, billed, touched, stopped>>

\* DELETE: deactivateTemplate by a user.
Deactivate ==
  /\ stopped = "no"
  /\ template' = [template EXCEPT !.active = FALSE]
  /\ stopped' = IF \E w \in Workers : Reading(w) THEN "racing" ELSE "quietly"
  /\ UNCHANGED <<queueVars, today, run, edit, billed, touched>>

NextMonth ==
  /\ today < Horizon
  /\ today' = today + 1
  /\ UNCHANGED <<queueVars, template, run, edit, billed, touched, stopped>>

Next ==
  \/ \E w \in Workers :
       Claim(w) \/ HandlerReads(w) \/ HandlerCommits(w) \/ Completes(w)
       \/ Fails(w) \/ Dies(w)
  \/ Reap
  \/ \E u \in Users : EditReads(u) \/ EditWrites(u)
  \/ Deactivate
  \/ NextMonth

Spec == Init /\ [][Next]_vars

\* The loop polls and reaps for ever, a drain goes on to its next step, and
\* not every delivery is cut short: workers do not die, nor do handlers
\* throw, each time.
Fairness ==
  /\ WF_vars(Reap)
  /\ \A w \in Workers :
       /\ SF_vars(Claim(w)) /\ SF_vars(HandlerReads(w))
       /\ SF_vars(HandlerCommits(w)) /\ WF_vars(Completes(w))

FairSpec == Spec /\ Fairness

-----------------------------------------------------------------------------
TypeOK ==
  /\ status \in [Jobs -> {"none", "pending", "running", "done", "failed"}]
  /\ holders \in [Jobs -> SUBSET Workers]
  /\ handled \subseteq Jobs
  /\ today \in 0..Horizon
  /\ template \in Row
  /\ \A w \in Workers : run[w] = None \/ run[w] \in Handler
  /\ \A u \in Users : edit[u] = None \/ edit[u] \in Row
  /\ billed \in [Dates -> 0..2]
  /\ touched \subseteq Patches
  /\ stopped \in {"no", "quietly", "racing"}

\* No run date is billed twice, whatever fails, dies or is retried and
\* whatever a PATCH writes back over the schedule, unless one set the date.
BilledOnce == "date" \notin touched => \A d \in Dates : billed[d] <= 1

\* generate.ts says it without conditions: "Idempotent: the advance commits in
\* the same tx as the send, so a redelivered job finds nothing due".
RedeliveryIsIdempotent == \A d \in Dates : billed[d] <= 1

\* Never an invoice for a date still ahead or after the end date.
BilledInTerm == \A d \in Dates : billed[d] > 0 => d <= today /\ d <= EndDate

\* The occurrences paid for are the occurrences billed: each one billed was
\* taken off the template's count.
OccurrencesKept ==
  Occurrences # Unlimited /\ touched = {} =>
    Cardinality({d \in Dates : billed[d] > 0}) + template.left = Occurrences

\* Deactivated while no handler is between its read and its write, a template
\* is neither billed nor active again, though jobs of it are still queued,
\* retried and reaped, and PATCHes that read it before still write it back.
StaysStopped ==
  stopped = "quietly" => ~template'.active /\ billed' = billed

StoppedForGood == [][StaysStopped]_vars

\* A due template nobody edits does not stay due: it is billed or ended, even
\* after its job died or was done without billing (a reap revives the key).
IsDue == template.active /\ template.next <= today

DueIsServed == (IsDue /\ touched = {}) ~> (~IsDue \/ touched # {})
=============================================================================
