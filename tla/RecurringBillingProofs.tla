----------------------- MODULE RecurringBillingProofs -----------------------
(***************************************************************************)
(* Theorems about recurring invoices, for every interval, first run, end   *)
(* date and count, for all workers, users and PATCHes: the first three     *)
(* with and without faults and whether or not jobs overlap, the last two   *)
(* while each job is delivered once.                                       *)
(***************************************************************************)
EXTENDS RecurringBilling, FiniteSetTheorems, TLAPS

\* The remainder of a whole number.
LEMMA Remainder ==
  ASSUME NEW x \in Nat, NEW i \in Nat \ {0}
  PROVE  x % i \in Nat /\ x % i <= x
OBVIOUS

\* The date that is billed is a run date: it is not before the template's
\* date, nor after the handler's date unless the template's own is.
LEMMA BillDateInRange ==
  ASSUME BillingAssumption, NEW next \in Dates, NEW asOf \in 0..Horizon
  PROVE  BillDate(next, asOf) \in Dates /\ next <= BillDate(next, asOf)
<1>1. CASE next > asOf
  BY <1>1 DEF BillDate, Dates, BillingAssumption
<1>2. CASE ~(next > asOf)
  <2>1. asOf - next \in Nat /\ Interval \in Nat \ {0} /\ Horizon \in Nat
    BY <1>2 DEF Dates, BillingAssumption
  <2>2. (asOf - next) % Interval \in Nat /\ (asOf - next) % Interval <= asOf - next
    BY <2>1, Remainder
  <2>3. QED
    BY <1>2, <2>1, <2>2 DEF BillDate, Dates
<1>3. QED
  BY <1>1, <1>2

(***************************************************************************)
(* The types of the queue below, of the template and its calls, and of the *)
(* handlers at work; and what a quiet deactivation leaves behind: no       *)
(* handler that still holds the template as active.                        *)
(***************************************************************************)
Statuses == {"none", "pending", "running", "done", "failed"}

QueueTypes ==
  /\ status \in [Jobs -> Statuses]
  /\ holders \in [Jobs -> SUBSET Workers]
  /\ handled \subseteq Jobs

UserTypes ==
  /\ template \in Row
  /\ \A u \in Users : edit[u] = None \/ edit[u] \in Row
  /\ edit \in [Users -> Row \cup {None}]
  /\ touched \subseteq Patches
  /\ stopped \in {"no", "quietly", "racing"}

HandlerTypes ==
  /\ today \in 0..Horizon
  /\ run \in [Workers -> Handler \cup {None}]
  /\ \A w \in Workers : run[w] # None => run[w].asOf <= today
  /\ billed \in [Dates -> 0..2]

Quiet ==
  stopped = "quietly" =>
    ~template.active /\ \A w \in Workers : Reading(w) => ~run[w].row.active

IInv == QueueTypes /\ UserTypes /\ HandlerTypes /\ Quiet /\ BilledInTerm

LEMMA TypesFromIInv == IInv => TypeOK
BY DEF IInv, QueueTypes, UserTypes, HandlerTypes, TypeOK, Statuses, Handler

LEMMA InitIInv == Init => IInv
BY BillingAssumption
DEF Init, IInv, QueueTypes, UserTypes, HandlerTypes, Quiet, BilledInTerm, Statuses,
    Handler, Row, Dates, Reading

-----------------------------------------------------------------------------
\* What the queue does keeps its types.
LEMMA QueueKeeps ==
  ASSUME QueueTypes, NEW w \in Workers
  PROVE  /\ \A S \in SUBSET Jobs : Take(w, S) => QueueTypes'
         /\ \A j \in Jobs : \A new : Work(w, j, new) => QueueTypes'
         /\ \A j \in Jobs : Finish(w, j) \/ GiveBack(w, j) => QueueTypes'
         /\ Lose(w) => QueueTypes'
         /\ \A j : Offer(j) => QueueTypes'
<1>1. ASSUME NEW S \in SUBSET Jobs, Take(w, S) PROVE QueueTypes'
  BY <1>1 DEF QueueTypes, Take, Statuses
<1>2. ASSUME NEW j \in Jobs, NEW new, Work(w, j, new) PROVE QueueTypes'
  BY <1>2 DEF QueueTypes, Work, Offered, Statuses
<1>3. ASSUME NEW j \in Jobs, Finish(w, j) PROVE QueueTypes'
  BY <1>3 DEF QueueTypes, Finish, LetGo, Statuses
<1>4. ASSUME NEW j \in Jobs, GiveBack(w, j) PROVE QueueTypes'
  BY <1>4 DEF QueueTypes, GiveBack, LetGo, Statuses
<1>5. ASSUME Lose(w) PROVE QueueTypes'
  BY <1>5 DEF QueueTypes, Lose
<1>6. ASSUME NEW j, Offer(j) PROVE QueueTypes'
  BY <1>6 DEF QueueTypes, Offer, Statuses
<1>7. QED
  BY <1>1, <1>2, <1>3, <1>4, <1>5, <1>6

\* A handler that has read the template.
LEMMA ReadingTypes ==
  ASSUME IInv, NEW w \in Workers, Reading(w)
  PROVE  /\ run[w] \in Handler /\ run[w].job \in Jobs
         /\ run[w].row.next \in Dates /\ run[w].row.left \in Nat \cup {Unlimited}
         /\ run[w].asOf \in 0..Horizon /\ run[w].asOf <= today
         /\ DateOf(w) \in Dates
         /\ stopped = "quietly" => ~run[w].row.active
<1>1. run[w] \in Handler /\ run[w].asOf <= today
  BY DEF IInv, HandlerTypes, Reading
<1>2. run[w].row.next \in Dates /\ run[w].row.left \in Nat \cup {Unlimited}
      /\ run[w].asOf \in 0..Horizon /\ run[w].job \in Jobs
  BY <1>1 DEF Handler, Row
<1>3. QED
  BY <1>1, <1>2, BillDateInRange, BillingAssumption DEF DateOf, IInv, Quiet

\* A handler that commits: it is no longer reading, and the others go on.
LEMMA CommitsKeep ==
  ASSUME IInv, NEW w \in Workers, Reading(w), NEW new, Commits(w, new)
  PROVE  /\ QueueTypes' /\ UNCHANGED <<today, edit, touched, stopped>>
         /\ run' \in [Workers -> Handler \cup {None}]
         /\ \A v \in Workers : run'[v] # None => run'[v].asOf <= today'
         /\ \A v \in Workers : Reading(v)' => Reading(v) /\ run'[v] = run[v] /\ v # w
<1>1. /\ run[w] \in Handler /\ run[w].job \in Jobs /\ Work(w, run[w].job, new)
      /\ run' = [run EXCEPT ![w] = [run[w] EXCEPT !.phase = "committed"]]
      /\ UNCHANGED <<today, edit, touched, stopped>>
  BY ReadingTypes DEF Commits
<1>2. QueueTypes'
  BY <1>1, QueueKeeps DEF IInv
<1>3. /\ [run[w] EXCEPT !.phase = "committed"] \in Handler
      /\ [run[w] EXCEPT !.phase = "committed"].asOf = run[w].asOf
      /\ [run[w] EXCEPT !.phase = "committed"].phase = "committed"
  BY <1>1 DEF Handler
<1>4. run \in [Workers -> Handler \cup {None}] /\ run[w] # None
      /\ \A v \in Workers : run[v] # None => run[v].asOf <= today
  BY DEF IInv, HandlerTypes, Reading
<1>5. run'[w].phase = "committed" /\ \A v \in Workers \ {w} : run'[v] = run[v]
  BY <1>1, <1>3, <1>4
<1>6. QED
  BY <1>1, <1>2, <1>3, <1>4, <1>5 DEF Reading

\* A handler that is left: nothing else changes but the queue.
LEMMA LeavesKeep ==
  ASSUME IInv, QueueTypes', NEW w \in Workers, run' = [run EXCEPT ![w] = None],
         UNCHANGED <<today, template, edit, billed, touched, stopped>>
  PROVE  IInv' /\ StaysStopped
<1>1. HandlerTypes'
  BY DEF IInv, HandlerTypes
<1>2. UserTypes' /\ BilledInTerm'
  BY DEF IInv, UserTypes, BilledInTerm
<1>3. \A v \in Workers : Reading(v)' => Reading(v) /\ run'[v] = run[v]
  BY DEF IInv, HandlerTypes, Reading
<1>4. Quiet'
  BY <1>3 DEF IInv, Quiet
<1>5. QED
  BY <1>1, <1>2, <1>4 DEF IInv, Quiet, StaysStopped

\* A step that only the queue takes.
LEMMA QueueOnly ==
  ASSUME IInv, QueueTypes', UNCHANGED billVars PROVE IInv' /\ StaysStopped
BY DEF billVars, IInv, UserTypes, HandlerTypes, Quiet, Reading, BilledInTerm, StaysStopped

\* Each way a handler commits.
LEMMA HandlerCommitsKeep ==
  ASSUME IInv, NEW w \in Workers, HandlerCommits(w) PROVE IInv' /\ StaysStopped
<1>0. Reading(w)
  BY DEF HandlerCommits, FindsInactive, FindsNotDue, FindsEnded, Bills
<1>1. ASSUME NEW new, Commits(w, new), UNCHANGED <<template, billed>>
      PROVE  IInv' /\ StaysStopped
  <2>1. QueueTypes' /\ HandlerTypes'
    BY <1>0, <1>1, CommitsKeep DEF IInv, HandlerTypes
  <2>2. UserTypes' /\ BilledInTerm'
    BY <1>0, <1>1, CommitsKeep DEF IInv, UserTypes, BilledInTerm
  <2>3. Quiet' /\ StaysStopped
    BY <1>0, <1>1, CommitsKeep DEF IInv, Quiet, StaysStopped
  <2>4. QED
    BY <2>1, <2>2, <2>3 DEF IInv
<1>2. CASE FindsInactive(w)
  BY <1>1, <1>2 DEF FindsInactive
<1>3. CASE FindsNotDue(w)
  BY <1>1, <1>3 DEF FindsNotDue
<1>4. CASE FindsEnded(w)
  <2>1. /\ template' = [template EXCEPT !.active = FALSE]
        /\ Commits(w, {}) /\ UNCHANGED billed
    BY <1>4 DEF FindsEnded
  <2>2. template' \in Row /\ ~template'.active
    BY <2>1 DEF IInv, UserTypes, Row
  <2>3. QueueTypes' /\ HandlerTypes'
    BY <1>0, <2>1, CommitsKeep DEF IInv, HandlerTypes
  <2>4. UserTypes' /\ BilledInTerm'
    BY <1>0, <2>1, <2>2, CommitsKeep DEF IInv, UserTypes, BilledInTerm
  <2>5. Quiet' /\ StaysStopped
    BY <1>0, <2>1, <2>2, CommitsKeep DEF IInv, Quiet, StaysStopped
  <2>6. QED
    BY <2>3, <2>4, <2>5 DEF IInv
<1>5. CASE Bills(w)
  <2> DEFINE d == DateOf(w)
             next == advanceRunDate(d)
             left == OneLess(run[w].row.left)
             goesOn == ~PastEnd(next, left)
             new == IF goesOn THEN {next} ELSE {}
  <2>1. /\ run[w].row.active
        /\ d <= run[w].asOf /\ ~PastEnd(d, run[w].row.left)
        /\ billed' = [billed EXCEPT ![d] = IF @ < 2 THEN @ + 1 ELSE @]
        /\ template' = [next |-> next, left |-> left, active |-> goesOn]
        /\ Commits(w, new)
    BY <1>5 DEF Bills
  <2>2. /\ d \in Dates /\ d <= Horizon /\ d <= today /\ d <= EndDate
        /\ stopped # "quietly"
    BY <1>0, <2>1, ReadingTypes, BillingAssumption DEF PastEnd, Dates, IInv, HandlerTypes
  <2>3. next \in Dates
    BY <2>2, BillingAssumption DEF advanceRunDate, Dates
  <2>4. left \in Nat \cup {Unlimited}
    BY <1>0, ReadingTypes DEF OneLess
  <2>5. template' \in Row
    BY <2>1, <2>3, <2>4 DEF Row, PastEnd
  <2>6. /\ QueueTypes' /\ UNCHANGED <<today, edit, touched, stopped>>
        /\ run' \in [Workers -> Handler \cup {None}]
        /\ \A v \in Workers : run'[v] # None => run'[v].asOf <= today'
    <3> HIDE DEF new
    <3>1. QED
      BY <1>0, <2>1, CommitsKeep
  <2>7. HandlerTypes'
    <3>1. billed' \in [Dates -> 0..2]
      BY <2>1, <2>2 DEF IInv, HandlerTypes
    <3>2. QED
      BY <2>6, <3>1 DEF IInv, HandlerTypes
  <2>8. UserTypes'
    BY <2>5, <2>6 DEF IInv, UserTypes
  <2>9. BilledInTerm'
    BY <2>1, <2>2, <2>6 DEF IInv, HandlerTypes, BilledInTerm
  <2>10. Quiet' /\ StaysStopped
    BY <2>2, <2>6 DEF Quiet, StaysStopped
  <2>11. QED
    BY <2>6, <2>7, <2>8, <2>9, <2>10 DEF IInv
<1>6. QED
  BY <1>2, <1>3, <1>4, <1>5 DEF HandlerCommits

LEMMA StepKeeps ==
  ASSUME IInv, [Next]_vars PROVE IInv' /\ StaysStopped
<1>1. ASSUME NEW w \in Workers, Claim(w) PROVE IInv' /\ StaysStopped
  <2>1. QueueTypes' /\ UNCHANGED billVars
    BY <1>1, QueueKeeps DEF Claim, IInv
  <2>2. QED
    BY <2>1, QueueOnly
<1>2. ASSUME NEW w \in Workers, HandlerReads(w) PROVE IInv' /\ StaysStopped
  <2>1. PICK j \in Jobs :
          run' = [run EXCEPT ![w] =
                   [job |-> j, phase |-> "read", asOf |-> today, row |-> template]]
    BY <1>2 DEF HandlerReads
  <2>2. UNCHANGED <<status, holders, handled, today, template, edit, billed, touched, stopped>>
    BY <1>2 DEF HandlerReads, queueVars
  <2>3. [job |-> j, phase |-> "read", asOf |-> today, row |-> template] \in Handler
    BY DEF IInv, HandlerTypes, UserTypes, Handler
  <2>4. HandlerTypes'
    BY <2>1, <2>2, <2>3, BillingAssumption DEF IInv, HandlerTypes
  <2>5. QueueTypes' /\ UserTypes' /\ BilledInTerm'
    BY <2>2 DEF IInv, QueueTypes, UserTypes, BilledInTerm
  <2>6. run'[w].row = template /\ \A v \in Workers \ {w} : run'[v] = run[v]
    BY <2>1 DEF IInv, HandlerTypes
  <2>7. Quiet' /\ StaysStopped
    BY <2>2, <2>6 DEF IInv, Quiet, Reading, StaysStopped
  <2>8. QED
    BY <2>4, <2>5, <2>7 DEF IInv
<1>3. ASSUME NEW w \in Workers, HandlerCommits(w) PROVE IInv' /\ StaysStopped
  BY <1>3, HandlerCommitsKeep
<1>4. ASSUME NEW w \in Workers, Completes(w) \/ Fails(w) \/ Dies(w)
      PROVE  IInv' /\ StaysStopped
  <2>1. (Completes(w) \/ Fails(w)) => run[w] # None /\ run[w].job \in Jobs
    BY DEF Completes, Fails, InGap, IInv, HandlerTypes, Handler
  <2>2. QueueTypes'
    BY <1>4, <2>1, QueueKeeps DEF Completes, Fails, Dies, IInv
  <2>3. /\ run' = [run EXCEPT ![w] = None]
        /\ UNCHANGED <<today, template, edit, billed, touched, stopped>>
    BY <1>4 DEF Completes, Fails, Dies
  <2>4. QED
    BY <2>2, <2>3, LeavesKeep
<1>5. ASSUME Reap PROVE IInv' /\ StaysStopped
  <2>1. QueueTypes' /\ UNCHANGED billVars
    BY <1>5 DEF Reap, Offer, IInv, QueueTypes, Statuses
  <2>2. QED
    BY <2>1, QueueOnly
<1>6. ASSUME NEW u \in Users, EditReads(u) PROVE IInv' /\ StaysStopped
  <2>1. PICK kind \in Patches \ touched : \E merged \in Merged(kind, template) :
          /\ edit' = [edit EXCEPT ![u] = merged]
          /\ touched' = touched \cup {kind}
    BY <1>6 DEF EditReads
  <2>2. PICK merged \in Merged(kind, template) : edit' = [edit EXCEPT ![u] = merged]
    BY <2>1
  <2>3. merged \in Row
    BY BillingAssumption DEF Merged, IInv, UserTypes, Row, Dates
  <2>4. UNCHANGED <<status, holders, handled, today, template, run, billed, stopped>>
    BY <1>6 DEF EditReads, queueVars
  <2>5. UserTypes'
    BY <2>1, <2>2, <2>3, <2>4 DEF IInv, UserTypes
  <2>6. QueueTypes' /\ HandlerTypes' /\ Quiet' /\ BilledInTerm' /\ StaysStopped
    BY <2>4 DEF IInv, QueueTypes, HandlerTypes, Quiet, Reading, BilledInTerm, StaysStopped
  <2>7. QED
    BY <2>5, <2>6 DEF IInv
<1>7. ASSUME NEW u \in Users, EditWrites(u) PROVE IInv' /\ StaysStopped
  <2>1. /\ edit[u] \in Row /\ template' = [edit[u] EXCEPT !.active = template.active]
        /\ edit' = [edit EXCEPT ![u] = None]
        /\ UNCHANGED <<status, holders, handled, today, run, billed, touched, stopped>>
    BY <1>7 DEF EditWrites, queueVars, IInv, UserTypes
  <2>2. template' \in Row /\ template'.active = template.active
    BY <2>1 DEF IInv, UserTypes, Row
  <2>3. UserTypes'
    BY <2>1, <2>2 DEF IInv, UserTypes
  <2>4. QueueTypes' /\ HandlerTypes' /\ Quiet' /\ BilledInTerm' /\ StaysStopped
    BY <2>1, <2>2 DEF IInv, QueueTypes, HandlerTypes, Quiet, Reading, BilledInTerm,
                      StaysStopped
  <2>5. QED
    BY <2>3, <2>4 DEF IInv
<1>8. ASSUME Deactivate PROVE IInv' /\ StaysStopped
  <2>1. /\ stopped = "no" /\ template' = [template EXCEPT !.active = FALSE]
        /\ stopped' = IF \E w \in Workers : Reading(w) THEN "racing" ELSE "quietly"
        /\ UNCHANGED <<status, holders, handled, today, run, edit, billed, touched>>
    BY <1>8 DEF Deactivate, queueVars
  <2>2. template' \in Row /\ ~template'.active
    BY <2>1 DEF IInv, UserTypes, Row
  <2>3. QueueTypes' /\ UserTypes' /\ HandlerTypes' /\ BilledInTerm'
    BY <2>1, <2>2 DEF IInv, QueueTypes, UserTypes, HandlerTypes, BilledInTerm
  <2>4. Quiet' /\ StaysStopped
    BY <2>1, <2>2 DEF Quiet, Reading, StaysStopped
  <2>5. QED
    BY <2>3, <2>4 DEF IInv
<1>9. ASSUME NextMonth PROVE IInv' /\ StaysStopped
  <2>1. /\ today < Horizon /\ today' = today + 1
        /\ UNCHANGED <<status, holders, handled, template, run, edit, billed, touched, stopped>>
    BY <1>9 DEF NextMonth, queueVars
  <2>2. QueueTypes' /\ UserTypes' /\ Quiet' /\ StaysStopped
    BY <2>1 DEF IInv, QueueTypes, UserTypes, Quiet, Reading, StaysStopped
  <2>3. HandlerTypes'
    <3>1. today \in 0..Horizon /\ today' \in 0..Horizon
      BY <2>1, BillingAssumption DEF IInv, HandlerTypes
    <3>2. \A w \in Workers : run[w] # None => run[w].asOf \in 0..Horizon /\ run[w].asOf <= today
      BY DEF IInv, HandlerTypes, Handler
    <3>3. QED
      BY <2>1, <3>1, <3>2, BillingAssumption DEF IInv, HandlerTypes
  <2>4. BilledInTerm'
    BY <2>1, BillingAssumption DEF IInv, HandlerTypes, BilledInTerm, Dates
  <2>5. QED
    BY <2>2, <2>3, <2>4 DEF IInv
<1>10. CASE UNCHANGED vars
  <2>1. QueueTypes' /\ UNCHANGED billVars
    BY <1>10 DEF vars, queueVars, IInv, QueueTypes
  <2>2. QED
    BY <2>1, QueueOnly
<1>11. QED
  BY <1>1, <1>2, <1>3, <1>4, <1>5, <1>6, <1>7, <1>8, <1>9, <1>10 DEF Next

-----------------------------------------------------------------------------
\* Every reachable state of a template, its jobs and its calls has its type.
THEOREM TypeCorrect == Spec => []TypeOK
BY InitIInv, StepKeeps, TypesFromIInv, PTL DEF Spec

\* Nothing is billed ahead of its date or after the end date, even if jobs
\* overlap, are delivered twice or a PATCH writes back an old schedule.
THEOREM NothingBilledOutOfTerm == Spec => []BilledInTerm
<1>1. IInv => BilledInTerm
  BY DEF IInv
<1>2. QED
  BY <1>1, InitIInv, StepKeeps, PTL DEF Spec

\* A template deactivated while no handler held it stays inactive and is
\* billed no more.
THEOREM StoppedStays == Spec => StoppedForGood
<1>1. IInv /\ [Next]_vars => [StaysStopped]_vars
  BY StepKeeps
<1>2. QED
  BY <1>1, InitIInv, StepKeeps, PTL DEF Spec, StoppedForGood

-----------------------------------------------------------------------------
(***************************************************************************)
(* The chain of jobs.  While no worker dies and no completeJob throws in   *)
(* the gap after a commit, and no job is taken from a worker still at it,  *)
(* one job at most of a template is live that no handler has committed     *)
(* for.  While no PATCH sets the date, every date read or written is on    *)
(* the grid of run dates, and whoever handles the live job does so when    *)
(* all that is billed lies a full interval back.                           *)
(***************************************************************************)
OneDelivery == ~Faults /\ ~Overlap

Grid == {x \in Nat : \E k \in Nat : x = FirstRun + k * Interval}

Past(t) == \A d \in Dates : billed[d] > 0 => d + Interval <= t

Bounded(x) == x = FirstRun \/ \E d \in Dates : billed[d] > 0 /\ x <= d + Interval

FreshJob(j) == status[j] \in Live /\ \A w \in Workers : ~(InGap(w) /\ run[w].job = j)

HeldIsDue == \A j \in Jobs : holders[j] # {} => status[j] = "running" /\ j <= today
HeldOnce  == \A j \in Jobs : \A v, w \in holders[j] : v = w
RunsHeld  == \A w \in Workers : run[w] # None => w \in holders[run[w].job]

HoldInv == HeldIsDue /\ HeldOnce /\ RunsHeld

OneChain == \A i, j \in Jobs : FreshJob(i) /\ FreshJob(j) => i = j

OnSchedule ==
  /\ template.next \in Grid /\ Bounded(template.next)
  /\ \A w \in Workers : Reading(w) => run[w].row.next \in Grid /\ Past(run[w].asOf)
  /\ \A u \in Users : edit[u] # None => edit[u].next \in Grid /\ Bounded(edit[u].next)
  /\ \A j \in Jobs : status[j] # "none" => Bounded(j)
  /\ \A j \in Jobs : FreshJob(j) => Past(j) \/ Past(today)
  /\ template.active /\ (\A j \in Jobs : ~FreshJob(j)) => Past(today)
  /\ \A d \in Dates : billed[d] <= 1 /\ (billed[d] > 0 => d \in Grid)

Counted ==
  /\ \A u \in Users : edit[u] = None
  /\ \A w \in Workers : Reading(w) => run[w].row.left = template.left
  /\ Occurrences # Unlimited =>
       /\ template.left \in Nat
       /\ Cardinality({d \in Dates : billed[d] > 0}) + template.left = Occurrences

ChainInv ==
  /\ HoldInv /\ OneChain
  /\ "date" \notin touched => OnSchedule
  /\ touched = {} => Counted

-----------------------------------------------------------------------------
\* Division with remainder.
LEMMA Divides ==
  ASSUME NEW x \in Nat, NEW i \in Nat \ {0}
  PROVE  /\ x \div i \in Nat /\ x % i \in Nat /\ x % i < i
         /\ x = i * (x \div i) + (x % i)
OBVIOUS

\* A product of numbers none of which is negative.
LEMMA ProductNat == \A a, b \in Nat : a * b \in Nat
OBVIOUS

\* Of two multiples of i the greater is greater by i.
LEMMA MultiplesApart ==
  ASSUME NEW k \in Nat, NEW l \in Nat, NEW i \in Nat \ {0}, k * i < l * i
  PROVE  (k + 1) * i <= l * i
<1>1. k < l
  <2>1. SUFFICES ASSUME l <= k PROVE FALSE
    OBVIOUS
  <2>2. k - l \in Nat
    BY <2>1
  <2>3. (k - l) * i \in Nat
    BY <2>2, ProductNat
  <2>4. (k - l) * i = k * i - l * i
    OBVIOUS
  <2>5. QED
    BY <2>3, <2>4
<1>2. (l - k - 1) * i \in Nat
  BY <1>1, ProductNat
<1>3. (l - k - 1) * i = l * i - (k + 1) * i
  OBVIOUS
<1>4. QED
  BY <1>2, <1>3

\* advanceRunDate stays on the grid, and takes the shortest step on it.
LEMMA GridSteps ==
  /\ FirstRun \in Grid
  /\ \A x \in Grid : x + Interval \in Grid /\ FirstRun <= x
  /\ \A x, y \in Grid : x < y => x + Interval <= y
<1>0. FirstRun \in Nat /\ Interval \in Nat \ {0}
  BY BillingAssumption DEF Dates
<1>1. FirstRun \in Grid
  <2>1. FirstRun = FirstRun + 0 * Interval
    BY <1>0
  <2>2. QED
    BY <1>0, <2>1 DEF Grid
<1>2. ASSUME NEW x \in Grid PROVE x + Interval \in Grid /\ FirstRun <= x
  <2>1. PICK k \in Nat : x = FirstRun + k * Interval
    BY DEF Grid
  <2>2. x + Interval = FirstRun + (k + 1) * Interval /\ k * Interval \in Nat
    BY <1>0, <2>1, ProductNat
  <2>3. x + Interval \in Nat /\ k + 1 \in Nat
    BY <1>0 DEF Grid
  <2>4. QED
    BY <1>0, <2>1, <2>2, <2>3 DEF Grid
<1>3. ASSUME NEW x \in Grid, NEW y \in Grid, x < y PROVE x + Interval <= y
  <2>1. PICK k \in Nat, l \in Nat :
          x = FirstRun + k * Interval /\ y = FirstRun + l * Interval
    BY DEF Grid
  <2>2. k * Interval \in Nat /\ l * Interval \in Nat /\ (k + 1) * Interval = k * Interval + Interval
    BY <1>0, ProductNat
  <2>3. k * Interval < l * Interval
    BY <1>0, <1>3, <2>1, <2>2
  <2>4. (k + 1) * Interval <= l * Interval
    BY <1>0, <2>3, MultiplesApart
  <2>5. QED
    BY <1>0, <2>1, <2>2, <2>4
<1>4. QED
  BY <1>1, <1>2, <1>3

\* Skip-to-current bills the last date of the grid that has come.
LEMMA BillsOnGrid ==
  ASSUME NEW next \in Grid, NEW asOf \in Nat, BillDate(next, asOf) <= asOf
  PROVE  BillDate(next, asOf) \in Grid /\ asOf < BillDate(next, asOf) + Interval
<1>0. FirstRun \in Nat /\ Interval \in Nat \ {0} /\ next \in Nat
  BY BillingAssumption DEF Dates, Grid
<1>1. next <= asOf /\ BillDate(next, asOf) = asOf - ((asOf - next) % Interval)
  BY <1>0 DEF BillDate
<1>2. PICK q \in Nat, r \in Nat : /\ r = (asOf - next) % Interval /\ r < Interval
                                  /\ asOf - next = Interval * q + r
  <2>1. asOf - next \in Nat
    BY <1>0, <1>1
  <2>2. QED
    BY <1>0, <2>1, Divides
<1>3. PICK k \in Nat : next = FirstRun + k * Interval
  BY DEF Grid
<1>4. asOf - r = FirstRun + (k + q) * Interval
  <2>1. (k + q) * Interval = k * Interval + Interval * q
    BY <1>0
  <2>2. k * Interval \in Nat /\ Interval * q \in Nat
    BY <1>0, ProductNat
  <2>3. asOf - r = next + Interval * q
    BY <1>0, <1>2, <2>2
  <2>4. QED
    BY <1>0, <1>3, <2>1, <2>2, <2>3
<1>5. asOf - r \in Nat
  <2>1. (k + q) * Interval \in Nat
    BY <1>0, ProductNat
  <2>2. QED
    BY <1>0, <1>4, <2>1
<1>6. asOf - r \in Grid
  <2>1. k + q \in Nat
    OBVIOUS
  <2>2. QED
    BY <1>4, <1>5, <2>1 DEF Grid
<1>7. QED
  BY <1>0, <1>1, <1>2, <1>6

-----------------------------------------------------------------------------
LEMMA HoldStays ==
  ASSUME OneDelivery, IInv, HoldInv, [Next]_vars PROVE HoldInv'
<1>0. /\ QueueTypes /\ HandlerTypes /\ Jobs = Dates /\ Horizon \in Nat /\ Dates \subseteq Nat
      /\ \A w \in Workers : run[w] # None => run[w] \in Handler /\ run[w].job \in Jobs
  BY BillingAssumption DEF IInv, HandlerTypes, Handler, Dates
<1>1. ASSUME UNCHANGED <<status, holders>>, today <= today',
             \A w \in Workers : run'[w] # None => run[w] # None /\ run'[w].job = run[w].job
      PROVE  HoldInv'
  <2>1. today \in Nat /\ today' \in Int
    BY <1>0, <1>1, StepKeeps, BillingAssumption DEF IInv, HandlerTypes
  <2>2. HeldIsDue'
    BY <1>0, <1>1, <2>1 DEF HoldInv, HeldIsDue
  <2>3. HeldOnce' /\ RunsHeld'
    BY <1>1 DEF HoldInv, HeldOnce, RunsHeld
  <2>4. QED
    BY <2>2, <2>3 DEF HoldInv
<1>2. ASSUME NEW w \in Workers, run[w] # None,
             \A j \in Jobs \ {run[w].job} : status'[j] = status[j] /\ holders'[j] = holders[j],
             holders'[run[w].job] = holders[run[w].job] \ {w},
             today' = today, run' = [run EXCEPT ![w] = None]
      PROVE  HoldInv'
  <2>1. holders'[run[w].job] = {}
    BY <1>0, <1>2 DEF HoldInv, HeldIsDue, HeldOnce, RunsHeld
  <2>2. run'[w] = None /\ \A v \in Workers \ {w} : run'[v] = run[v]
    BY <1>0, <1>2 DEF HandlerTypes
  <2>3. \A v \in Workers \ {w} : run[v] # None => run[v].job # run[w].job
    BY <1>0, <1>2 DEF HoldInv, HeldIsDue, HeldOnce, RunsHeld
  <2>4. HeldIsDue' /\ HeldOnce'
    BY <1>2, <2>1 DEF HoldInv, HeldIsDue, HeldOnce
  <2>5. RunsHeld'
    <3>1. SUFFICES ASSUME NEW v \in Workers, run'[v] # None
                   PROVE  v \in holders'[run'[v].job]
      BY DEF RunsHeld
    <3>2. v # w /\ run'[v] = run[v]
      BY <2>2, <3>1
    <3>3. run[v] # None /\ run[v].job \in Jobs \ {run[w].job}
      BY <1>0, <2>3, <3>1, <3>2
    <3>4. holders'[run[v].job] = holders[run[v].job] /\ v \in holders[run[v].job]
      BY <1>2, <3>3 DEF HoldInv, RunsHeld
    <3>5. QED
      BY <3>2, <3>4
  <2>6. QED
    BY <2>4, <2>5 DEF HoldInv
<1>3. ASSUME NEW w \in Workers, Claim(w) PROVE HoldInv'
  <2>1. PICK S \in SUBSET {j \in Jobs : j <= today} : Take(w, S)
    BY <1>3 DEF Claim
  <2>2. /\ \A j \in S : holders[j] = {} /\ j <= today
        /\ \A j \in Jobs : status'[j] = IF j \in S THEN "running" ELSE status[j]
        /\ \A j \in Jobs : holders'[j] = IF j \in S THEN holders[j] \cup {w} ELSE holders[j]
        /\ UNCHANGED <<run, today>>
    BY <1>3, <2>1 DEF Take, Takable, OneDelivery, HoldInv, HeldIsDue, Claim, billVars
  <2>3. HeldIsDue' /\ HeldOnce'
    BY <2>2 DEF HoldInv, HeldIsDue, HeldOnce
  <2>4. RunsHeld'
    BY <1>0, <2>2 DEF HoldInv, RunsHeld
  <2>5. QED
    BY <2>3, <2>4 DEF HoldInv
<1>4. ASSUME NEW w \in Workers, HandlerReads(w) PROVE HoldInv'
  <2>1. PICK j \in Jobs : /\ w \in holders[j]
          /\ run' = [run EXCEPT ![w] =
                      [job |-> j, phase |-> "read", asOf |-> today, row |-> template]]
    BY <1>4 DEF HandlerReads
  <2>2. run'[w].job = j /\ (\A v \in Workers \ {w} : run'[v] = run[v])
        /\ UNCHANGED <<status, holders, today>>
    BY <1>0, <1>4, <2>1 DEF HandlerTypes, HandlerReads, queueVars
  <2>3. QED
    BY <2>1, <2>2 DEF HoldInv, HeldIsDue, HeldOnce, RunsHeld
<1>5. ASSUME NEW w \in Workers, HandlerCommits(w) PROVE HoldInv'
  <2>1. PICK new : Commits(w, new) /\ Reading(w)
    BY <1>5 DEF HandlerCommits, FindsInactive, FindsNotDue, FindsEnded, Bills
  <2>2. /\ run[w] \in Handler /\ run' = [run EXCEPT ![w] = [run[w] EXCEPT !.phase = "committed"]]
        /\ status' = Offered(new) /\ UNCHANGED <<holders, today>>
    BY <1>0, <2>1 DEF Commits, Work, Reading
  <2>3. \A v \in Workers : run'[v] # None => run[v] # None /\ run'[v].job = run[v].job
    BY <1>0, <2>1, <2>2 DEF HandlerTypes, Handler, Reading
  <2>4. \A j \in Jobs : status[j] = "running" => status'[j] = "running"
    BY <2>2 DEF Offered
  <2>5. QED
    BY <1>0, <2>2, <2>3, <2>4 DEF HoldInv, HeldIsDue, HeldOnce, RunsHeld
<1>6. ASSUME NEW w \in Workers, Completes(w) \/ Fails(w) PROVE HoldInv'
  <2>1. run[w] # None /\ today' = today /\ run' = [run EXCEPT ![w] = None]
        /\ (Finish(w, run[w].job) \/ GiveBack(w, run[w].job))
    BY <1>6 DEF Completes, Fails, InGap
  <2>2. run[w].job \in Jobs
    BY <1>0, <2>1
  <2>3. /\ \A j \in Jobs \ {run[w].job} : status'[j] = status[j] /\ holders'[j] = holders[j]
        /\ holders'[run[w].job] = holders[run[w].job] \ {w}
    BY <1>0, <2>1, <2>2 DEF Finish, GiveBack, LetGo, QueueTypes
  <2>4. QED
    BY <1>2, <2>1, <2>3
<1>7. ASSUME NEW w \in Workers, Dies(w) PROVE HoldInv'
  <2>1. /\ run'[w] = None /\ \A v \in Workers \ {w} : run'[v] = run[v]
        /\ \A j \in Jobs : holders'[j] = holders[j] \ {w}
        /\ status' = status /\ today' = today
    BY <1>0, <1>7 DEF Dies, Lose, HandlerTypes
  <2>2. HeldIsDue' /\ HeldOnce'
    BY <2>1 DEF HoldInv, HeldIsDue, HeldOnce
  <2>3. RunsHeld'
    BY <1>0, <2>1 DEF HoldInv, RunsHeld
  <2>4. QED
    BY <2>2, <2>3 DEF HoldInv
<1>8. ASSUME Reap PROVE HoldInv'
  <2>1. /\ \A j \in Jobs : status[j] \notin Live
        /\ status' = [status EXCEPT ![template.next] = "pending"]
        /\ UNCHANGED <<holders, run, today>>
    BY <1>8 DEF Reap, Offer, billVars
  <2>2. \A j \in Jobs : holders[j] = {}
    BY <2>1 DEF HoldInv, HeldIsDue, Live
  <2>3. QED
    BY <2>1, <2>2 DEF HoldInv, HeldIsDue, HeldOnce, RunsHeld
<1>9. ASSUME \/ \E u \in Users : EditReads(u) \/ EditWrites(u)
             \/ Deactivate \/ NextMonth \/ UNCHANGED vars
      PROVE  HoldInv'
  <2>1. UNCHANGED <<status, holders, run>> /\ (today' = today \/ today' = today + 1)
    BY <1>9 DEF EditReads, EditWrites, Deactivate, NextMonth, vars, queueVars, billVars
  <2>2. today <= today'
    BY <1>0, <2>1 DEF HandlerTypes
  <2>3. QED
    BY <1>1, <2>1, <2>2
<1>10. QED
  BY <1>3, <1>4, <1>5, <1>6, <1>7, <1>8, <1>9 DEF Next

-----------------------------------------------------------------------------
\* What lies an interval back on one day does so on every later day.
LEMMA PastGrows ==
  ASSUME NEW t \in Nat, NEW u \in Nat, t <= u, Past(t) PROVE Past(u)
<1>1. Dates \subseteq Nat /\ Interval \in Nat
  BY BillingAssumption DEF Dates
<1>2. ASSUME NEW d \in Dates, billed[d] > 0 PROVE d + Interval <= u
  <2>1. d + Interval <= t /\ d + Interval \in Nat
    BY <1>1, <1>2 DEF Past
  <2>2. QED
    BY <2>1
<1>3. QED
  BY <1>2 DEF Past

\* A job that a handler is reading for is the live one, it has come due, and
\* its handler is the only one.
LEMMA ReaderIsFresh ==
  ASSUME OneDelivery, IInv, HoldInv, NEW w \in Workers, Reading(w)
  PROVE  /\ run[w].job \in Jobs /\ FreshJob(run[w].job)
         /\ status[run[w].job] = "running" /\ run[w].job <= today
         /\ OneChain => \A v \in Workers : Reading(v) => v = w
<1>1. ASSUME NEW v \in Workers, Reading(v)
      PROVE  /\ run[v].job \in Jobs /\ v \in holders[run[v].job]
             /\ status[run[v].job] = "running" /\ run[v].job <= today
             /\ FreshJob(run[v].job)
  <2>1. run[v].job \in Jobs /\ v \in holders[run[v].job]
    BY <1>1, ReadingTypes DEF HoldInv, RunsHeld, Reading
  <2>2. status[run[v].job] = "running" /\ run[v].job <= today
    BY <2>1 DEF HoldInv, HeldIsDue
  <2>3. ASSUME NEW x \in Workers, InGap(x), run[x].job = run[v].job PROVE FALSE
    <3>1. x \in holders[run[v].job]
      BY <2>3 DEF HoldInv, RunsHeld, InGap
    <3>2. x = v
      BY <2>1, <3>1 DEF HoldInv, HeldOnce
    <3>3. QED
      BY <1>1, <2>3, <3>2 DEF InGap, Reading
  <2>4. QED
    BY <2>1, <2>2, <2>3 DEF FreshJob, Live
<1>2. ASSUME OneChain, NEW v \in Workers, Reading(v) PROVE v = w
  <2>1. run[v].job = run[w].job
    BY <1>1, <1>2 DEF OneChain
  <2>2. QED
    BY <1>1, <1>2, <2>1 DEF HoldInv, HeldOnce
<1>3. QED
  BY <1>1, <1>2

\* When a handler commits, no other is reading, the live jobs are those it
\* adds, and all that is billed lies an interval back.
LEMMA CommitsFresh ==
  ASSUME OneDelivery, IInv, HoldInv, OneChain, NEW w \in Workers, Reading(w),
         NEW new, Commits(w, new)
  PROVE  /\ \A v \in Workers : ~Reading(v)'
         /\ \A j \in Jobs : FreshJob(j)' <=> j \in new /\ status[j] = "none"
         /\ \A j \in Jobs : status'[j] # "none" => status[j] # "none" \/ j \in new
         /\ OnSchedule => Past(today)
<1>1. /\ run[w].job \in Jobs /\ FreshJob(run[w].job)
      /\ status[run[w].job] = "running" /\ run[w].job <= today
      /\ \A v \in Workers : Reading(v) => v = w
  BY ReaderIsFresh
<1>2. \A v \in Workers : ~Reading(v)'
  BY <1>1, CommitsKeep
<1>3. /\ run[w] # None /\ run[w] \in Handler
      /\ run \in [Workers -> Handler \cup {None}]
      /\ run' = [run EXCEPT ![w] = [run[w] EXCEPT !.phase = "committed"]]
      /\ \A j \in Jobs : status'[j] = IF j \in new /\ status[j] = "none"
                                      THEN "pending" ELSE status[j]
  <2>1. run[w] # None /\ run[w] \in Handler /\ run \in [Workers -> Handler \cup {None}]
    <3>1. run[w] # None /\ run \in [Workers -> Handler \cup {None}]
      BY DEF Reading, IInv, HandlerTypes
    <3>2. QED
      BY <3>1
  <2>2. run' = [run EXCEPT ![w] = [run[w] EXCEPT !.phase = "committed"]]
    BY DEF Commits
  <2>3. status' = Offered(new)
    BY DEF Commits, Work
  <2>4. QED
    BY <2>1, <2>2, <2>3 DEF Offered
<1>4. /\ run'[w].phase = "committed" /\ run'[w].job = run[w].job
      /\ \A v \in Workers \ {w} : run'[v] = run[v]
  <2>1. /\ [run[w] EXCEPT !.phase = "committed"].phase = "committed"
        /\ [run[w] EXCEPT !.phase = "committed"].job = run[w].job
    BY <1>3 DEF Handler
  <2>2. QED
    BY <1>3, <2>1
<1>5. \A v \in Workers : InGap(v)' <=> InGap(v) \/ v = w
  <2>1. InGap(w)'
    <3>1. run'[w] \in Handler /\ None \notin Handler
      <4>1. [run[w] EXCEPT !.phase = "committed"] \in Handler
        BY <1>3 DEF Handler
      <4>2. QED
        BY <1>3, <4>1, BillingAssumption
    <3>2. QED
      BY <1>4, <3>1 DEF InGap
  <2>2. QED
    BY <1>4, <2>1 DEF InGap
<1>6. \A v \in Workers : InGap(v) => v # w /\ run[v].job \in Jobs
                                     /\ status[run[v].job] = "running"
  <2>1. ASSUME NEW v \in Workers, InGap(v)
        PROVE  v # w /\ run[v].job \in Jobs /\ status[run[v].job] = "running"
    <3>1. run[v] # None /\ run[v].job \in Jobs /\ v # w
      BY <2>1 DEF InGap, Reading, IInv, HandlerTypes, Handler
    <3>2. QED
      BY <3>1 DEF HoldInv, RunsHeld, HeldIsDue
  <2>2. QED
    BY <2>1
<1>7. ASSUME NEW j \in Jobs PROVE FreshJob(j)' <=> j \in new /\ status[j] = "none"
  <2>1. CASE j \in new /\ status[j] = "none"
    <3>1. status'[j] = "pending"
      BY <1>3, <2>1
    <3>2. \A v \in Workers : InGap(v)' => run'[v].job # j
      BY <1>1, <1>4, <1>5, <1>6, <2>1
    <3>3. QED
      BY <2>1, <3>1, <3>2 DEF FreshJob, Live
  <2>2. CASE ~(j \in new /\ status[j] = "none")
    <3>1. status'[j] = status[j]
      BY <1>3, <2>2
    <3>2. SUFFICES ASSUME FreshJob(j)' PROVE FALSE
      BY <2>2
    <3>3. status[j] \in Live /\ \A v \in Workers : ~(InGap(v)' /\ run'[v].job = j)
      BY <3>1, <3>2 DEF FreshJob
    <3>4. FreshJob(j)
      BY <1>4, <1>5, <1>6, <3>3 DEF FreshJob
    <3>5. j = run[w].job
      BY <1>1, <3>4 DEF OneChain
    <3>6. QED
      BY <1>4, <1>5, <3>3, <3>5
  <2>3. QED
    BY <2>1, <2>2
<1>8. ASSUME OnSchedule PROVE Past(today)
  <2>1. Past(run[w].job) \/ Past(today)
    BY <1>1, <1>8 DEF OnSchedule
  <2>2. run[w].job \in Nat /\ today \in Nat
    BY <1>1, BillingAssumption DEF Dates, IInv, HandlerTypes
  <2>3. QED
    BY <1>1, <2>1, <2>2, PastGrows
<1>9. QED
  BY <1>2, <1>3, <1>7, <1>8

-----------------------------------------------------------------------------
\* A step that bills nothing and edits nothing, whose new readers read now and
\* whose new live job is for the template's date, keeps the schedule.
LEMMA QuietSteps ==
  ASSUME IInv, IInv', OnSchedule,
         UNCHANGED <<billed, edit>>, today <= today',
         template'.next = template.next, template'.active => template.active,
         \A v \in Workers : Reading(v)' =>
           \/ Reading(v) /\ run'[v] = run[v]
           \/ run'[v].row = template /\ run'[v].asOf = today /\ Past(today),
         \A j \in Jobs : FreshJob(j)' => FreshJob(j) \/ Past(today),
         \A j \in Jobs : status'[j] # "none" => status[j] # "none" \/ j = template.next,
         (\A j \in Jobs : ~FreshJob(j)') => (\A j \in Jobs : ~FreshJob(j)) \/ Past(today)
  PROVE  OnSchedule'
<1>1. today \in Nat /\ today' \in Nat /\ Jobs \subseteq Nat
  BY BillingAssumption DEF IInv, HandlerTypes, Dates
<1>2. \A t \in Nat : Past(t) => Past(t)'
  BY DEF Past
<1>3. Past(today) => Past(today)'
  <2>1. Past(today) => Past(today')
    BY <1>1, PastGrows
  <2>2. QED
    BY <2>1 DEF Past
<1>4. \A x : Bounded(x) => Bounded(x)'
  BY DEF Bounded
<1>5. template'.next \in Grid /\ Bounded(template.next)'
  BY <1>4 DEF OnSchedule, Bounded
<1>6. ASSUME NEW v \in Workers, Reading(v)'
      PROVE  run'[v].row.next \in Grid /\ Past(run[v].asOf)'
  <2>1. CASE Reading(v) /\ run'[v] = run[v]
    BY <2>1 DEF OnSchedule, Past
  <2>2. CASE run'[v].row = template /\ run'[v].asOf = today /\ Past(today)
    BY <2>2 DEF OnSchedule, Past
  <2>3. QED
    BY <1>6, <2>1, <2>2
<1>7. \A u \in Users : edit'[u] # None => edit'[u].next \in Grid /\ Bounded(edit[u].next)'
  BY DEF OnSchedule, Bounded
<1>8. \A j \in Jobs : status'[j] # "none" => Bounded(j)'
  BY <1>4 DEF OnSchedule
<1>9. \A j \in Jobs : FreshJob(j)' => Past(j)' \/ Past(today)'
  BY <1>1, <1>2, <1>3 DEF OnSchedule
<1>10. template'.active /\ (\A j \in Jobs : ~FreshJob(j)') => Past(today)'
  BY <1>3 DEF OnSchedule
<1>11. \A d \in Dates : billed'[d] <= 1 /\ (billed'[d] > 0 => d \in Grid)
  BY DEF OnSchedule
<1>12. QED
  BY <1>5, <1>6, <1>7, <1>8, <1>9, <1>10, <1>11 DEF OnSchedule

\* The same of the whole invariant: such a step also leaves the count alone.
LEMMA QuietKeeps ==
  ASSUME IInv, IInv', ChainInv, HoldInv', OneChain',
         UNCHANGED <<billed, touched, edit>>, today <= today',
         template'.next = template.next, template'.left = template.left,
         template'.active => template.active,
         \A v \in Workers : Reading(v)' =>
           \/ Reading(v) /\ run'[v] = run[v]
           \/ run'[v].row = template /\ run'[v].asOf = today
              /\ (OnSchedule => Past(today)),
         \A j \in Jobs : FreshJob(j)' => FreshJob(j) \/ (OnSchedule => Past(today)),
         \A j \in Jobs : status'[j] # "none" => status[j] # "none" \/ j = template.next,
         (\A j \in Jobs : ~FreshJob(j)') =>
           (\A j \in Jobs : ~FreshJob(j)) \/ (OnSchedule => Past(today))
  PROVE  ChainInv'
<1>1. OnSchedule => OnSchedule'
  <2>1. SUFFICES ASSUME OnSchedule PROVE OnSchedule'
    OBVIOUS
  <2>2. QED
    BY <2>1, QuietSteps
<1>2. Counted => Counted'
  <2>1. SUFFICES ASSUME Counted PROVE Counted'
    OBVIOUS
  <2>2. \A v \in Workers : Reading(v)' => run'[v].row.left = template'.left
    BY <2>1 DEF Counted
  <2>3. QED
    BY <2>1, <2>2 DEF Counted
<1>3. QED
  BY <1>1, <1>2 DEF ChainInv

\* Billing: the date is new, an interval after all that was billed before, and
\* the next date is an interval ahead.
LEMMA BillsInOrder ==
  ASSUME IInv, OnSchedule, NEW w \in Workers, Bills(w)
  PROVE  /\ DateOf(w) \in Dates /\ DateOf(w) \in Grid
         /\ billed[DateOf(w)] = 0
         /\ billed' = [billed EXCEPT ![DateOf(w)] = 1]
         /\ \A e \in Dates : billed[e] > 0 => e + Interval <= DateOf(w)
<1> DEFINE d == DateOf(w)
<1>1. /\ Reading(w) /\ d <= run[w].asOf
      /\ billed' = [billed EXCEPT ![d] = IF @ < 2 THEN @ + 1 ELSE @]
  BY DEF Bills
<1>2. /\ d \in Dates /\ run[w].asOf \in Nat /\ d = BillDate(run[w].row.next, run[w].asOf)
      /\ run[w].row.next \in Grid /\ Past(run[w].asOf)
  BY <1>1, ReadingTypes, BillingAssumption DEF DateOf, OnSchedule
<1>3. d \in Grid /\ run[w].asOf < d + Interval
  <2> HIDE DEF d
  <2>1. QED
    BY <1>1, <1>2, BillsOnGrid
<1>4. Dates \subseteq Nat /\ Interval \in Nat \ {0} /\ billed \in [Dates -> 0..2]
  BY BillingAssumption DEF Dates, IInv, HandlerTypes
<1>5. ASSUME NEW e \in Dates, billed[e] > 0 PROVE e + Interval <= d
  <2>1. e + Interval <= run[w].asOf /\ e \in Grid
    BY <1>2, <1>5 DEF Past, OnSchedule
  <2>2. e < d
    <3>1. e \in Nat /\ d \in Nat /\ Interval \in Nat /\ run[w].asOf \in Nat
      BY <1>2, <1>4
    <3>2. QED
      BY <1>3, <2>1, <3>1
  <2>3. QED
    BY <1>3, <2>1, <2>2, GridSteps
<1>6. billed[d] = 0
  <2>1. billed[d] \in 0..2 /\ ~(billed[d] > 0)
    <3> HIDE DEF d
    <3>1. QED
      BY <1>2, <1>4, <1>5
  <2>2. QED
    BY <2>1
<1>7. QED
  BY <1>1, <1>2, <1>3, <1>4, <1>5, <1>6

LEMMA BillsKeepSchedule ==
  ASSUME OneDelivery, IInv, IInv', HoldInv, OneChain, OnSchedule,
         NEW w \in Workers, Bills(w)
  PROVE  OnSchedule'
<1>1. PICK d \in Dates : d = DateOf(w)
  BY BillsInOrder
<1> DEFINE next == d + Interval
           goesOn == template'.active
           new == IF goesOn THEN {next} ELSE {}
<1>2. /\ d \in Grid /\ billed[d] = 0
      /\ billed' = [billed EXCEPT ![d] = 1]
      /\ \A e \in Dates : billed[e] > 0 => e + Interval <= d
  BY <1>1, BillsInOrder
<1>3. Reading(w) /\ template'.next = next /\ Commits(w, new)
  <2>1. /\ Reading(w)
        /\ template' = [next |-> advanceRunDate(DateOf(w)), left |-> OneLess(run[w].row.left),
             active |-> ~PastEnd(advanceRunDate(DateOf(w)), OneLess(run[w].row.left))]
        /\ Commits(w, IF ~PastEnd(advanceRunDate(DateOf(w)), OneLess(run[w].row.left))
                      THEN {advanceRunDate(DateOf(w))} ELSE {})
    BY DEF Bills
  <2>2. advanceRunDate(DateOf(w)) = next
    BY <1>1 DEF advanceRunDate
  <2>3. QED
    BY <2>1, <2>2
<1>4. /\ \A v \in Workers : ~Reading(v)'
      /\ \A j \in Jobs : FreshJob(j)' <=> j \in new /\ status[j] = "none"
      /\ \A j \in Jobs : status'[j] # "none" => status[j] # "none" \/ j \in new
  <2> HIDE DEF new
  <2>1. QED
    BY <1>3, CommitsFresh
<1>5. /\ Dates \subseteq Nat /\ Interval \in Nat \ {0} /\ billed \in [Dates -> 0..2]
      /\ Jobs = Dates /\ FirstRun <= d /\ next \in Grid
      /\ UNCHANGED <<today, edit>>
  <2>1. Dates \subseteq Nat /\ Interval \in Nat \ {0} /\ billed \in [Dates -> 0..2]
        /\ Jobs = Dates
    BY BillingAssumption DEF Dates, IInv, HandlerTypes
  <2>2. FirstRun <= d /\ next \in Grid
    BY <1>2, GridSteps
  <2>3. UNCHANGED <<today, edit>>
    BY <1>3 DEF Commits
  <2>4. QED
    BY <2>1, <2>2, <2>3
<1>6. \A e \in Dates : (billed'[e] > 0 <=> billed[e] > 0 \/ e = d) /\ (e # d => billed'[e] = billed[e])
  BY <1>2, <1>5
<1>7. \A x : Bounded(x) => Bounded(x)'
  BY <1>6 DEF Bounded
<1>8. Bounded(next)' /\ Past(next)'
  <2>1. Bounded(next)'
    BY <1>5, <1>6 DEF Bounded
  <2>2. ASSUME NEW e \in Dates, billed'[e] > 0 PROVE e + Interval <= next
    BY <1>2, <1>5, <1>6, <2>2
  <2>3. QED
    BY <2>1, <2>2 DEF Past
<1>9. template'.next \in Grid /\ Bounded(template.next)'
  BY <1>3, <1>5, <1>8 DEF Bounded
<1>10. \A u \in Users : edit'[u] # None => edit'[u].next \in Grid /\ Bounded(edit[u].next)'
  BY <1>5, <1>7 DEF OnSchedule, Bounded
<1>11. \A j \in Jobs : status'[j] # "none" => Bounded(j)'
  BY <1>4, <1>7, <1>8 DEF OnSchedule
<1>12. \A j \in Jobs : FreshJob(j)' => Past(j)'
  BY <1>4, <1>8
<1>13. ASSUME goesOn, \A j \in Jobs : ~FreshJob(j)' PROVE FALSE
  <2>1. next \in Jobs
    BY <1>3, <1>5 DEF IInv, UserTypes, Row
  <2>2. status[next] # "none"
    BY <1>4, <1>13, <2>1
  <2>3. Bounded(next)
    BY <2>1, <2>2 DEF OnSchedule
  <2>4. PICK e \in Dates : billed[e] > 0 /\ next <= e + Interval
    BY <1>5, <2>3 DEF Bounded
  <2>5. QED
    BY <1>2, <1>5, <2>4
<1>14. \A e \in Dates : billed'[e] <= 1 /\ (billed'[e] > 0 => e \in Grid)
  BY <1>2, <1>6 DEF OnSchedule
<1>15. QED
  BY <1>4, <1>9, <1>10, <1>11, <1>12, <1>13, <1>14 DEF OnSchedule

\* Each occurrence billed is one less to bill.
LEMMA BillsCount ==
  ASSUME OneDelivery, IInv, HoldInv, OneChain, OnSchedule, Counted,
         NEW w \in Workers, Bills(w)
  PROVE  Counted'
<1> DEFINE B == {d \in Dates : billed[d] > 0}
<1>1. PICK d \in Dates : d = DateOf(w)
  BY BillsInOrder
<1>2. billed[d] = 0 /\ billed' = [billed EXCEPT ![d] = 1]
  BY <1>1, BillsInOrder
<1>3. PICK new : Commits(w, new)
  BY DEF Bills
<1>4. /\ Reading(w) /\ template'.left = OneLess(run[w].row.left)
      /\ ~PastEnd(d, run[w].row.left)
  BY <1>1 DEF Bills
<1>5. (\A v \in Workers : ~Reading(v)') /\ edit' = edit
  BY <1>3, <1>4, CommitsFresh DEF Commits
<1>6. ASSUME Occurrences # Unlimited
      PROVE  /\ template'.left \in Nat
             /\ Cardinality({e \in Dates : billed'[e] > 0}) + template'.left = Occurrences
  <2>1. /\ run[w].row.left = template.left /\ template.left \in Nat
        /\ Cardinality(B) + template.left = Occurrences
    BY <1>4, <1>6 DEF Counted
  <2>2. template'.left = template.left - 1 /\ template'.left \in Nat
    BY <1>4, <2>1 DEF OneLess, PastEnd
  <2>3. {e \in Dates : billed'[e] > 0} = B \cup {d} /\ d \notin B
    BY <1>2 DEF IInv, HandlerTypes
  <2>4. IsFiniteSet(B)
    <3>1. IsFiniteSet(Dates)
      BY FS_Interval, BillingAssumption DEF Dates
    <3>2. QED
      BY <3>1, FS_Subset
  <2>5. Cardinality(B \cup {d}) = Cardinality(B) + 1 /\ Cardinality(B) \in Nat
    <3> HIDE DEF B
    <3>1. QED
      BY <2>3, <2>4, FS_AddElement, FS_CardinalityType
  <2>6. Cardinality({e \in Dates : billed'[e] > 0}) = Cardinality(B) + 1
    BY <2>3, <2>5
  <2>7. QED
    <3> HIDE DEF B
    <3>1. QED
      BY <2>1, <2>2, <2>5, <2>6
<1>7. QED
  BY <1>5, <1>6 DEF Counted

-----------------------------------------------------------------------------
\* Each way a handler commits keeps the chain.
LEMMA CommitsKeepChain ==
  ASSUME OneDelivery, IInv, IInv', ChainInv, HoldInv',
         NEW w \in Workers, HandlerCommits(w)
  PROVE  ChainInv'
<1>0. Reading(w) /\ HoldInv /\ OneChain
  BY DEF HandlerCommits, FindsInactive, FindsNotDue, FindsEnded, Bills, ChainInv
<1>1. ASSUME NEW new, Commits(w, new), \A i, j \in new : i = j PROVE OneChain'
  <2>1. \A j \in Jobs : FreshJob(j)' => j \in new
    BY <1>0, <1>1, CommitsFresh
  <2>2. QED
    BY <1>1, <2>1 DEF OneChain
<1>2. ASSUME NEW new \in SUBSET {template.next}, Commits(w, new), UNCHANGED billed,
             template'.next = template.next, template'.left = template.left,
             template'.active => template.active
      PROVE  ChainInv'
  <2>1. OneChain'
    BY <1>1, <1>2
  <2>2. /\ \A v \in Workers : ~Reading(v)'
        /\ \A j \in Jobs : status'[j] # "none" => status[j] # "none" \/ j \in new
        /\ OnSchedule => Past(today)
    BY <1>0, <1>2, CommitsFresh
  <2>3. UNCHANGED <<billed, touched, edit, today>> /\ today <= today'
    BY <1>2, BillingAssumption DEF Commits, IInv, HandlerTypes
  <2>4. QED
    BY <1>2, <2>1, <2>2, <2>3, QuietKeeps
<1>3. CASE FindsInactive(w)
  BY <1>2, <1>3 DEF FindsInactive
<1>4. CASE FindsNotDue(w)
  BY <1>2, <1>4 DEF FindsNotDue
<1>5. CASE FindsEnded(w)
  <2>1. template' = [template EXCEPT !.active = FALSE] /\ Commits(w, {}) /\ UNCHANGED billed
    BY <1>5 DEF FindsEnded
  <2>2. template'.next = template.next /\ template'.left = template.left /\ ~template'.active
    BY <2>1 DEF IInv, UserTypes, Row
  <2>3. QED
    BY <1>2, <2>1, <2>2
<1>6. CASE Bills(w)
  <2>1. PICK new : Commits(w, new) /\ \A i, j \in new : i = j
    BY <1>6 DEF Bills
  <2>2. OneChain' /\ touched' = touched
    BY <1>1, <2>1 DEF Commits
  <2>3. OnSchedule => OnSchedule'
    BY <1>0, <1>6, BillsKeepSchedule
  <2>4. OnSchedule /\ Counted => Counted'
    BY <1>0, <1>6, BillsCount
  <2>5. QED
    BY <2>2, <2>3, <2>4 DEF ChainInv
<1>7. QED
  BY <1>3, <1>4, <1>5, <1>6 DEF HandlerCommits

\* A step that leaves jobs and handlers alone leaves the live ones.
LEMMA SameJobs ==
  ASSUME UNCHANGED <<status, run>>
  PROVE  /\ \A j \in Jobs : FreshJob(j)' <=> FreshJob(j)
         /\ \A v \in Workers : Reading(v)' <=> Reading(v)
         /\ OneChain => OneChain'
<1>1. \A j \in Jobs : FreshJob(j)' <=> FreshJob(j)
  BY DEF FreshJob, InGap
<1>2. \A v \in Workers : Reading(v)' <=> Reading(v)
  BY DEF Reading
<1>3. OneChain => OneChain'
  BY <1>1 DEF OneChain
<1>4. QED
  BY <1>1, <1>2, <1>3

\* PATCHes: one that does not set the date writes back a date of the grid.
LEMMA EditsKeepChain ==
  ASSUME IInv, ChainInv, HoldInv', NEW u \in Users, EditReads(u) \/ EditWrites(u)
  PROVE  ChainInv'
<1>0. /\ UNCHANGED <<status, holders, today, run, billed>>
      /\ edit \in [Users -> Row \cup {None}] /\ template \in Row
  BY DEF EditReads, EditWrites, queueVars, IInv, UserTypes
<1>1. /\ \A j \in Jobs : FreshJob(j)' <=> FreshJob(j)
      /\ \A v \in Workers : Reading(v)' <=> Reading(v)
      /\ OneChain'
  BY <1>0, SameJobs DEF ChainInv
<1>2. ASSUME OnSchedule,
             template'.next \in Grid, Bounded(template'.next),
             template'.active = template.active,
             \A v \in Users : edit'[v] # None =>
               edit'[v].next \in Grid /\ Bounded(edit'[v].next)
      PROVE  OnSchedule'
  <2>1. \A t : Bounded(t) => Bounded(t)'
    BY <1>0 DEF Bounded
  <2>2. template'.next \in Grid /\ Bounded(template.next)'
    BY <1>0, <1>2 DEF Bounded
  <2>3. \A v \in Workers : Reading(v)' => run'[v].row.next \in Grid /\ Past(run[v].asOf)'
    BY <1>0, <1>1, <1>2 DEF OnSchedule, Past
  <2>4. \A v \in Users : edit'[v] # None => edit'[v].next \in Grid /\ Bounded(edit[v].next)'
    BY <1>0, <1>2 DEF Bounded
  <2>5. \A j \in Jobs : status'[j] # "none" => Bounded(j)'
    BY <1>0, <1>2, <2>1 DEF OnSchedule
  <2>6. \A j \in Jobs : FreshJob(j)' => Past(j)' \/ Past(today)'
    BY <1>0, <1>1, <1>2 DEF OnSchedule, Past
  <2>7. template'.active /\ (\A j \in Jobs : ~FreshJob(j)') => Past(today)'
    BY <1>0, <1>1, <1>2 DEF OnSchedule, Past
  <2>8. \A d \in Dates : billed'[d] <= 1 /\ (billed'[d] > 0 => d \in Grid)
    BY <1>0, <1>2 DEF OnSchedule
  <2>9. QED
    BY <2>2, <2>3, <2>4, <2>5, <2>6, <2>7, <2>8 DEF OnSchedule
<1>3. CASE EditReads(u)
  <2>1. PICK kind \in Patches \ touched : \E merged \in Merged(kind, template) :
          /\ edit' = [edit EXCEPT ![u] = merged]
          /\ touched' = touched \cup {kind}
    BY <1>3 DEF EditReads
  <2>2. PICK merged \in Merged(kind, template) : edit' = [edit EXCEPT ![u] = merged]
    BY <2>1
  <2>3. template' = template /\ touched' # {}
    BY <1>3, <2>1 DEF EditReads
  <2>4. ASSUME "date" \notin touched' PROVE OnSchedule'
    <3>1. "date" \notin touched /\ kind = "rest" /\ OnSchedule
      BY <2>1, <2>4, BillingAssumption DEF ChainInv
    <3>2. merged.next = template.next
      BY <1>0, <2>2, <3>1 DEF Merged, Row
    <3>3. template.next \in Grid /\ Bounded(template.next)
      BY <3>1 DEF OnSchedule
    <3>4. \A v \in Users : edit'[v] # None =>
            edit'[v].next \in Grid /\ Bounded(edit'[v].next)
      BY <1>0, <2>2, <3>1, <3>2, <3>3 DEF OnSchedule
    <3>5. QED
      BY <1>2, <2>3, <2>4, <3>1, <3>3, <3>4
  <2>5. QED
    BY <1>1, <2>3, <2>4 DEF ChainInv
<1>4. CASE EditWrites(u)
  <2>1. /\ edit[u] # None /\ edit[u] \in Row
        /\ template' = [edit[u] EXCEPT !.active = template.active]
        /\ edit' = [edit EXCEPT ![u] = None] /\ touched' = touched
    BY <1>4 DEF EditWrites, IInv, UserTypes
  <2>2. template'.next = edit[u].next /\ template'.active = template.active
    BY <2>1 DEF Row
  <2>3. ASSUME OnSchedule PROVE OnSchedule'
    <3>1. \A v \in Users : edit'[v] # None =>
            edit'[v].next \in Grid /\ Bounded(edit'[v].next)
      BY <1>0, <2>1, <2>3 DEF OnSchedule
    <3>2. edit[u].next \in Grid /\ Bounded(edit[u].next)
      BY <2>1, <2>3 DEF OnSchedule
    <3>3. QED
      BY <1>2, <2>1, <2>2, <2>3, <3>1, <3>2
  <2>4. ~Counted
    BY <2>1 DEF Counted
  <2>5. QED
    BY <1>1, <2>1, <2>3, <2>4 DEF ChainInv
<1>5. QED
  BY <1>3, <1>4

LEMMA InitChain == Init => ChainInv
<1>1. SUFFICES ASSUME Init PROVE ChainInv
  OBVIOUS
<1>2. HoldInv /\ OneChain
  BY <1>1, BillingAssumption
  DEF Init, HoldInv, HeldIsDue, HeldOnce, RunsHeld, OneChain, FreshJob, Live
<1>3. FirstRun \in Grid /\ FirstRun \in Dates /\ Jobs = Dates
  BY GridSteps, BillingAssumption
<1>4. \A t : Past(t)
  BY <1>1 DEF Init, Past
<1>5. OnSchedule
  BY <1>1, <1>3, <1>4 DEF Init, OnSchedule, Bounded, Reading
<1>6. Counted
  <2>1. {d \in Dates : billed[d] > 0} = {} /\ Cardinality({}) = 0
    BY <1>1, FS_EmptySet DEF Init
  <2>2. Occurrences # Unlimited => template.left = Occurrences /\ Occurrences \in Nat
    BY <1>1, BillingAssumption DEF Init
  <2>3. QED
    BY <1>1, <2>1, <2>2 DEF Init, Counted, Reading
<1>7. QED
  BY <1>2, <1>5, <1>6 DEF ChainInv

LEMMA ChainStays ==
  ASSUME OneDelivery, IInv, ChainInv, [Next]_vars PROVE ChainInv'
<1>0. /\ IInv' /\ HoldInv /\ HoldInv' /\ OneChain /\ today \in Nat /\ today' \in Nat
      /\ run \in [Workers -> Handler \cup {None}]
      /\ \A w \in Workers : run[w] # None => run[w].job \in Jobs
      /\ None \notin Handler
  <2>1. IInv' /\ HoldInv /\ HoldInv' /\ OneChain
    BY StepKeeps, HoldStays DEF ChainInv
  <2>2. QED
    BY <2>1, BillingAssumption DEF IInv, HandlerTypes, Handler
<1>1. ASSUME NEW w \in Workers, Claim(w) PROVE ChainInv'
  <2>1. PICK S \in SUBSET {j \in Jobs : j <= today} : Take(w, S)
    BY <1>1 DEF Claim
  <2>2. /\ UNCHANGED <<today, template, run, edit, billed, touched>>
        /\ \A j \in S : status[j] \in Live
        /\ \A j \in Jobs : status'[j] = IF j \in S THEN "running" ELSE status[j]
    BY <1>1, <2>1 DEF Claim, billVars, Take, Takable, Live
  <2>3. \A j \in Jobs : /\ FreshJob(j)' <=> FreshJob(j)
                        /\ status'[j] # "none" => status[j] # "none"
    BY <2>2 DEF FreshJob, InGap, Live
  <2>4. \A v \in Workers : Reading(v)' => Reading(v) /\ run'[v] = run[v]
    BY <2>2 DEF Reading
  <2>5. OneChain' /\ today <= today'
    BY <1>0, <2>2, <2>3 DEF OneChain
  <2>6. QED
    BY <1>0, <2>2, <2>3, <2>4, <2>5, QuietKeeps
<1>2. ASSUME NEW w \in Workers, HandlerReads(w) PROVE ChainInv'
  <2>1. PICK j \in Jobs : /\ w \in holders[j]
          /\ run' = [run EXCEPT ![w] =
                      [job |-> j, phase |-> "read", asOf |-> today, row |-> template]]
    BY <1>2 DEF HandlerReads
  <2>2. /\ run[w] = None
        /\ UNCHANGED <<status, holders, today, template, edit, billed, touched>>
    BY <1>2 DEF HandlerReads, queueVars
  <2>3. /\ run'[w].job = j /\ run'[w].phase = "read" /\ run'[w].asOf = today
        /\ run'[w].row = template /\ \A v \in Workers \ {w} : run'[v] = run[v]
    BY <1>0, <2>1
  <2>4. \A v \in Workers : InGap(v)' <=> InGap(v)
    BY <2>2, <2>3 DEF InGap
  <2>5. \A i \in Jobs : FreshJob(i)' <=> FreshJob(i)
    BY <2>2, <2>3, <2>4 DEF FreshJob, InGap
  <2>6. status[j] = "running" /\ j <= today /\ FreshJob(j)
    <3>1. \A v \in Workers : InGap(v) /\ run[v].job = j => v = w
      BY <1>0, <2>1 DEF InGap, HoldInv, HeldOnce, RunsHeld
    <3>2. QED
      BY <1>0, <2>1, <2>2, <3>1 DEF HoldInv, HeldIsDue, FreshJob, InGap, Live
  <2>7. OnSchedule => Past(today)
    <3>1. SUFFICES ASSUME OnSchedule PROVE Past(today)
      OBVIOUS
    <3>2. (Past(j) \/ Past(today)) /\ j \in Nat
      BY <2>6, <3>1, BillingAssumption DEF OnSchedule, Dates
    <3>3. QED
      BY <1>0, <2>6, <3>2, PastGrows
  <2>8. \A v \in Workers : Reading(v)' =>
          \/ Reading(v) /\ run'[v] = run[v]
          \/ run'[v].row = template /\ run'[v].asOf = today /\ (OnSchedule => Past(today))
    BY <2>3, <2>7 DEF Reading
  <2>9. OneChain' /\ today <= today'
    BY <1>0, <2>2, <2>5 DEF OneChain
  <2>10. QED
    BY <1>0, <2>2, <2>5, <2>8, <2>9, QuietKeeps
<1>3. ASSUME NEW w \in Workers, HandlerCommits(w) PROVE ChainInv'
  BY <1>0, <1>3, CommitsKeepChain
<1>4. ASSUME NEW w \in Workers, Completes(w) PROVE ChainInv'
  <2>1. /\ InGap(w) /\ run' = [run EXCEPT ![w] = None]
        /\ status' = [status EXCEPT ![run[w].job] = "done"]
        /\ UNCHANGED <<today, template, edit, billed, touched>>
    BY <1>4 DEF Completes, Finish
  <2>2. /\ run[w].job \in Jobs /\ run'[w] = None
        /\ (\A v \in Workers \ {w} : run'[v] = run[v]) /\ ~FreshJob(run[w].job)
    BY <1>0, <2>1 DEF InGap, FreshJob
  <2>3. /\ status'[run[w].job] = "done"
        /\ \A j \in Jobs \ {run[w].job} : status'[j] = status[j]
    BY <1>0, <2>1, <2>2 DEF IInv, QueueTypes
  <2>4. status[run[w].job] # "none"
    BY <1>0, <2>1, <2>2 DEF InGap, HoldInv, RunsHeld, HeldIsDue
  <2>5. \A j \in Jobs : /\ FreshJob(j)' <=> FreshJob(j)
                        /\ status'[j] # "none" => status[j] # "none"
    BY <2>2, <2>3, <2>4 DEF FreshJob, InGap, Live
  <2>6. \A v \in Workers : Reading(v)' => Reading(v) /\ run'[v] = run[v]
    BY <2>2 DEF Reading
  <2>7. OneChain' /\ today <= today'
    BY <1>0, <2>1, <2>5 DEF OneChain
  <2>8. QED
    BY <1>0, <2>1, <2>5, <2>6, <2>7, QuietKeeps
<1>5. ASSUME NEW w \in Workers, Fails(w) PROVE ChainInv'
  <2>1. /\ run[w] # None /\ ~InGap(w) /\ run' = [run EXCEPT ![w] = None]
        /\ \E s \in {"pending", "failed"} : status' = [status EXCEPT ![run[w].job] = s]
        /\ UNCHANGED <<today, template, edit, billed, touched>>
    BY <1>5 DEF Fails, GiveBack, OneDelivery
  <2>2. Reading(w)
    BY <1>0, <2>1 DEF Reading, InGap, Handler
  <2>3. /\ run[w].job \in Jobs /\ FreshJob(run[w].job) /\ run[w].job <= today
        /\ status[run[w].job] = "running"
    BY <1>0, <2>2, ReaderIsFresh
  <2>4. /\ run'[w] = None /\ \A v \in Workers \ {w} : run'[v] = run[v]
    BY <1>0, <2>1
  <2>5. /\ status'[run[w].job] # "none"
        /\ \A j \in Jobs \ {run[w].job} : status'[j] = status[j]
    BY <1>0, <2>1, <2>3 DEF IInv, QueueTypes
  <2>6. \A v \in Workers : InGap(v)' <=> InGap(v) /\ run'[v] = run[v]
    BY <2>1, <2>4 DEF InGap
  <2>7. \A j \in Jobs : /\ FreshJob(j)' => FreshJob(j)
                        /\ status'[j] # "none" => status[j] # "none"
    BY <2>1, <2>3, <2>4, <2>5, <2>6 DEF FreshJob, InGap
  <2>8. OnSchedule => Past(today)
    <3>1. SUFFICES ASSUME OnSchedule PROVE Past(today)
      OBVIOUS
    <3>2. (Past(run[w].job) \/ Past(today)) /\ run[w].job \in Nat
      BY <2>3, <3>1, BillingAssumption DEF OnSchedule, Dates
    <3>3. QED
      BY <1>0, <2>3, <3>2, PastGrows
  <2>9. \A v \in Workers : Reading(v)' => Reading(v) /\ run'[v] = run[v]
    BY <2>4 DEF Reading
  <2>10. OneChain' /\ today <= today'
    BY <1>0, <2>1, <2>7 DEF OneChain
  <2>11. QED
    BY <1>0, <2>1, <2>7, <2>8, <2>9, <2>10, QuietKeeps
<1>6. ASSUME NEW w \in Workers, Dies(w) PROVE ChainInv'
  <2>1. /\ ~InGap(w) /\ run' = [run EXCEPT ![w] = None]
        /\ UNCHANGED <<status, today, template, edit, billed, touched>>
    BY <1>6 DEF Dies, Lose, OneDelivery
  <2>2. run'[w] = None /\ \A v \in Workers \ {w} : run'[v] = run[v]
    BY <1>0, <2>1
  <2>3. \A v \in Workers : InGap(v)' <=> InGap(v) /\ run'[v] = run[v]
    BY <2>1, <2>2 DEF InGap
  <2>4. \A j \in Jobs : FreshJob(j)' <=> FreshJob(j)
    BY <2>1, <2>2, <2>3 DEF FreshJob, InGap
  <2>5. \A v \in Workers : Reading(v)' => Reading(v) /\ run'[v] = run[v]
    BY <2>2 DEF Reading
  <2>6. OneChain' /\ today <= today'
    BY <1>0, <2>1, <2>4 DEF OneChain
  <2>7. QED
    BY <1>0, <2>1, <2>4, <2>5, <2>6, QuietKeeps
<1>7. ASSUME Reap PROVE ChainInv'
  <2>1. /\ template.active /\ \A j \in Jobs : status[j] \notin Live
        /\ status' = [status EXCEPT ![template.next] = "pending"]
        /\ UNCHANGED <<today, template, run, edit, billed, touched>>
    BY <1>7 DEF Reap, Offer, billVars
  <2>2. \A j \in Jobs : ~FreshJob(j)
    BY <2>1 DEF FreshJob
  <2>3. OnSchedule => Past(today)
    BY <2>1, <2>2 DEF OnSchedule
  <2>4. \A j \in Jobs \ {template.next} : status'[j] = status[j]
    BY <2>1 DEF IInv, QueueTypes
  <2>5. \A j \in Jobs : FreshJob(j)' => j = template.next
    BY <2>1, <2>4 DEF FreshJob
  <2>6. \A v \in Workers : Reading(v)' => Reading(v) /\ run'[v] = run[v]
    BY <2>1 DEF Reading
  <2>7. OneChain' /\ today <= today'
    BY <1>0, <2>1, <2>5 DEF OneChain
  <2>8. \A j \in Jobs : status'[j] # "none" => status[j] # "none" \/ j = template.next
    BY <2>4
  <2>9. QED
    BY <1>0, <2>1, <2>3, <2>6, <2>7, <2>8, QuietKeeps
<1>8. ASSUME NEW u \in Users, EditReads(u) \/ EditWrites(u) PROVE ChainInv'
  BY <1>0, <1>8, EditsKeepChain
<1>9. ASSUME Deactivate \/ NextMonth \/ UNCHANGED vars PROVE ChainInv'
  <2>1. /\ UNCHANGED <<status, run, edit, billed, touched>>
        /\ template' = template \/ template' = [template EXCEPT !.active = FALSE]
        /\ today' = today \/ today' = today + 1
    BY <1>9 DEF Deactivate, NextMonth, vars, queueVars, billVars
  <2>2. /\ template'.next = template.next /\ template'.left = template.left
        /\ template'.active => template.active
    BY <2>1 DEF IInv, UserTypes, Row
  <2>3. /\ \A j \in Jobs : FreshJob(j)' <=> FreshJob(j)
        /\ \A v \in Workers : Reading(v)' => Reading(v) /\ run'[v] = run[v]
        /\ OneChain' /\ today <= today'
    BY <1>0, <2>1, SameJobs
  <2>4. QED
    BY <1>0, <2>1, <2>2, <2>3, QuietKeeps
<1>10. QED
  BY <1>1, <1>2, <1>3, <1>4, <1>5, <1>6, <1>7, <1>8, <1>9
  DEF Next

\* While each job is delivered once, one job of a template at a time is still
\* to be handled, and the dates it and its callers hold stay on schedule.
THEOREM ChainInvAlways == OneDelivery => (Spec => [](IInv /\ ChainInv))
<1>1. SUFFICES ASSUME OneDelivery PROVE Spec => [](IInv /\ ChainInv)
  OBVIOUS
<1>2. Init => IInv /\ ChainInv
  BY InitIInv, InitChain
<1>3. IInv /\ ChainInv /\ [Next]_vars => (IInv /\ ChainInv)'
  BY <1>1, StepKeeps, ChainStays
<1>4. QED
  BY <1>2, <1>3, PTL DEF Spec

\* No run date is billed twice while each job is delivered once, however its
\* handlers fail, are retried or reaped and whatever a PATCH writes back of an
\* old schedule, so long as none set the date.
THEOREM BillsOnce == OneDelivery => (Spec => []BilledOnce)
<1>1. IInv /\ ChainInv => BilledOnce
  BY DEF ChainInv, OnSchedule, BilledOnce
<1>2. QED
  BY <1>1, ChainInvAlways, PTL

\* The invoices of a template nobody edits and what is left of its count add up
\* to the count it was created with.
THEOREM OccurrencesCounted == OneDelivery => (Spec => []OccurrencesKept)
<1>1. IInv /\ ChainInv => OccurrencesKept
  BY DEF ChainInv, Counted, OccurrencesKept
<1>2. QED
  BY <1>1, ChainInvAlways, PTL
=============================================================================
