----------------------------- MODULE LeaseQueue -----------------------------
(***************************************************************************)
(* What the job queue promises to the handlers that run on it, without     *)
(* clocks, leases, attempts or batches: a job is offered, taken by a       *)
(* worker, worked on, and finished, given back or lost.  It is delivered   *)
(* at least once, and, unless Overlap is TRUE, to one worker at a time.    *)
(* JobQueue implements it; the modules about handlers build on it.         *)
(***************************************************************************)
CONSTANTS
  Jobs,      \* dedup keys
  Workers,   \* worker processes
  Overlap    \* TRUE: a job may be taken or revived while others hold it

VARIABLES
  status,    \* jobs.status, "none" while the key has no row
  holders,   \* the workers that have the job in their drain
  handled    \* the jobs some handler transaction committed for

queueVars == <<status, holders, handled>>

Live == {"pending", "running"}

QueueInit ==
  /\ status = [j \in Jobs |-> "none"]
  /\ holders = [j \in Jobs |-> {}]
  /\ handled = {}

\* New rows for those keys of `new' that have none.
Offered(new) ==
  [j \in Jobs |-> IF j \in new /\ status[j] = "none" THEN "pending" ELSE status[j]]

\* A tenant's enqueue, or a reap's upsert of a job that has ended.
Offer(j) ==
  /\ status[j] \notin Live \/ Overlap
  /\ status' = [status EXCEPT ![j] = "pending"]
  /\ UNCHANGED <<holders, handled>>

\* A claim: pending jobs, and running ones whose worker is gone.
Takable(j) ==
  \/ status[j] = "pending"
  \/ status[j] = "running" /\ (Overlap \/ holders[j] = {})

Take(w, S) ==
  /\ \A j \in Jobs : w \notin holders[j]
  /\ S # {} /\ \A j \in S : Takable(j)
  /\ status' = [j \in Jobs |-> IF j \in S THEN "running" ELSE status[j]]
  /\ holders' = [j \in Jobs |-> IF j \in S THEN holders[j] \cup {w} ELSE holders[j]]
  /\ UNCHANGED handled

\* The handler commits, and enqueues the jobs of `new' in its transaction.
Work(w, j, new) ==
  /\ w \in holders[j]
  /\ handled' = handled \cup {j}
  /\ status' = Offered(new)
  /\ UNCHANGED holders

LetGo(w, j) == holders' = [holders EXCEPT ![j] = @ \ {w}]

Finish(w, j) ==
  /\ w \in holders[j]
  /\ j \in handled
  /\ status' = [status EXCEPT ![j] = "done"]
  /\ LetGo(w, j)
  /\ UNCHANGED handled

\* The job failed: it is retried, or dead.
GiveBack(w, j) ==
  /\ w \in holders[j]
  /\ \E s \in {"pending", "failed"} : status' = [status EXCEPT ![j] = s]
  /\ LetGo(w, j)
  /\ UNCHANGED handled

\* A worker dies: its jobs stay running, with nobody on them.
Lose(w) ==
  /\ holders' = [j \in Jobs |-> holders[j] \ {w}]
  /\ UNCHANGED <<status, handled>>

QueueNext ==
  \/ \E j \in Jobs : Offer(j)
  \/ \E w \in Workers :
       \/ \E S \in SUBSET Jobs : Take(w, S)
       \/ \E j \in Jobs :
            \/ \E new \in SUBSET Jobs : Work(w, j, new)
            \/ Finish(w, j)
            \/ GiveBack(w, j)
       \/ Lose(w)

QueueSpec == QueueInit /\ [][QueueNext]_queueVars
=============================================================================
