------------------------------ MODULE JobQueue ------------------------------
(***************************************************************************)
(* The durable job queue: the jobs table (migrations/039_jobs.sql),        *)
(* the statements on it (src/jobs/queue.ts), the workers that drain it     *)
(* (src/jobs/worker.ts) and the reapers that reseed it                     *)
(* (src/jobs/reapers.ts with src/recurring/reap.ts, src/dunning/reap.ts).  *)
(*                                                                         *)
(* One element of Jobs is one value of the unique key (client, type,       *)
(* dedup_key), hence at most one row.  Every statement runs in a           *)
(* transaction of its own, so each is a step, and everything may happen    *)
(* between two steps of a worker.  Time is relative: `wait' is run_at      *)
(* minus now (0 once due), `age' is now minus claimed_at and `since' is    *)
(* now minus the `now' a worker passes to claimDue and, after the handler, *)
(* to failJob.                                                             *)
(***************************************************************************)
EXTENDS Naturals, FiniteSets

CONSTANTS
  Jobs,          \* dedup keys
  Revivable,     \* those whose reaper upserts (recurring_generate); the
                 \* others' reaper does ON CONFLICT DO NOTHING (dunning_run)
  Workers,       \* worker processes: the loop and the cron route's drain
  Reapers,       \* concurrent reap sweeps
  NoJob,         \* a value that is not a job
  MaxAttempts,   \* max_attempts of every job
  Lease,         \* leaseTimeoutMs
  Limit,         \* the claim's LIMIT
  BackoffCap,    \* the cap of backoffMs
  AttemptBound,  \* model bound: a job is claimed at most this often per seed
  MaxAbandons,   \* model bound: how many drains die half way
  LateWorkers,   \* TRUE: a batch may still be in work when its lease is over
  SlowReapers    \* TRUE: others commit between a reap's reads and its upsert

ASSUME JobsAssumption ==
  /\ Revivable \subseteq Jobs
  /\ NoJob \notin Jobs

ASSUME BoundsAssumption ==
  /\ MaxAttempts \in Nat \ {0}
  /\ Lease \in Nat
  /\ Limit \in Nat \ {0}
  /\ BackoffCap \in Nat
  /\ AttemptBound \in Nat
  /\ MaxAbandons \in Nat
  /\ \A a \in 0..AttemptBound : 2^a \in Nat

ASSUME EnvironmentAssumption ==
  /\ LateWorkers \in BOOLEAN
  /\ SlowReapers \in BOOLEAN

VARIABLES
  status,    \* jobs.status, "none" while the key has no row
  wait,      \* run_at - now, 0 once due
  age,       \* now - claimed_at of a running job, 0 of any other
  attempts,  \* jobs.attempts
  batch,     \* jobs a drain has claimed and not taken up yet
  job,       \* the job a drain has in hand
  pc,        \* where drainOnce is with that job
  since,     \* now - args.now of the drain
  seen,      \* the attempts failJob has read
  chosen,    \* the row a reaper's statement has found dead
  handled,   \* history: the jobs some handler transaction committed for
  abandons   \* model bound counter

jobVars    == <<status, wait, age, attempts>>
workerVars == <<batch, job, pc, since, seen>>
jobQueueVars == <<jobVars, workerVars, chosen, handled, abandons>>

Statuses == {"none", "pending", "running", "done", "failed"}
Live     == {"pending", "running"}
Points   == {"free", "handler", "complete", "failing", "rescheduling"}

LowerOf(a, b)  == IF a <= b THEN a ELSE b
HigherOf(a, b) == IF a >= b THEN a ELSE b
Monus(a, b)    == IF a <= b THEN 0 ELSE a - b

\* backoffMs: exponential with a cap, in the model's unit of time.
backoffMs(a) == LowerOf(2^a, BackoffCap)

\* Past this age every comparison the code makes has its final outcome.
AgeCap == HigherOf(Lease, BackoffCap) + 1

JobsInit ==
  /\ status = [j \in Jobs |-> "none"]
  /\ wait = [j \in Jobs |-> 0]
  /\ age = [j \in Jobs |-> 0]
  /\ attempts = [j \in Jobs |-> 0]
  /\ batch = [w \in Workers |-> {}]
  /\ job = [w \in Workers |-> NoJob]
  /\ pc = [w \in Workers |-> "free"]
  /\ since = [w \in Workers |-> 0]
  /\ seen = [w \in Workers |-> 0]
  /\ chosen = [r \in Reapers |-> NoJob]
  /\ handled = {}
  /\ abandons = 0

-----------------------------------------------------------------------------
\* The jobs a worker is answerable for, and whether it is in a drain.
Held(w) == batch[w] \cup (IF job[w] = NoJob THEN {} ELSE {job[w]})
Busy(w) == Held(w) # {}

\* Mutant of Enqueue: an upsert.
EnqueueUpserting(j) ==
  /\ status[j] \notin Live
  /\ status' = [status EXCEPT ![j] = "pending"]
  /\ wait' = [wait EXCEPT ![j] = 0]
  /\ UNCHANGED <<age, attempts, workerVars, chosen, handled, abandons>>

\* enqueue by a tenant's request: ON CONFLICT DO NOTHING, so only an absent
\* key gets a row; run_at lies any number of units ahead.
Enqueue(j) ==
  /\ status[j] = "none"
  /\ status' = [status EXCEPT ![j] = "pending"]
  /\ wait' \in {[wait EXCEPT ![j] = d] : d \in 0..BackoffCap}
  /\ UNCHANGED <<age, attempts, workerVars, chosen, handled, abandons>>

\* Mutants of Claimable: whatever is running, however fresh its lease; and
\* nothing that is running, however old.
ClaimableUnleased ==
  {j \in Jobs : /\ status[j] = "running" \/ (status[j] = "pending" /\ wait[j] = 0)
                /\ attempts[j] < AttemptBound}

ClaimablePending ==
  {j \in Jobs : status[j] = "pending" /\ wait[j] = 0 /\ attempts[j] < AttemptBound}

\* claimDue: due pending jobs and running jobs whose lease is over, at most
\* Limit of them, skipping rows another transaction has locked.  run_at only
\* orders the choice among due jobs, any of which may be the oldest.
Claimable ==
  {j \in Jobs : /\ \/ status[j] = "pending" /\ wait[j] = 0
                   \/ status[j] = "running" /\ age[j] > Lease
                /\ attempts[j] < AttemptBound}

LockedByOthers(w) ==
  {job[v] : v \in {u \in Workers \ {w} : pc[u] \in {"complete", "rescheduling"}}}

claimDue(w) ==
  /\ pc[w] = "free" /\ batch[w] = {}
  /\ \E S \in SUBSET Claimable :
       /\ S # {} /\ Cardinality(S) <= Limit
       /\ Cardinality(S) < Limit => Claimable \ S \subseteq LockedByOthers(w)
       /\ batch' = [batch EXCEPT ![w] = S]
       /\ status' = [j \in Jobs |-> IF j \in S THEN "running" ELSE status[j]]
       /\ age' = [j \in Jobs |-> IF j \in S THEN 0 ELSE age[j]]
       /\ attempts' = [j \in Jobs |-> IF j \in S THEN attempts[j] + 1 ELSE attempts[j]]
  /\ since' = [since EXCEPT ![w] = 0]
  /\ UNCHANGED <<wait, job, pc, seen, chosen, handled, abandons>>

\* drainOnce takes up the next job of its batch (RETURNING has no order).
TakeUp(w) ==
  /\ pc[w] = "free"
  /\ \E j \in batch[w] :
       /\ job' = [job EXCEPT ![w] = j]
       /\ batch' = [batch EXCEPT ![w] = @ \ {j}]
  /\ pc' = [pc EXCEPT ![w] = "handler"]
  /\ UNCHANGED <<jobVars, since, seen, chosen, handled, abandons>>

\* Mutant of HandlerCommits: the chain's next job is upserted.
HandlerCommitsUpserting(w) ==
  /\ pc[w] = "handler"
  /\ pc' = [pc EXCEPT ![w] = "complete"]
  /\ handled' = handled \cup {job[w]}
  /\ \E j \in Jobs : status' = [status EXCEPT ![j] = "pending"]
  /\ UNCHANGED <<wait, age, attempts, batch, job, since, seen, chosen, abandons>>

\* The handler's tenant transaction commits, and may have enqueued the next
\* job of its chain in it.
HandlerCommits(w) ==
  /\ pc[w] = "handler"
  /\ pc' = [pc EXCEPT ![w] = "complete"]
  /\ handled' = handled \cup {job[w]}
  /\ \/ UNCHANGED <<status, wait>>
     \/ \E j \in Jobs, d \in 0..BackoffCap :
          /\ status[j] = "none"
          /\ status' = [status EXCEPT ![j] = "pending"]
          /\ wait' = [wait EXCEPT ![j] = d]
  /\ UNCHANGED <<age, attempts, batch, job, since, seen, chosen, abandons>>

\* Mutant of Throws: the error is swallowed.
ThrowsUnnoticed(w) ==
  /\ pc[w] = "handler"
  /\ pc' = [pc EXCEPT ![w] = "complete"]
  /\ UNCHANGED <<jobVars, batch, job, since, seen, chosen, handled, abandons>>

\* The handler throws (or none is registered): its transaction rolls back.
\* completeJob may throw too, after the handler has committed.
Throws(w) ==
  /\ pc[w] \in {"handler", "complete"}
  /\ pc' = [pc EXCEPT ![w] = "failing"]
  /\ UNCHANGED <<jobVars, batch, job, since, seen, chosen, handled, abandons>>

\* The drain is done with its job.
Release(w) ==
  /\ job' = [job EXCEPT ![w] = NoJob]
  /\ pc' = [pc EXCEPT ![w] = "free"]
  /\ since' = [since EXCEPT ![w] = IF batch[w] = {} THEN 0 ELSE @]

\* completeJob: by id, whatever the row's status is by now.
completeJob(w) ==
  /\ pc[w] = "complete"
  /\ status' = [status EXCEPT ![job[w]] = "done"]
  /\ age' = [age EXCEPT ![job[w]] = 0]
  /\ Release(w)
  /\ UNCHANGED <<wait, attempts, batch, seen, chosen, handled, abandons>>

\* failJob's SELECT.
FailRead(w) ==
  /\ pc[w] = "failing"
  /\ pc' = [pc EXCEPT ![w] = "rescheduling"]
  /\ seen' = [seen EXCEPT ![w] = attempts[job[w]]]
  /\ UNCHANGED <<jobVars, batch, job, since, chosen, handled, abandons>>

\* Mutant of Exhausted: off by one.
ExhaustedLate(a) == a > MaxAttempts

Exhausted(a) == a >= MaxAttempts

\* failJob's UPDATE: dead at max_attempts, else pending again, the backoff
\* counted from the drain's own args.now.
failJob(w) ==
  /\ pc[w] = "rescheduling"
  /\ IF Exhausted(seen[w])
       THEN /\ status' = [status EXCEPT ![job[w]] = "failed"]
            /\ UNCHANGED wait
       ELSE /\ status' = [status EXCEPT ![job[w]] = "pending"]
            /\ wait' = [wait EXCEPT ![job[w]] = Monus(backoffMs(seen[w]), since[w])]
  /\ seen' = [seen EXCEPT ![w] = 0]
  /\ age' = [age EXCEPT ![job[w]] = 0]
  /\ Release(w)
  /\ UNCHANGED <<attempts, batch, chosen, handled, abandons>>

\* The process dies, or failJob itself throws out of drainOnce: what is left
\* of the batch stays running, for the lease to give back.
Abandon(w) ==
  /\ Busy(w) /\ abandons < MaxAbandons
  /\ abandons' = abandons + 1
  /\ batch' = [batch EXCEPT ![w] = {}]
  /\ job' = [job EXCEPT ![w] = NoJob]
  /\ pc' = [pc EXCEPT ![w] = "free"]
  /\ since' = [since EXCEPT ![w] = 0]
  /\ seen' = [seen EXCEPT ![w] = 0]
  /\ UNCHANGED <<jobVars, chosen, handled>>

-----------------------------------------------------------------------------
\* A reap's statement reads: NOT EXISTS a live job for the chain (the policy
\* or template that makes the chain due is the environment's).
ReapRead(r) ==
  /\ chosen[r] = NoJob
  /\ \E j \in Jobs :
       /\ status[j] \notin Live
       /\ chosen' = [chosen EXCEPT ![r] = j]
  /\ UNCHANGED <<jobVars, workerVars, handled, abandons>>

\* Its INSERT lands: a new row, or, for reapRecurring, ON CONFLICT DO UPDATE,
\* which does not look at the status of the row it meets.
Reseeds(j) ==
  IF status[j] = "none" THEN TRUE
  ELSE j \in Revivable /\ (SlowReapers \/ status[j] \notin Live)

ReapWrite(r) ==
  LET j == chosen[r] IN
  /\ j # NoJob
  /\ chosen' = [chosen EXCEPT ![r] = NoJob]
  /\ IF Reseeds(j)
       THEN /\ status' = [status EXCEPT ![j] = "pending"]
            /\ wait' = [wait EXCEPT ![j] = 0]
            /\ attempts' = [attempts EXCEPT ![j] = 0]
            /\ age' = [age EXCEPT ![j] = 0]
       ELSE UNCHANGED jobVars
  /\ UNCHANGED <<workerVars, handled, abandons>>

\* Time passes.  With LateWorkers FALSE, no batch is in work past its lease.
Tick ==
  /\ LateWorkers \/ \A w \in Workers : Busy(w) => since[w] < Lease
  /\ wait' = [j \in Jobs |-> Monus(wait[j], 1)]
  /\ age' = [j \in Jobs |-> IF status[j] = "running"
                              THEN LowerOf(age[j] + 1, AgeCap) ELSE age[j]]
  /\ since' = [w \in Workers |-> IF Busy(w)
                                   THEN LowerOf(since[w] + 1, AgeCap) ELSE since[w]]
  /\ UNCHANGED <<status, attempts, batch, job, pc, seen, chosen, handled, abandons>>

WorkerStep(w) ==
  \/ claimDue(w) \/ TakeUp(w) \/ HandlerCommits(w) \/ Throws(w)
  \/ completeJob(w) \/ FailRead(w) \/ failJob(w) \/ Abandon(w)

JobsNext ==
  \/ \E j \in Jobs : Enqueue(j)
  \/ \E w \in Workers : WorkerStep(w)
  \/ \E r \in Reapers : ReapRead(r) \/ ReapWrite(r)
  \/ Tick

JobsSpec == JobsInit /\ [][JobsNext]_jobQueueVars

\* What the scheduling guarantees: the clock moves, a drain goes on to its
\* next step, and the poll comes back until the job that is due longest (the
\* claim is ORDER BY run_at) is among those claimed.
ClaimOfJob(j) == \E w \in Workers : claimDue(w) /\ j \in batch'[w]

Fairness ==
  /\ WF_jobQueueVars(Tick)
  /\ \A w \in Workers :
       /\ WF_jobQueueVars(TakeUp(w))
       /\ WF_jobQueueVars(HandlerCommits(w) \/ Throws(w) \/ completeJob(w))
       /\ WF_jobQueueVars(FailRead(w))
       /\ WF_jobQueueVars(failJob(w))
  /\ \A j \in Jobs : SF_jobQueueVars(ClaimOfJob(j))

FairSpec == JobsSpec /\ Fairness

-----------------------------------------------------------------------------
JobsTypeOK ==
  /\ status \in [Jobs -> Statuses]
  /\ wait \in [Jobs -> Nat]
  /\ age \in [Jobs -> Nat]
  /\ attempts \in [Jobs -> 0..AttemptBound]
  /\ batch \in [Workers -> SUBSET Jobs]
  /\ job \in [Workers -> Jobs \cup {NoJob}]
  /\ pc \in [Workers -> Points]
  /\ \A w \in Workers : job[w] = NoJob <=> pc[w] = "free"
  /\ since \in [Workers -> Nat]
  /\ seen \in [Workers -> 0..AttemptBound]
  /\ chosen \in [Reapers -> Jobs \cup {NoJob}]
  /\ handled \subseteq Jobs
  /\ abandons \in Nat

\* At least once: a job is only ever marked done after a handler transaction
\* of it has committed, however late or often its workers come back.
DoneWasHandled == \A j \in Jobs : status[j] = "done" => j \in handled

\* queue.ts, failJob: "claimDue's SKIP LOCKED + lease guarantees a single
\* owner per running job".  No two drains hold a job, and a held job is
\* running.
SingleOwner ==
  /\ \A v, w \in Workers : v # w => Held(v) \cap Held(w) = {}
  /\ \A w \in Workers : job[w] \notin batch[w]

HeldIsRunning == \A w \in Workers : \A j \in Held(w) : status[j] = "running"

\* A job ends failed only when its attempts are used up, and attempts beyond
\* max_attempts are claims of a job some worker has abandoned: only failJob
\* looks at max_attempts, the lease does not.
FailedIsExhausted ==
  \A j \in Jobs : status[j] = "failed" => attempts[j] >= MaxAttempts

AttemptsAreSpent ==
  \A j \in Jobs : attempts[j] <= MaxAttempts + abandons

\* A job that has ended (done, failed) runs again only when a reap upserts it:
\* "at max_attempts: terminal `failed', never re-runs. completeJob: terminal
\* `done'" (docs/superpowers/specs/2026-07-14-job-queue-infra-design.md).
EndedByWorkers ==
  \A j \in Jobs :
    /\ status[j] \in {"done", "failed"}
    /\ status'[j] # status[j]
    => \E r \in Reapers : chosen[r] = j /\ chosen'[r] = NoJob

EndsAreTerminal == [][EndedByWorkers]_jobQueueVars

\* Nothing is stuck: a live job ends, done or failed, whatever throws and
\* whichever workers die on it.
JobsEnd ==
  \A j \in Jobs : status[j] \in Live ~> status[j] \in {"done", "failed"}
=============================================================================
