----------------------------- MODULE QueueProofs -----------------------------
(***************************************************************************)
(* Theorems about the two queues.  First the durable queue of jobs, for    *)
(* every number of jobs, workers and reaps and every lease, limit and      *)
(* backoff.  Then what waits for a proposal: expense claims, for all       *)
(* claims, totals and sessions, and the approval queue, for all its        *)
(* documents.                                                              *)
(***************************************************************************)
EXTENDS JobQueueRefinement, ExpenseClaims, Approvals, TLAPS

LEMMA MonusNat == \A a, b \in Nat : Monus(a, b) \in Nat /\ Monus(a, b) <= a
BY DEF Monus

LEMMA LowerNat == \A a, b \in Nat : LowerOf(a, b) \in Nat
BY DEF LowerOf

LEMMA BackoffNat == \A a \in 0..AttemptBound : backoffMs(a) \in Nat
BY BoundsAssumption DEF backoffMs, LowerOf

LEMMA AgeCapNat == AgeCap \in Nat /\ AgeCap > Lease
BY BoundsAssumption DEF AgeCap, HigherOf

-----------------------------------------------------------------------------
\* Type correctness of the queue's rows, its workers and its reaps.
THEOREM JobsTypeCorrect == JobsSpec => []JobsTypeOK
<1>1. JobsInit => JobsTypeOK
  BY JobsAssumption, BoundsAssumption DEF JobsInit, JobsTypeOK, Statuses, Points
<1>2. JobsTypeOK /\ [JobsNext]_jobQueueVars => JobsTypeOK'
  <2> SUFFICES ASSUME JobsTypeOK, [JobsNext]_jobQueueVars PROVE JobsTypeOK'
    OBVIOUS
  <2> USE JobsAssumption, BoundsAssumption DEF JobsTypeOK, Statuses, Points, jobVars, workerVars
  <2>1. ASSUME NEW j \in Jobs, Enqueue(j) PROVE JobsTypeOK'
    BY <2>1 DEF Enqueue
  <2>2. ASSUME NEW w \in Workers, claimDue(w) PROVE JobsTypeOK'
    BY <2>2 DEF claimDue, Claimable
  <2>3. ASSUME NEW w \in Workers, TakeUp(w) PROVE JobsTypeOK'
    BY <2>3 DEF TakeUp
  <2>4. ASSUME NEW w \in Workers, HandlerCommits(w) PROVE JobsTypeOK'
    <3>1. job[w] \in Jobs /\ handled' \subseteq Jobs
      BY <2>4 DEF HandlerCommits
    <3>2. status' \in [Jobs -> Statuses] /\ wait' \in [Jobs -> Nat]
      BY <2>4 DEF HandlerCommits
    <3>3. pc' \in [Workers -> Points]
          /\ \A v \in Workers : job'[v] = NoJob <=> pc'[v] = "free"
      BY <2>4 DEF HandlerCommits
    <3>4. QED
      BY <2>4, <3>1, <3>2, <3>3 DEF HandlerCommits
  <2>5. ASSUME NEW w \in Workers, Throws(w) PROVE JobsTypeOK'
    BY <2>5 DEF Throws
  <2>6. ASSUME NEW w \in Workers, completeJob(w) PROVE JobsTypeOK'
    BY <2>6 DEF completeJob, Release
  <2>7. ASSUME NEW w \in Workers, FailRead(w) PROVE JobsTypeOK'
    BY <2>7 DEF FailRead
  <2>8. ASSUME NEW w \in Workers, failJob(w) PROVE JobsTypeOK'
    <3>1. Monus(backoffMs(seen[w]), since[w]) \in Nat
      BY <2>8, BackoffNat, MonusNat
    <3>2. status' \in [Jobs -> Statuses] /\ wait' \in [Jobs -> Nat]
      BY <2>8, <3>1 DEF failJob, Exhausted
    <3>3. QED
      BY <2>8, <3>2 DEF failJob, Exhausted, Release
  <2>9. ASSUME NEW w \in Workers, Abandon(w) PROVE JobsTypeOK'
    BY <2>9 DEF Abandon
  <2>10. ASSUME NEW r \in Reapers, ReapRead(r) PROVE JobsTypeOK'
    BY <2>10 DEF ReapRead
  <2>11. ASSUME NEW r \in Reapers, ReapWrite(r) PROVE JobsTypeOK'
    BY <2>11 DEF ReapWrite
  <2>12. ASSUME Tick PROVE JobsTypeOK'
    <3>1. wait' \in [Jobs -> Nat]
      BY <2>12, MonusNat DEF Tick
    <3>2. age' \in [Jobs -> Nat]
      BY <2>12, LowerNat, AgeCapNat DEF Tick
    <3>3. since' \in [Workers -> Nat]
      BY <2>12, LowerNat, AgeCapNat DEF Tick
    <3>4. QED
      BY <2>12, <3>1, <3>2, <3>3 DEF Tick
  <2>13. CASE UNCHANGED jobQueueVars
    BY <2>13 DEF jobQueueVars
  <2>14. QED
    BY <2>1, <2>2, <2>3, <2>4, <2>5, <2>6, <2>7, <2>8, <2>9, <2>10, <2>11,
       <2>12, <2>13 DEF JobsNext, WorkerStep
<1>3. QED
  BY <1>1, <1>2, PTL DEF JobsSpec

-----------------------------------------------------------------------------
(***************************************************************************)
(* What a step does to the jobs a worker is answerable for.                *)
(***************************************************************************)
InHandOnce == \A w \in Workers : job[w] \notin batch[w]

\* A claim gives an idle worker the jobs it chose.
LEMMA HeldAfterClaim ==
  ASSUME JobsTypeOK, NEW w \in Workers, claimDue(w)
  PROVE  /\ Held(w) = {}
         /\ Held(w)' = batch'[w]
         /\ \A v \in Workers \ {w} : Held(v)' = Held(v)
BY JobsAssumption DEF JobsTypeOK, claimDue, Held

\* Taking up a job moves it from the batch into hand.
LEMMA HeldAfterTakeUp ==
  ASSUME JobsTypeOK, NEW w \in Workers, TakeUp(w)
  PROVE  \A v \in Workers : Held(v)' = Held(v)
<1>1. PICK j \in batch[w] : /\ job' = [job EXCEPT ![w] = j]
                            /\ batch' = [batch EXCEPT ![w] = @ \ {j}]
  BY DEF TakeUp
<1>2. job[w] = NoJob /\ j # NoJob
  BY <1>1, JobsAssumption DEF JobsTypeOK, TakeUp
<1>3. Held(w)' = Held(w)
  BY <1>1, <1>2 DEF JobsTypeOK, Held
<1>4. ASSUME NEW v \in Workers, v # w PROVE Held(v)' = Held(v)
  BY <1>1, <1>4 DEF JobsTypeOK, Held
<1>5. QED
  BY <1>3, <1>4

\* Ending a job lets go of it and of nothing else.
LEMMA HeldAfterRelease ==
  ASSUME JobsTypeOK, InHandOnce, NEW w \in Workers, job[w] # NoJob,
         Release(w), batch' = batch
  PROVE  /\ Held(w)' = Held(w) \ {job[w]}
         /\ \A v \in Workers \ {w} : Held(v)' = Held(v)
BY DEF JobsTypeOK, InHandOnce, Release, Held

\* A worker that dies holds nothing.
LEMMA HeldAfterAbandon ==
  ASSUME JobsTypeOK, NEW w \in Workers, Abandon(w)
  PROVE  /\ Held(w)' = {}
         /\ \A v \in Workers \ {w} : Held(v)' = Held(v)
BY DEF JobsTypeOK, Abandon, Held

LEMMA HeldUnchanged ==
  ASSUME UNCHANGED <<batch, job>>
  PROVE  \A v \in Workers : Held(v)' = Held(v)
BY DEF Held

-----------------------------------------------------------------------------
(***************************************************************************)
(* Whatever the environment does, a worker about to call completeJob has   *)
(* seen its handler commit, and no job is in its batch and in its hand.    *)
(***************************************************************************)
CompletingIsHandled ==
  \A w \in Workers : pc[w] = "complete" => job[w] \in handled

AnyInv == JobsTypeOK /\ DoneWasHandled /\ CompletingIsHandled /\ InHandOnce

LEMMA AnyInvInductive == AnyInv /\ JobsTypeOK' /\ [JobsNext]_jobQueueVars => AnyInv'
<1> SUFFICES ASSUME AnyInv, JobsTypeOK', [JobsNext]_jobQueueVars PROVE AnyInv'
  OBVIOUS
<1> USE DEF AnyInv, DoneWasHandled, CompletingIsHandled, InHandOnce, JobsTypeOK
<1>1. ASSUME NEW j \in Jobs, Enqueue(j) PROVE AnyInv'
  BY <1>1 DEF Enqueue, workerVars
<1>2. ASSUME NEW w \in Workers, claimDue(w) PROVE AnyInv'
  BY <1>2, JobsAssumption DEF claimDue
<1>3. ASSUME NEW w \in Workers, TakeUp(w) PROVE AnyInv'
  BY <1>3 DEF TakeUp, jobVars
<1>4. ASSUME NEW w \in Workers, HandlerCommits(w) PROVE AnyInv'
  BY <1>4 DEF HandlerCommits
<1>5. ASSUME NEW w \in Workers, Throws(w) PROVE AnyInv'
  BY <1>5 DEF Throws, jobVars
<1>6. ASSUME NEW w \in Workers, completeJob(w) PROVE AnyInv'
  BY <1>6, JobsAssumption DEF completeJob, Release
<1>7. ASSUME NEW w \in Workers, FailRead(w) PROVE AnyInv'
  BY <1>7 DEF FailRead, jobVars
<1>8. ASSUME NEW w \in Workers, failJob(w) PROVE AnyInv'
  BY <1>8, JobsAssumption DEF failJob, Exhausted, Release
<1>9. ASSUME NEW w \in Workers, Abandon(w) PROVE AnyInv'
  BY <1>9, JobsAssumption DEF Abandon, jobVars
<1>10. ASSUME NEW r \in Reapers, ReapRead(r) PROVE AnyInv'
  BY <1>10 DEF ReapRead, jobVars, workerVars
<1>11. ASSUME NEW r \in Reapers, ReapWrite(r) PROVE AnyInv'
  BY <1>11 DEF ReapWrite, jobVars, workerVars
<1>12. ASSUME Tick PROVE AnyInv'
  BY <1>12 DEF Tick
<1>13. CASE UNCHANGED jobQueueVars
  BY <1>13 DEF jobQueueVars, jobVars, workerVars
<1>14. QED
  BY <1>1, <1>2, <1>3, <1>4, <1>5, <1>6, <1>7, <1>8, <1>9, <1>10, <1>11,
     <1>12, <1>13 DEF JobsNext, WorkerStep

\* What holds of every queue, with late workers too.
THEOREM AnyInvAlways == JobsSpec => []AnyInv
<1>1. JobsInit => AnyInv
  BY JobsAssumption, BoundsAssumption
     DEF JobsInit, AnyInv, JobsTypeOK, Statuses, Points, DoneWasHandled,
         CompletingIsHandled, InHandOnce
<1>2. QED
  BY <1>1, JobsTypeCorrect, AnyInvInductive, PTL DEF JobsSpec

\* At least once (queue.ts, worker.ts): a job marked done has had a handler
\* transaction committed for it, with late workers and racing reaps too.
THEOREM DoneIsHandled == JobsSpec => []DoneWasHandled
BY AnyInvAlways, PTL DEF AnyInv

-----------------------------------------------------------------------------
(***************************************************************************)
(* While workers keep their leases and nothing commits between a reap's    *)
(* reads and its upsert.  The age of a job and the time its worker has had *)
(* it are the same clock, so a worker within its lease keeps its jobs from *)
(* being claimed again; from that everything else follows.                 *)
(***************************************************************************)
Prompt == ~LateWorkers /\ ~SlowReapers

HeldWithinLease ==
  \A w \in Workers : \A j \in Held(w) : age[j] = since[w] /\ since[w] <= Lease

OwnerInv == SingleOwner /\ HeldIsRunning /\ HeldWithinLease

\* A step that moves no job between workers keeps OwnerInv, if it keeps the
\* status and age of held jobs.
LEMMA OwnerFrame ==
  ASSUME JobsTypeOK, OwnerInv, InHandOnce', since' = since,
         \A w \in Workers : Held(w)' = Held(w),
         \A j \in Jobs : status[j] = "running" => status'[j] = "running" /\ age'[j] = age[j]
  PROVE  OwnerInv'
<1>1. \A w \in Workers : Held(w) \subseteq Jobs
  BY DEF JobsTypeOK, Held
<1>2. QED
  BY <1>1 DEF OwnerInv, SingleOwner, HeldIsRunning, HeldWithinLease, InHandOnce

\* Neither does ending a job.
LEMMA OwnerRelease ==
  ASSUME JobsTypeOK, OwnerInv, InHandOnce, InHandOnce',
         NEW w \in Workers, job[w] # NoJob, Release(w), batch' = batch,
         \A j \in Jobs \ {job[w]} : status'[j] = status[j] /\ age'[j] = age[j]
  PROVE  OwnerInv'
<1>1. /\ Held(w)' = Held(w) \ {job[w]}
      /\ \A v \in Workers \ {w} : Held(v)' = Held(v)
  BY HeldAfterRelease
<1>2. job[w] \in Held(w) /\ \A v \in Workers : Held(v) \subseteq Jobs
  BY DEF JobsTypeOK, Held
<1>3. \A v \in Workers : Held(v)' # {} => since'[v] = since[v]
  <2>1. \A v \in Workers \ {w} : since'[v] = since[v]
    BY DEF Release, JobsTypeOK
  <2>2. Held(w)' # {} => batch[w] # {}
    BY DEF Release, Held, JobsTypeOK
  <2>3. QED
    BY <2>1, <2>2 DEF Release, JobsTypeOK
<1>4. \A v \in Workers : job[w] \notin Held(v)'
  BY <1>1, <1>2 DEF OwnerInv, SingleOwner
<1>5. QED
  BY <1>1, <1>2, <1>3, <1>4
     DEF OwnerInv, SingleOwner, HeldIsRunning, HeldWithinLease, InHandOnce

LEMMA OwnerInvInductive ==
  ASSUME Prompt, AnyInv, AnyInv', OwnerInv, [JobsNext]_jobQueueVars
  PROVE  OwnerInv'
<1> USE DEF AnyInv
<1>0. \A w \in Workers : Held(w) \subseteq Jobs
  BY DEF JobsTypeOK, Held
<1>1. ASSUME NEW j \in Jobs, Enqueue(j) PROVE OwnerInv'
  BY <1>1, OwnerFrame, HeldUnchanged DEF Enqueue, workerVars, JobsTypeOK
<1>2. ASSUME NEW w \in Workers, claimDue(w) PROVE OwnerInv'
  <2>1. PICK S \in SUBSET Claimable :
          /\ batch' = [batch EXCEPT ![w] = S]
          /\ status' = [j \in Jobs |-> IF j \in S THEN "running" ELSE status[j]]
          /\ age' = [j \in Jobs |-> IF j \in S THEN 0 ELSE age[j]]
    BY <1>2 DEF claimDue
  <2>2. S \subseteq Jobs /\ \A v \in Workers : S \cap Held(v) = {}
    <3>1. SUFFICES ASSUME NEW v \in Workers, NEW j \in S, j \in Held(v) PROVE FALSE
      BY DEF Claimable
    <3>2. status[j] = "running" /\ age[j] <= Lease
      BY <3>1 DEF OwnerInv, HeldIsRunning, HeldWithinLease
    <3>3. j \in Jobs /\ (status[j] = "pending" \/ age[j] > Lease)
      BY DEF Claimable
    <3>4. QED
      BY <3>2, <3>3, BoundsAssumption DEF JobsTypeOK
  <2>3. /\ Held(w)' = S
        /\ \A v \in Workers \ {w} : Held(v)' = Held(v)
    BY <1>2, <2>1, HeldAfterClaim DEF JobsTypeOK
  <2>4. since' = [since EXCEPT ![w] = 0]
    BY <1>2 DEF claimDue
  <2>5. SingleOwner'
    BY <2>2, <2>3 DEF OwnerInv, SingleOwner, InHandOnce
  <2>6. HeldIsRunning'
    BY <2>1, <2>2, <2>3, <1>0 DEF OwnerInv, HeldIsRunning
  <2>7. HeldWithinLease'
    BY <2>1, <2>2, <2>3, <2>4, <1>0, BoundsAssumption
       DEF OwnerInv, HeldWithinLease, JobsTypeOK
  <2>8. QED
    BY <2>5, <2>6, <2>7 DEF OwnerInv
<1>3. ASSUME NEW w \in Workers, TakeUp(w) PROVE OwnerInv'
  BY <1>3, OwnerFrame, HeldAfterTakeUp DEF TakeUp, jobVars
<1>4. ASSUME NEW w \in Workers, HandlerCommits(w) PROVE OwnerInv'
  <2>1. \A j \in Jobs : status[j] = "running" => status'[j] = "running" /\ age'[j] = age[j]
    BY <1>4 DEF HandlerCommits, JobsTypeOK
  <2>2. QED
    BY <1>4, <2>1, OwnerFrame, HeldUnchanged DEF HandlerCommits
<1>5. ASSUME NEW w \in Workers, Throws(w) PROVE OwnerInv'
  BY <1>5, OwnerFrame, HeldUnchanged DEF Throws, jobVars
<1>6. ASSUME NEW w \in Workers, completeJob(w) PROVE OwnerInv'
  BY <1>6, OwnerRelease DEF completeJob, JobsTypeOK
<1>7. ASSUME NEW w \in Workers, FailRead(w) PROVE OwnerInv'
  BY <1>7, OwnerFrame, HeldUnchanged DEF FailRead, jobVars
<1>8. ASSUME NEW w \in Workers, failJob(w) PROVE OwnerInv'
  <2>1. \A j \in Jobs \ {job[w]} : status'[j] = status[j] /\ age'[j] = age[j]
    BY <1>8 DEF failJob, Exhausted, JobsTypeOK
  <2>2. QED
    BY <1>8, <2>1, OwnerRelease DEF failJob, Exhausted, JobsTypeOK
<1>9. ASSUME NEW w \in Workers, Abandon(w) PROVE OwnerInv'
  <2>1. /\ Held(w)' = {}
        /\ \A v \in Workers \ {w} : Held(v)' = Held(v)
    BY <1>9, HeldAfterAbandon
  <2>2. status' = status /\ age' = age /\ \A v \in Workers \ {w} : since'[v] = since[v]
    BY <1>9 DEF Abandon, jobVars, JobsTypeOK
  <2>3. QED
    BY <2>1, <2>2
       DEF OwnerInv, SingleOwner, HeldIsRunning, HeldWithinLease, InHandOnce
<1>10. ASSUME NEW r \in Reapers, ReapRead(r) PROVE OwnerInv'
  BY <1>10, OwnerFrame, HeldUnchanged DEF ReapRead, jobVars, workerVars
<1>11. ASSUME NEW r \in Reapers, ReapWrite(r) PROVE OwnerInv'
  <2>1. \A j \in Jobs : status[j] = "running" => status'[j] = "running" /\ age'[j] = age[j]
    BY <1>11, JobsAssumption DEF ReapWrite, Reseeds, Live, Prompt, jobVars, JobsTypeOK
  <2>2. QED
    BY <1>11, <2>1, OwnerFrame, HeldUnchanged DEF ReapWrite, workerVars
<1>12. ASSUME Tick PROVE OwnerInv'
  <2>1. \A w \in Workers : Held(w)' = Held(w)
    BY <1>12, HeldUnchanged DEF Tick
  <2>2. SingleOwner' /\ HeldIsRunning'
    BY <1>12, <2>1 DEF Tick, OwnerInv, SingleOwner, HeldIsRunning, InHandOnce
  <2>3. ASSUME NEW w \in Workers, NEW j \in Held(w)
        PROVE  age'[j] = since'[w] /\ since'[w] <= Lease
    <3>1. j \in Jobs /\ status[j] = "running" /\ age[j] = since[w] /\ since[w] < Lease
      BY <1>12, <1>0 DEF Tick, Prompt, Busy, OwnerInv, HeldIsRunning, HeldWithinLease
    <3>2. since[w] \in Nat /\ LowerOf(since[w] + 1, AgeCap) = since[w] + 1
      BY <3>1, AgeCapNat, BoundsAssumption DEF LowerOf, JobsTypeOK
    <3>3. age'[j] = LowerOf(since[w] + 1, AgeCap)
      BY <1>12, <3>1 DEF Tick
    <3>4. since'[w] = LowerOf(since[w] + 1, AgeCap)
      BY <1>12 DEF Tick, Busy
    <3>5. QED
      BY <3>1, <3>2, <3>3, <3>4, BoundsAssumption
  <2>4. QED
    BY <2>1, <2>2, <2>3 DEF OwnerInv, HeldWithinLease
<1>13. CASE UNCHANGED jobQueueVars
  BY <1>13, OwnerFrame, HeldUnchanged DEF jobQueueVars, jobVars, workerVars
<1>14. QED
  BY <1>1, <1>2, <1>3, <1>4, <1>5, <1>6, <1>7, <1>8, <1>9, <1>10, <1>11,
     <1>12, <1>13 DEF JobsNext, WorkerStep

\* What holds while no drain outlives its lease.
THEOREM OwnerInvAlways == Prompt => (JobsSpec => [](AnyInv /\ OwnerInv))
<1> SUFFICES ASSUME Prompt PROVE JobsSpec => [](AnyInv /\ OwnerInv)
  OBVIOUS
<1>1. JobsInit => OwnerInv
  BY DEF JobsInit, OwnerInv, SingleOwner, HeldIsRunning, HeldWithinLease, Held
<1>2. AnyInv /\ AnyInv' /\ OwnerInv /\ [JobsNext]_jobQueueVars => OwnerInv'
  BY OwnerInvInductive
<1>3. QED
  BY <1>1, <1>2, AnyInvAlways, PTL DEF JobsSpec

\* queue.ts, failJob: a single owner per running job, as long as no drain
\* outlives its lease.
THEOREM OneOwner == Prompt => (JobsSpec => []SingleOwner)
BY OwnerInvAlways, PTL DEF OwnerInv

\* And what a drain holds is running: nothing ends, revives or reclaims it.
THEOREM HeldRuns == Prompt => (JobsSpec => []HeldIsRunning)
BY OwnerInvAlways, PTL DEF OwnerInv

-----------------------------------------------------------------------------
\* A done or failed job runs again only when a reap upserts it: no worker's
\* step changes it, for it only touches what it holds, which is running.
THEOREM EndedStaysEnded == Prompt => (JobsSpec => EndsAreTerminal)
<1> SUFFICES ASSUME Prompt PROVE JobsSpec => EndsAreTerminal
  OBVIOUS
<1>1. AnyInv /\ OwnerInv /\ [JobsNext]_jobQueueVars => [EndedByWorkers]_jobQueueVars
  <2> SUFFICES ASSUME AnyInv, OwnerInv, [JobsNext]_jobQueueVars,
                      NEW j \in Jobs, status[j] \in {"done", "failed"},
                      status'[j] # status[j]
               PROVE  \E r \in Reapers : chosen[r] = j /\ chosen'[r] = NoJob
    BY DEF EndedByWorkers
  <2> USE DEF AnyInv, JobsTypeOK
  <2>1. \A w \in Workers : j \notin Held(w)
    BY DEF OwnerInv, HeldIsRunning
  <2>2. \A w \in Workers : job[w] # j
    BY <2>1, JobsAssumption DEF Held
  <2>3. ASSUME NEW i \in Jobs, Enqueue(i) PROVE FALSE
    BY <2>3 DEF Enqueue
  <2>4. ASSUME NEW w \in Workers, claimDue(w) PROVE FALSE
    BY <2>4 DEF claimDue, Claimable
  <2>5. ASSUME NEW w \in Workers, HandlerCommits(w) PROVE FALSE
    BY <2>5 DEF HandlerCommits
  <2>6. ASSUME NEW w \in Workers, completeJob(w) PROVE FALSE
    BY <2>2, <2>6 DEF completeJob
  <2>7. ASSUME NEW w \in Workers, failJob(w) PROVE FALSE
    BY <2>2, <2>7 DEF failJob, Exhausted
  <2>8. ASSUME NEW w \in Workers,
               TakeUp(w) \/ Throws(w) \/ FailRead(w) \/ Abandon(w)
        PROVE  FALSE
    BY <2>8 DEF TakeUp, Throws, FailRead, Abandon, jobVars
  <2>9. ASSUME NEW r \in Reapers, ReapRead(r) PROVE FALSE
    BY <2>9 DEF ReapRead, jobVars
  <2>10. ASSUME NEW r \in Reapers, ReapWrite(r)
         PROVE  chosen[r] = j /\ chosen'[r] = NoJob
    BY <2>10 DEF ReapWrite, jobVars
  <2>11. ASSUME Tick PROVE FALSE
    BY <2>11 DEF Tick
  <2>12. ASSUME UNCHANGED jobQueueVars PROVE FALSE
    BY <2>12 DEF jobQueueVars, jobVars
  <2>13. QED
    BY <2>3, <2>4, <2>5, <2>6, <2>7, <2>8, <2>9, <2>10, <2>11, <2>12
       DEF JobsNext, WorkerStep
<1>2. QED
  BY <1>1, OwnerInvAlways, PTL DEF EndsAreTerminal, JobsSpec

-----------------------------------------------------------------------------
(***************************************************************************)
(* The count of attempts.  What failJob has read is still the count when   *)
(* it writes; and a job nobody holds has an attempt left, or one more for  *)
(* every drain that has died.                                              *)
(***************************************************************************)
SeenIsCurrent ==
  \A w \in Workers : pc[w] = "rescheduling" => seen[w] = attempts[job[w]]

Unheld(j) == \A w \in Workers : j \notin Held(w)

AttemptsLeft ==
  \A j \in Jobs :
    /\ status[j] = "none" => attempts[j] = 0
    /\ status[j] = "pending" => attempts[j] < MaxAttempts + abandons
    /\ status[j] = "running" /\ Unheld(j) => attempts[j] < MaxAttempts + abandons

CountInv == SeenIsCurrent /\ AttemptsLeft /\ FailedIsExhausted /\ AttemptsAreSpent

\* A step that leaves the rows and the work in hand as they are keeps CountInv.
LEMMA CountFrame ==
  ASSUME JobsTypeOK, CountInv, UNCHANGED <<status, attempts, abandons>>,
         \A w \in Workers : Held(w)' = Held(w), SeenIsCurrent'
  PROVE  CountInv'
BY DEF CountInv, AttemptsLeft, FailedIsExhausted, AttemptsAreSpent, Unheld

LEMMA CountInvInductive ==
  ASSUME AnyInv, AnyInv', OwnerInv, OwnerInv', CountInv, Prompt, [JobsNext]_jobQueueVars
  PROVE  CountInv'
<1> USE JobsAssumption, BoundsAssumption DEF AnyInv
<1>0. /\ \A w \in Workers : Held(w) \subseteq Jobs
      /\ \A w \in Workers : pc[w] # "free" => job[w] \in Held(w) /\ status[job[w]] = "running"
  BY DEF JobsTypeOK, Held, OwnerInv, HeldIsRunning
<1>1. ASSUME NEW j \in Jobs, Enqueue(j) PROVE CountInv'
  <2>1. \A w \in Workers : Held(w)' = Held(w)
    BY <1>1, HeldUnchanged DEF Enqueue, workerVars
  <2>2. SeenIsCurrent'
    BY <1>1 DEF Enqueue, workerVars, CountInv, SeenIsCurrent
  <2>3. QED
    BY <1>1, <2>1, <2>2 DEF Enqueue, CountInv, AttemptsLeft, FailedIsExhausted,
         AttemptsAreSpent, Unheld, JobsTypeOK
<1>2. ASSUME NEW w \in Workers, claimDue(w) PROVE CountInv'
  <2>1. PICK S \in SUBSET Claimable :
          /\ batch' = [batch EXCEPT ![w] = S]
          /\ status' = [j \in Jobs |-> IF j \in S THEN "running" ELSE status[j]]
          /\ attempts' = [j \in Jobs |-> IF j \in S THEN attempts[j] + 1 ELSE attempts[j]]
    BY <1>2 DEF claimDue
  <2>2. /\ Held(w)' = S
        /\ \A v \in Workers \ {w} : Held(v)' = Held(v)
        /\ Held(w) = {}
    BY <1>2, <2>1, HeldAfterClaim DEF JobsTypeOK
  <2>3. \A v \in Workers : S \cap Held(v) = {}
    BY <2>2 DEF OwnerInv, SingleOwner
  <2>4. SeenIsCurrent'
    <3>1. SUFFICES ASSUME NEW v \in Workers, pc'[v] = "rescheduling"
                   PROVE  seen'[v] = attempts'[job'[v]]
      BY DEF SeenIsCurrent
    <3>2. pc[v] = "rescheduling" /\ job[v] \in Jobs /\ job[v] \notin S
      BY <1>0, <1>2, <2>3, <3>1 DEF claimDue
    <3>3. QED
      BY <1>2, <2>1, <3>2 DEF claimDue, CountInv, SeenIsCurrent
  <2>5. ASSUME NEW j \in S PROVE j \in Jobs /\ attempts[j] < MaxAttempts + abandons
    <3>1. j \in Jobs /\ Unheld(j)
      BY <2>3, <2>5 DEF Claimable, Unheld
    <3>2. QED
      BY <3>1, <2>5 DEF Claimable, CountInv, AttemptsLeft
  <2>6. abandons' = abandons
    BY <1>2 DEF claimDue
  <2>7. AttemptsAreSpent'
    BY <2>1, <2>5, <2>6 DEF JobsTypeOK, CountInv, AttemptsAreSpent
  <2>8. FailedIsExhausted'
    BY <2>1 DEF JobsTypeOK, CountInv, FailedIsExhausted
  <2>9. AttemptsLeft'
    <3>1. \A j \in Jobs : Unheld(j)' => j \notin S /\ Unheld(j)
      BY <2>2 DEF Unheld
    <3>2. QED
      BY <2>1, <2>6, <3>1 DEF JobsTypeOK, CountInv, AttemptsLeft
  <2>10. QED
    BY <2>4, <2>7, <2>8, <2>9 DEF CountInv
<1>3. ASSUME NEW w \in Workers, TakeUp(w) PROVE CountInv'
  <2>1. SeenIsCurrent'
    BY <1>3 DEF TakeUp, CountInv, SeenIsCurrent, JobsTypeOK, jobVars
  <2>2. QED
    BY <1>3, <2>1, CountFrame, HeldAfterTakeUp DEF TakeUp, jobVars
<1>4. ASSUME NEW w \in Workers, HandlerCommits(w) PROVE CountInv'
  <2>1. SeenIsCurrent'
    BY <1>4 DEF HandlerCommits, CountInv, SeenIsCurrent, JobsTypeOK
  <2>2. \A v \in Workers : Held(v)' = Held(v)
    BY <1>4, HeldUnchanged DEF HandlerCommits
  <2>3. \A j \in Jobs : /\ status'[j] = status[j] \/ (status[j] = "none" /\ status'[j] = "pending")
                       /\ attempts'[j] = attempts[j]
    BY <1>4 DEF HandlerCommits, JobsTypeOK
  <2>4. QED
    BY <1>4, <2>1, <2>2, <2>3 DEF HandlerCommits, CountInv, AttemptsLeft,
         FailedIsExhausted, AttemptsAreSpent, Unheld, JobsTypeOK
<1>5. ASSUME NEW w \in Workers, Throws(w) PROVE CountInv'
  <2>1. SeenIsCurrent'
    BY <1>5 DEF Throws, CountInv, SeenIsCurrent, JobsTypeOK, jobVars
  <2>2. QED
    BY <1>5, <2>1, CountFrame, HeldUnchanged DEF Throws, jobVars
<1>6. ASSUME NEW w \in Workers, completeJob(w) PROVE CountInv'
  <2>1. /\ job[w] \in Jobs
        /\ \A v \in Workers \ {w} : Held(v)' = Held(v)
        /\ Held(w)' = Held(w) \ {job[w]}
    BY <1>6, HeldAfterRelease DEF completeJob, JobsTypeOK
  <2>2. SeenIsCurrent'
    BY <1>6 DEF completeJob, Release, CountInv, SeenIsCurrent, JobsTypeOK
  <2>3. status' = [status EXCEPT ![job[w]] = "done"] /\ UNCHANGED <<attempts, abandons>>
    BY <1>6 DEF completeJob
  <2>4. \A j \in Jobs \ {job[w]} : Unheld(j)' => Unheld(j)
    BY <2>1 DEF Unheld
  <2>5. QED
    BY <2>1, <2>2, <2>3, <2>4
       DEF CountInv, AttemptsLeft, FailedIsExhausted, AttemptsAreSpent, JobsTypeOK
<1>7. ASSUME NEW w \in Workers, FailRead(w) PROVE CountInv'
  <2>1. SeenIsCurrent'
    BY <1>7 DEF FailRead, CountInv, SeenIsCurrent, JobsTypeOK, jobVars
  <2>2. QED
    BY <1>7, <2>1, CountFrame, HeldUnchanged DEF FailRead, jobVars
<1>8. ASSUME NEW w \in Workers, failJob(w) PROVE CountInv'
  <2>1. /\ job[w] \in Jobs
        /\ \A v \in Workers \ {w} : Held(v)' = Held(v)
        /\ Held(w)' = Held(w) \ {job[w]}
    BY <1>8, HeldAfterRelease DEF failJob, Exhausted, JobsTypeOK
  <2>2. SeenIsCurrent'
    BY <1>8 DEF failJob, Exhausted, Release, CountInv, SeenIsCurrent, JobsTypeOK
  <2>3. /\ seen[w] = attempts[job[w]]
        /\ status' = [status EXCEPT ![job[w]] =
                       IF seen[w] >= MaxAttempts THEN "failed" ELSE "pending"]
        /\ UNCHANGED <<attempts, abandons>>
    BY <1>8 DEF failJob, Exhausted, CountInv, SeenIsCurrent
  <2>4. \A j \in Jobs \ {job[w]} : Unheld(j)' => Unheld(j)
    BY <2>1 DEF Unheld
  <2>5. attempts[job[w]] \in Nat /\ abandons \in Nat /\ MaxAttempts \in Nat
    BY <2>1 DEF JobsTypeOK
  <2>6. QED
    BY <2>1, <2>2, <2>3, <2>4, <2>5
       DEF CountInv, AttemptsLeft, FailedIsExhausted, AttemptsAreSpent, JobsTypeOK
<1>9. ASSUME NEW w \in Workers, Abandon(w) PROVE CountInv'
  <2>1. SeenIsCurrent'
    BY <1>9 DEF Abandon, CountInv, SeenIsCurrent, JobsTypeOK, jobVars
  <2>2. abandons' = abandons + 1 /\ UNCHANGED <<status, attempts>>
    BY <1>9 DEF Abandon, jobVars
  <2>3. QED
    BY <2>1, <2>2
       DEF CountInv, AttemptsLeft, FailedIsExhausted, AttemptsAreSpent, JobsTypeOK
<1>10. ASSUME NEW r \in Reapers, ReapRead(r) PROVE CountInv'
  <2>1. SeenIsCurrent'
    BY <1>10 DEF ReapRead, CountInv, SeenIsCurrent, jobVars, workerVars
  <2>2. QED
    BY <1>10, <2>1, CountFrame, HeldUnchanged DEF ReapRead, jobVars, workerVars
<1>11. ASSUME NEW r \in Reapers, ReapWrite(r) PROVE CountInv'
  <2>1. \A v \in Workers : Held(v)' = Held(v)
    BY <1>11, HeldUnchanged DEF ReapWrite, workerVars
  <2>2. chosen[r] \in Jobs
    BY <1>11 DEF ReapWrite, JobsTypeOK
  <2>3. CASE Reseeds(chosen[r])
    <3>1. /\ status' = [status EXCEPT ![chosen[r]] = "pending"]
          /\ attempts' = [attempts EXCEPT ![chosen[r]] = 0]
          /\ UNCHANGED <<workerVars, abandons>>
          /\ status[chosen[r]] # "running"
      BY <1>11, <2>3 DEF ReapWrite, Reseeds, Prompt, Live
    <3>2. SeenIsCurrent'
      <4>1. SUFFICES ASSUME NEW v \in Workers, pc[v] = "rescheduling"
                     PROVE  seen[v] = attempts'[job[v]]
        BY <3>1 DEF SeenIsCurrent, workerVars
      <4>2. job[v] # chosen[r] /\ job[v] \in Jobs
        BY <1>0, <3>1, <4>1
      <4>3. QED
        BY <3>1, <4>1, <4>2 DEF CountInv, SeenIsCurrent, JobsTypeOK
    <3>3. QED
      BY <2>1, <2>2, <3>1, <3>2 DEF CountInv, AttemptsLeft, FailedIsExhausted,
           AttemptsAreSpent, Unheld, JobsTypeOK
  <2>4. CASE ~Reseeds(chosen[r])
    <3>1. UNCHANGED <<status, attempts, workerVars, abandons>>
      BY <1>11, <2>4 DEF ReapWrite, jobVars
    <3>2. QED
      BY <2>1, <3>1, CountFrame DEF CountInv, SeenIsCurrent, workerVars
  <2>5. QED
    BY <2>3, <2>4
<1>12. ASSUME Tick PROVE CountInv'
  <2>1. SeenIsCurrent'
    BY <1>12 DEF Tick, CountInv, SeenIsCurrent
  <2>2. QED
    BY <1>12, <2>1, CountFrame, HeldUnchanged DEF Tick
<1>13. CASE UNCHANGED jobQueueVars
  <2>1. SeenIsCurrent'
    BY <1>13 DEF jobQueueVars, CountInv, SeenIsCurrent, jobVars, workerVars
  <2>2. QED
    BY <1>13, <2>1, CountFrame, HeldUnchanged DEF jobQueueVars, jobVars, workerVars
<1>14. QED
  BY <1>1, <1>2, <1>3, <1>4, <1>5, <1>6, <1>7, <1>8, <1>9, <1>10, <1>11,
     <1>12, <1>13 DEF JobsNext, WorkerStep

\* And the attempts counted are those spent.
THEOREM CountInvAlways == Prompt => (JobsSpec => []CountInv)
<1> SUFFICES ASSUME Prompt PROVE JobsSpec => []CountInv
  OBVIOUS
<1>1. JobsInit => CountInv
  BY BoundsAssumption DEF JobsInit, CountInv, SeenIsCurrent, AttemptsLeft,
     FailedIsExhausted, AttemptsAreSpent
<1>2. AnyInv /\ OwnerInv /\ (AnyInv /\ OwnerInv)' /\ CountInv /\ [JobsNext]_jobQueueVars => CountInv'
  BY CountInvInductive
<1>3. QED
  BY <1>1, <1>2, OwnerInvAlways, PTL DEF JobsSpec

\* failJob: a job is dead only when its attempts are used up ...
THEOREM DeadIsExhausted == Prompt => (JobsSpec => []FailedIsExhausted)
BY CountInvAlways, PTL DEF CountInv

\* ... and it is claimed beyond max_attempts only once per drain that died.
THEOREM AttemptsBounded == Prompt => (JobsSpec => []AttemptsAreSpent)
BY CountInvAlways, PTL DEF CountInv

-----------------------------------------------------------------------------
(***************************************************************************)
(* The queue implements LeaseQueue, for every instance of either: with one *)
(* holder at a time when workers are prompt and reaps do not race, and     *)
(* with overlapping holders otherwise.                                     *)
(***************************************************************************)
AbstractStep == [Promise!QueueNext]_(Promise!queueVars)

\* A step that moves no job between workers and leaves the rows alone is no
\* step of the promise.
LEMMA Stutters ==
  ASSUME status' = status, handled' = handled,
         \A w \in Workers : Held(w)' = Held(w)
  PROVE  UNCHANGED Promise!queueVars
BY DEF Promise!queueVars, HoldersOf

LEMMA HoldersKept ==
  ASSUME \A w \in Workers : Held(w)' = Held(w)
  PROVE  HoldersOf' = HoldersOf
BY DEF HoldersOf

\* Letting go of the job in hand is LetGo.
LEMMA HoldersAfterRelease ==
  ASSUME AnyInv, NEW w \in Workers, job[w] # NoJob, Release(w), batch' = batch
  PROVE  /\ job[w] \in Jobs /\ w \in HoldersOf[job[w]]
         /\ Promise!LetGo(w, job[w])
<1>1. /\ Held(w)' = Held(w) \ {job[w]}
      /\ \A v \in Workers \ {w} : Held(v)' = Held(v)
  BY HeldAfterRelease DEF AnyInv
<1>2. job[w] \in Jobs /\ job[w] \in Held(w)
  BY DEF AnyInv, JobsTypeOK, Held
<1>3. \A j \in Jobs : {v \in Workers : j \in Held(v)}' =
        IF j = job[w] THEN {v \in Workers : j \in Held(v)} \ {w}
        ELSE {v \in Workers : j \in Held(v)}
  BY <1>1
<1>4. QED
  BY <1>2, <1>3 DEF HoldersOf, Promise!LetGo

LEMMA StepRefines ==
  ASSUME AnyInv, Prompt => OwnerInv, [JobsNext]_jobQueueVars
  PROVE  AbstractStep
<1> USE JobsAssumption, EnvironmentAssumption DEF AnyInv
<1>1. ASSUME NEW j \in Jobs, Enqueue(j) PROVE AbstractStep
  <2>1. HoldersOf' = HoldersOf
    BY <1>1, HeldUnchanged, HoldersKept DEF Enqueue, workerVars
  <2>2. Promise!Offer(j)
    BY <1>1, <2>1 DEF Enqueue, Promise!Offer, Promise!Live
  <2>3. QED
    BY <2>2 DEF AbstractStep, Promise!QueueNext
<1>2. ASSUME NEW w \in Workers, claimDue(w) PROVE AbstractStep
  <2>1. PICK S \in SUBSET Claimable :
          /\ S # {}
          /\ batch' = [batch EXCEPT ![w] = S]
          /\ status' = [j \in Jobs |-> IF j \in S THEN "running" ELSE status[j]]
    BY <1>2 DEF claimDue
  <2>2. /\ Held(w)' = S
        /\ Held(w) = {}
        /\ \A v \in Workers \ {w} : Held(v)' = Held(v)
    BY <1>2, <2>1, HeldAfterClaim DEF JobsTypeOK
  <2>3. \A j \in Jobs : {v \in Workers : j \in Held(v)}' =
          IF j \in S THEN {v \in Workers : j \in Held(v)} \cup {w}
          ELSE {v \in Workers : j \in Held(v)}
    BY <2>2
  <2>4. HoldersOf' = [j \in Jobs |-> IF j \in S THEN HoldersOf[j] \cup {w} ELSE HoldersOf[j]]
    BY <2>3 DEF HoldersOf
  <2>5. \A j \in Jobs : w \notin HoldersOf[j]
    BY <2>2 DEF HoldersOf
  <2>6. ASSUME NEW j \in S PROVE Promise!Takable(j)
    <3>1. j \in Jobs /\ (status[j] = "pending" \/ (status[j] = "running" /\ age[j] > Lease))
      BY DEF Claimable
    <3>2. ASSUME Prompt, age[j] > Lease PROVE HoldersOf[j] = {}
      <4>1. SUFFICES ASSUME NEW v \in Workers, j \in Held(v) PROVE FALSE
        BY <3>1 DEF HoldersOf
      <4>2. age[j] = since[v] /\ since[v] <= Lease
        BY <3>2, <4>1 DEF OwnerInv, HeldWithinLease
      <4>3. QED
        BY <3>1, <3>2, <4>2, BoundsAssumption DEF JobsTypeOK
    <3>3. QED
      BY <3>1, <3>2 DEF Promise!Takable, Prompt
  <2>7. S \in SUBSET Jobs /\ Promise!Take(w, S)
    BY <1>2, <2>1, <2>4, <2>5, <2>6 DEF claimDue, Claimable, Promise!Take
  <2>8. QED
    BY <2>7 DEF AbstractStep, Promise!QueueNext
<1>3. ASSUME NEW w \in Workers, TakeUp(w) PROVE AbstractStep
  BY <1>3, HeldAfterTakeUp, Stutters DEF TakeUp, jobVars, AbstractStep
<1>4. ASSUME NEW w \in Workers, HandlerCommits(w) PROVE AbstractStep
  <2>1. HoldersOf' = HoldersOf
    BY <1>4, HeldUnchanged, HoldersKept DEF HandlerCommits
  <2>2. job[w] \in Jobs /\ w \in HoldersOf[job[w]]
    BY <1>4 DEF HandlerCommits, JobsTypeOK, HoldersOf, Held
  <2>3. PICK new \in SUBSET Jobs :
          status' = [j \in Jobs |-> IF j \in new /\ status[j] = "none"
                                      THEN "pending" ELSE status[j]]
    <3>1. CASE UNCHANGED <<status, wait>>
      <4>1. WITNESS {} \in SUBSET Jobs
      <4>2. QED
        BY <3>1 DEF JobsTypeOK
    <3>2. CASE \E i \in Jobs : /\ status[i] = "none"
                               /\ status' = [status EXCEPT ![i] = "pending"]
      <4>1. PICK i \in Jobs : /\ status[i] = "none"
                              /\ status' = [status EXCEPT ![i] = "pending"]
        BY <3>2
      <4>2. WITNESS {i} \in SUBSET Jobs
      <4>3. QED
        BY <4>1 DEF JobsTypeOK
    <3>3. QED
      BY <1>4, <3>1, <3>2 DEF HandlerCommits
  <2>4. Promise!Work(w, job[w], new)
    BY <1>4, <2>1, <2>2, <2>3 DEF HandlerCommits, Promise!Work, Promise!Offered
  <2>5. QED
    BY <2>2, <2>4 DEF AbstractStep, Promise!QueueNext
<1>5. ASSUME NEW w \in Workers, Throws(w) PROVE AbstractStep
  BY <1>5, HeldUnchanged, Stutters DEF Throws, jobVars, AbstractStep
<1>6. ASSUME NEW w \in Workers, completeJob(w) PROVE AbstractStep
  <2>1. job[w] \in Jobs /\ w \in HoldersOf[job[w]] /\ Promise!LetGo(w, job[w])
    BY <1>6, HoldersAfterRelease DEF completeJob, JobsTypeOK
  <2>2. Promise!Finish(w, job[w])
    BY <1>6, <2>1 DEF completeJob, CompletingIsHandled, Promise!Finish
  <2>3. QED
    BY <2>1, <2>2 DEF AbstractStep, Promise!QueueNext
<1>7. ASSUME NEW w \in Workers, FailRead(w) PROVE AbstractStep
  BY <1>7, HeldUnchanged, Stutters DEF FailRead, jobVars, AbstractStep
<1>8. ASSUME NEW w \in Workers, failJob(w) PROVE AbstractStep
  <2>1. job[w] \in Jobs /\ w \in HoldersOf[job[w]] /\ Promise!LetGo(w, job[w])
    BY <1>8, HoldersAfterRelease DEF failJob, Exhausted, JobsTypeOK
  <2>2. Promise!GiveBack(w, job[w])
    BY <1>8, <2>1 DEF failJob, Exhausted, Promise!GiveBack
  <2>3. QED
    BY <2>1, <2>2 DEF AbstractStep, Promise!QueueNext
<1>9. ASSUME NEW w \in Workers, Abandon(w) PROVE AbstractStep
  <2>1. /\ Held(w)' = {}
        /\ \A v \in Workers \ {w} : Held(v)' = Held(v)
    BY <1>9, HeldAfterAbandon
  <2>2. \A j \in Jobs : {v \in Workers : j \in Held(v)}' = {v \in Workers : j \in Held(v)} \ {w}
    BY <2>1
  <2>3. Promise!Lose(w)
    BY <1>9, <2>2 DEF Abandon, jobVars, HoldersOf, Promise!Lose
  <2>4. QED
    BY <2>3 DEF AbstractStep, Promise!QueueNext
<1>10. ASSUME NEW r \in Reapers, ReapRead(r) PROVE AbstractStep
  BY <1>10, HeldUnchanged, Stutters DEF ReapRead, jobVars, workerVars, AbstractStep
<1>11. ASSUME NEW r \in Reapers, ReapWrite(r) PROVE AbstractStep
  <2>1. chosen[r] \in Jobs /\ \A w \in Workers : Held(w)' = Held(w)
    BY <1>11, HeldUnchanged DEF ReapWrite, JobsTypeOK, workerVars
  <2>2. CASE Reseeds(chosen[r])
    <3>1. Promise!Offer(chosen[r])
      BY <1>11, <2>1, <2>2, HoldersKept
         DEF ReapWrite, Reseeds, Live, Promise!Offer, Promise!Live
    <3>2. QED
      BY <2>1, <3>1 DEF AbstractStep, Promise!QueueNext
  <2>3. CASE ~Reseeds(chosen[r])
    BY <1>11, <2>1, <2>3, Stutters DEF ReapWrite, jobVars, AbstractStep
  <2>4. QED
    BY <2>2, <2>3
<1>12. ASSUME Tick PROVE AbstractStep
  BY <1>12, HeldUnchanged, Stutters DEF Tick, AbstractStep
<1>13. CASE UNCHANGED jobQueueVars
  BY <1>13, HeldUnchanged, Stutters DEF jobQueueVars, jobVars, workerVars, AbstractStep
<1>14. QED
  BY <1>1, <1>2, <1>3, <1>4, <1>5, <1>6, <1>7, <1>8, <1>9, <1>10, <1>11,
     <1>12, <1>13 DEF JobsNext, WorkerStep

\* queue.ts and worker.ts keep the promise the handlers are written against:
\* every behaviour of the queue is one of LeaseQueue.
THEOREM QueueKeepsPromise == JobsSpec => QueuePromise
<1>1. JobsInit => Promise!QueueInit
  BY DEF JobsInit, HoldersOf, Held, Promise!QueueInit
<1>2. CASE Prompt
  <2>1. AnyInv /\ OwnerInv /\ [JobsNext]_jobQueueVars => AbstractStep
    BY StepRefines
  <2>2. QED
    BY <1>1, <1>2, <2>1, OwnerInvAlways, PTL
       DEF JobsSpec, QueuePromise, Promise!QueueSpec, AbstractStep
<1>3. CASE ~Prompt
  <2>1. AnyInv /\ [JobsNext]_jobQueueVars => AbstractStep
    BY <1>3, StepRefines
  <2>2. QED
    BY <1>1, <2>1, AnyInvAlways, PTL
       DEF JobsSpec, QueuePromise, Promise!QueueSpec, AbstractStep
<1>4. QED
  BY <1>2, <1>3

-----------------------------------------------------------------------------
\* A call of each kind.
Decision == [op : {"approve", "reject"}, on : Props]
Edit == [op : {"save", "delete", "submit", "settle"}, on : Claims, total : Nat]
Calls == Decision \cup Edit \cup {Nothing}

(***************************************************************************)
(* What the types rest on: a proposal that has been created is about a     *)
(* claim, and one that is being decided on has been created.               *)
(***************************************************************************)
Linked ==
  /\ \A p \in Props : proposal[p] # "none" => source[p].claim \in Claims
  /\ \A s \in Sessions : At(s, "approve") \/ At(s, "reject") => proposal[call[s].on] # "none"

IInv == TypeOK /\ Linked /\ ApprovedIsPosted

\* What an open call is about.
LEMMA CallsAboutClaims ==
  ASSUME IInv, NEW s \in Sessions, call[s] # Nothing
  PROVE  /\ call[s] \in Decision \cup Edit
         /\ call[s].op \in {"approve", "reject"} => call[s] \in Decision /\ call[s].on \in Props
         /\ call[s].op \notin {"approve", "reject"} =>
              call[s] \in Edit /\ call[s].on \in Claims /\ call[s].total \in Nat
         /\ ClaimOf(call[s]) \in Claims
<1>1. call[s] \in Decision \cup Edit
  BY DEF IInv, TypeOK, Decision, Edit
<1>2. CASE call[s] \in Decision
  BY <1>2 DEF Decision, IInv, Linked, At, ClaimOf
<1>3. CASE call[s] \in Edit
  BY <1>3 DEF Edit, ClaimOf
<1>4. QED
  BY <1>1, <1>2, <1>3

\* A call that only reads: it begins and makes its claim contended.
LEMMA ReadsKeep ==
  ASSUME IInv, NEW s \in Sessions, NEW c \in Decision \cup Edit, Begins(s, c), Contends(s),
         c \in Decision => proposal[c.on] # "none",
         UNCHANGED <<proposal, entries, claimVars>>
  PROVE  IInv'
<1>1. /\ call \in [Sessions -> Calls]
      /\ call' = [call EXCEPT ![s] = c] /\ call' \in [Sessions -> Calls]
      /\ call'[s] = c
  BY DEF IInv, TypeOK, Begins, Calls, Decision, Edit
<1>2. ClaimOf(c) \in Claims
  <2>1. CASE c \in Decision
    BY <2>1 DEF Decision, IInv, Linked, ClaimOf
  <2>2. CASE c \in Edit
    BY <2>2 DEF Edit, ClaimOf
  <2>3. QED
    BY <2>1, <2>2
<1>3. ClaimOf(c)' = ClaimOf(c)
  BY DEF ClaimOf, claimVars
<1>4. contended' \subseteq Claims
  BY <1>1, <1>2, <1>3 DEF Contends, IInv, TypeOK
<1>5. TypeOK'
  BY <1>1, <1>4 DEF IInv, TypeOK, claimVars, Calls, Decision, Edit
<1>6. Linked'
  <2>1. c.op \in {"approve", "reject"} => c \in Decision
    BY DEF Decision, Edit
  <2>2. QED
    BY <1>1, <2>1 DEF IInv, Linked, At, claimVars
<1>7. ApprovedIsPosted'
  BY DEF IInv, ApprovedIsPosted, claimVars
<1>8. QED
  BY <1>5, <1>6, <1>7 DEF IInv

LEMMA ReadsClaimKeep ==
  ASSUME IInv, NEW s \in Sessions,
         NEW op \in {"save", "delete", "submit", "settle"}, NEW st,
         ReadsClaim(s, op, st)
  PROVE  IInv'
<1>1. PICK c \in Claims : Begins(s, [op |-> op, on |-> c, total |-> claim[c].total])
  BY DEF ReadsClaim
<1>2. /\ [op |-> op, on |-> c, total |-> claim[c].total] \in Edit
      /\ [op |-> op, on |-> c, total |-> claim[c].total] \notin Decision
  BY DEF IInv, TypeOK, Rows, Edit, Decision
<1>3. QED
  BY <1>1, <1>2, ReadsKeep DEF ReadsClaim

LEMMA ReadsPendingKeep ==
  ASSUME IInv, NEW s \in Sessions, NEW op \in {"approve", "reject"},
         ReadsPending(s, op), Contends(s), UNCHANGED claimVars
  PROVE  IInv'
<1>1. PICK p \in Props : proposal[p] = "pending_approval" /\ Begins(s, [op |-> op, on |-> p])
  BY DEF ReadsPending, ReadsStatus
<1>2. [op |-> op, on |-> p] \in Decision
  BY DEF Decision
<1>3. QED
  BY <1>1, <1>2, ReadsKeep DEF ReadsPending, ReadsStatus

\* A call that ends leaves the others as they are.
LEMMA EndsKeeps ==
  ASSUME IInv, NEW s \in Sessions, Ends(s)
  PROVE  /\ call' \in [Sessions -> Calls]
         /\ contended' \subseteq Claims
         /\ \A r \in Sessions : call'[r] # Nothing => call'[r] = call[r] /\ r # s
BY DEF IInv, TypeOK, Ends, Calls, Decision, Edit

\* The claim moves to another status, and with it what approval asks.
LEMMA MovesRows ==
  ASSUME IInv, NEW p, NEW st \in {"draft", "approved"},
         NEW prop \in Props \cup {Nothing}, Moves(p, st, prop)
  PROVE  claim' \in [Claims -> Rows]
<1>1. ASSUME NEW c \in Claims
      PROVE  claim[c] \in Rows /\ [claim[c] EXCEPT !.status = st, !.prop = prop] \in Rows
  <2>1. claim[c] \in Rows
    BY DEF IInv, TypeOK
  <2>2. [claim[c] EXCEPT !.status = st] \in Rows
    BY <2>1 DEF Rows
  <2>3. [[claim[c] EXCEPT !.status = st] EXCEPT !.prop = prop] \in Rows
    BY <2>2 DEF Rows
  <2>4. QED
    BY <2>1, <2>3
<1>2. QED
  BY <1>1 DEF Moves

LEMMA InitIInv == Init => IInv
BY DEF Init, ProposalsInit, IInv, TypeOK, Linked, ApprovedIsPosted, At,
       ProposalStatuses, Rows, Payloads

LEMMA StepKeeps ==
  ASSUME IInv, [Next]_vars PROVE IInv'
<1>0. TypeOK /\ Linked /\ ApprovedIsPosted
  BY DEF IInv
<1>1. ASSUME NEW c \in Claims, SaveNew(c) PROVE IInv'
  <2>1. PICK t \in Totals :
          claim' = [claim EXCEPT ![c].status = "draft", ![c].total = t]
    BY <1>1 DEF SaveNew
  <2>2. t \in Nat
    BY ClaimsAssumption
  <2>3. TypeOK'
    <3>1. /\ claim \in [Claims -> Rows] /\ claim[c] \in Rows
          /\ claim' = [claim EXCEPT ![c] = [claim[c] EXCEPT !.status = "draft", !.total = t]]
      BY <1>0, <2>1 DEF TypeOK
    <3>2. [claim[c] EXCEPT !.status = "draft", !.total = t] \in Rows
      BY <2>2, <3>1 DEF Rows
    <3>3. claim' \in [Claims -> Rows]
      BY ONLY <3>1, <3>2
    <3>4. QED
      BY <1>0, <1>1, <3>3 DEF SaveNew, TypeOK
  <2>4. Linked' /\ ApprovedIsPosted'
    BY <1>0, <1>1, <2>1 DEF SaveNew, TypeOK, Rows, Linked, At, ApprovedIsPosted
  <2>5. QED
    BY <2>3, <2>4 DEF IInv
<1>2. ASSUME NEW s \in Sessions, SaveReads(s) PROVE IInv'
  BY <1>2, ReadsClaimKeep DEF SaveReads
<1>3. ASSUME NEW s \in Sessions, SaveCommits(s) PROVE IInv'
  <2>1. PICK t \in Totals : claim' = [claim EXCEPT ![call[s].on].total = t]
    BY <1>3 DEF SaveCommits
  <2>2. t \in Nat /\ call[s].on \in Claims
    BY <1>3, ClaimsAssumption, CallsAboutClaims DEF SaveCommits, At
  <2>3. TypeOK'
    BY <1>0, <1>3, <2>1, <2>2, EndsKeeps DEF SaveCommits, TypeOK, Rows, Calls, Decision, Edit
  <2>4. Linked'
    BY <1>0, <1>3, EndsKeeps DEF SaveCommits, Linked, At
  <2>5. ApprovedIsPosted'
    BY <1>0, <1>3, <2>1, <2>2 DEF SaveCommits, TypeOK, Rows, ApprovedIsPosted
  <2>6. QED
    BY <2>3, <2>4, <2>5 DEF IInv
<1>4. ASSUME NEW s \in Sessions, DeleteReads(s) PROVE IInv'
  BY <1>4, ReadsClaimKeep DEF DeleteReads
<1>5. ASSUME NEW s \in Sessions, DeleteCommits(s) PROVE IInv'
  <2>1. call[s].on \in Claims
    BY <1>5, CallsAboutClaims DEF DeleteCommits, At
  <2>2. TypeOK'
    BY <1>0, <1>5, <2>1, EndsKeeps DEF DeleteCommits, TypeOK, Rows, Calls, Decision, Edit
  <2>3. Linked'
    BY <1>0, <1>5, EndsKeeps DEF DeleteCommits, Linked, At
  <2>4. ApprovedIsPosted'
    BY <1>0, <1>5, <2>1 DEF DeleteCommits, TypeOK, Rows, ApprovedIsPosted
  <2>5. QED
    BY <2>2, <2>3, <2>4 DEF IInv
<1>6. ASSUME NEW s \in Sessions, SubmitReads(s) PROVE IInv'
  BY <1>6, ReadsClaimKeep DEF SubmitReads
<1>7. ASSUME NEW s \in Sessions, SubmitCommits(s) PROVE IInv'
  <2> DEFINE c == call[s].on
  <2>1. PICK p \in Props :
          /\ proposal[p] = "none"
          /\ proposal' = [proposal EXCEPT ![p] = "pending_approval"]
          /\ source' = [source EXCEPT ![p] = [claim |-> c, amount |-> call[s].total]]
          /\ claim' = IF Exists(c)
                        THEN [claim EXCEPT ![c].status = "submitted", ![c].prop = p]
                        ELSE claim
    BY <1>7 DEF SubmitCommits, Creates
  <2>2. c \in Claims /\ call[s].total \in Nat
    BY <1>7, CallsAboutClaims DEF SubmitCommits, At
  <2>3. Ends(s) /\ UNCHANGED <<entries, owed>>
    BY <1>7 DEF SubmitCommits
  <2>4. [claim |-> c, amount |-> call[s].total] \in Payloads
    BY <2>2 DEF Payloads
  <2>5. claim' \in [Claims -> Rows]
    BY <1>0, <2>1, <2>2 DEF TypeOK, Rows
  <2>6. TypeOK'
    BY <1>0, <2>1, <2>3, <2>4, <2>5, EndsKeeps
    DEF TypeOK, ProposalStatuses, Calls, Decision, Edit
  <2>7. Linked'
    BY <1>0, <2>1, <2>2, <2>3, EndsKeeps, CallsAboutClaims DEF TypeOK, Linked, At
  <2>8. ApprovedIsPosted'
    BY <1>0, <2>1, <2>2, <2>3 DEF TypeOK, Rows, ApprovedIsPosted
  <2>9. QED
    BY <2>6, <2>7, <2>8 DEF IInv
<1>8. ASSUME NEW s \in Sessions, ApproveReads(s) PROVE IInv'
  BY <1>8, ReadsPendingKeep DEF ApproveReads
<1>9. ASSUME NEW s \in Sessions, ApproveCommits(s) PROVE IInv'
  <2> DEFINE p == call[s].on
  <2>1. /\ p \in Props /\ proposal[p] # "none" /\ source[p].claim \in Claims
        /\ source[p].amount \in Nat
    BY <1>0, <1>9, CallsAboutClaims DEF ApproveCommits, At, Linked, TypeOK, Payloads
  <2>2. /\ proposal' = [proposal EXCEPT ![p] = "posted"]
        /\ entries' = [entries EXCEPT ![p] = @ + 1]
        /\ owed' = [owed EXCEPT ![source[p].claim] = @ + source[p].amount]
        /\ Moves(p, "approved", p) /\ Ends(s) /\ UNCHANGED source
    BY <1>9 DEF ApproveCommits, IsPosted
  <2>3. TypeOK'
    <3>1. claim' \in [Claims -> Rows]
      BY <2>1, <2>2, MovesRows
    <3>2. owed' \in [Claims -> Int] /\ entries' \in [Props -> Nat]
      BY <1>0, <2>1, <2>2 DEF TypeOK
    <3>3. QED
      BY <1>0, <2>1, <2>2, <3>1, <3>2, EndsKeeps
      DEF TypeOK, ProposalStatuses, Calls, Decision, Edit
  <2>4. Linked'
    BY <1>0, <2>1, <2>2, EndsKeeps, CallsAboutClaims DEF TypeOK, Linked, At
  <2>5. ApprovedIsPosted'
    <3>1. p # Nothing /\ entries'[p] >= 1 /\ \A q \in Props : entries'[q] >= entries[q]
      BY <1>0, <2>1, <2>2, ProposalsAssumption DEF TypeOK
    <3>2. \A c \in Claims : /\ claim[c] \in Rows
                            /\ \/ claim'[c] = claim[c]
                               \/ claim'[c].prop = p
      BY <1>0, <2>2 DEF TypeOK, Rows, Moves
    <3>3. QED
      BY <1>0, <2>1, <2>2, <3>1, <3>2 DEF TypeOK, Rows, ApprovedIsPosted
  <2>6. QED
    BY <2>3, <2>4, <2>5 DEF IInv
<1>10. ASSUME NEW s \in Sessions, RejectReads(s) PROVE IInv'
  BY <1>10, ReadsPendingKeep DEF RejectReads
<1>11. ASSUME NEW s \in Sessions, RejectCommits(s) PROVE IInv'
  <2> DEFINE p == call[s].on
  <2>1. /\ p \in Props
        /\ proposal' = [proposal EXCEPT ![p] = "rejected"]
        /\ Moves(p, "draft", Nothing) /\ Ends(s) /\ UNCHANGED <<entries, source, owed>>
    BY <1>11, CallsAboutClaims DEF RejectCommits, At, IsRejected
  <2>2. TypeOK'
    BY <1>0, <2>1, EndsKeeps, MovesRows DEF TypeOK, ProposalStatuses, Calls, Decision, Edit
  <2>3. Linked'
    <3>1. proposal[p] # "none"
      BY <1>0, <1>11 DEF RejectCommits, At, Linked
    <3>2. QED
      BY <1>0, <2>1, <3>1, EndsKeeps, CallsAboutClaims DEF TypeOK, Linked, At
  <2>4. ApprovedIsPosted'
    BY <1>0, <2>1 DEF TypeOK, Rows, Moves, ApprovedIsPosted
  <2>5. QED
    BY <2>2, <2>3, <2>4 DEF IInv
<1>12. ASSUME NEW s \in Sessions, SettleReads(s) PROVE IInv'
  BY <1>12, ReadsClaimKeep DEF SettleReads
<1>13. ASSUME NEW s \in Sessions, SettleCommits(s) PROVE IInv'
  <2> DEFINE c == call[s].on
  <2>1. c \in Claims /\ call[s].total \in Nat
    BY <1>13, CallsAboutClaims DEF SettleCommits, At
  <2>2. PICK t \in BankTxns \cup {Nothing} :
          claim' = IF Exists(c)
                     THEN [claim EXCEPT ![c].status = "reimbursed", ![c].txn = t]
                     ELSE claim
    BY <1>13 DEF SettleCommits
  <2>3. /\ owed' = [owed EXCEPT ![c] = @ - call[s].total]
        /\ Ends(s) /\ UNCHANGED <<proposal, entries, source>>
    BY <1>13 DEF SettleCommits
  <2>4. claim' \in [Claims -> Rows]
    BY <1>0, <2>1, <2>2 DEF TypeOK, Rows
  <2>5. TypeOK'
    <3>1. owed' \in [Claims -> Int]
      BY <1>0, <2>1, <2>3 DEF TypeOK
    <3>2. QED
      BY <1>0, <2>3, <2>4, <3>1, EndsKeeps DEF TypeOK, Calls, Decision, Edit
  <2>6. Linked'
    BY <1>0, <2>3, EndsKeeps DEF Linked, At
  <2>7. ApprovedIsPosted'
    BY <1>0, <2>1, <2>2, <2>3 DEF TypeOK, Rows, ApprovedIsPosted
  <2>8. QED
    BY <2>5, <2>6, <2>7 DEF IInv
<1>14. ASSUME NEW s \in Sessions, RollsBack(s) PROVE IInv'
  <2>1. Ends(s) /\ UNCHANGED <<proposal, entries, claim, source, owed>>
    BY <1>14 DEF RollsBack, claimVars
  <2>2. TypeOK'
    BY <1>0, <2>1, EndsKeeps DEF TypeOK, Calls, Decision, Edit
  <2>3. Linked' /\ ApprovedIsPosted'
    BY <1>0, <2>1, EndsKeeps DEF Linked, At, ApprovedIsPosted
  <2>4. QED
    BY <2>2, <2>3 DEF IInv
<1>15. CASE UNCHANGED vars
  BY <1>0, <1>15 DEF vars, claimVars, IInv, TypeOK, Linked, At, ApprovedIsPosted
<1>16. QED
  BY <1>1, <1>2, <1>3, <1>4, <1>5, <1>6, <1>7, <1>8, <1>9, <1>10, <1>11, <1>12,
     <1>13, <1>14, <1>15 DEF Next

\* Every reachable state of the expense claims has its type: among other
\* things, nothing is ever contended but a claim.
THEOREM TypeCorrect == Spec => []TypeOK
<1>1. IInv => TypeOK
  BY DEF IInv
<1>2. QED
  BY <1>1, InitIInv, StepKeeps, PTL DEF Spec

\* However edits, decisions and settlements overlap, an approved claim has
\* been posted.
THEOREM ApprovedWasPosted == Spec => []ApprovedIsPosted
<1>1. IInv => ApprovedIsPosted
  BY DEF IInv
<1>2. QED
  BY <1>1, InitIInv, StepKeeps, PTL DEF Spec

-----------------------------------------------------------------------------
(***************************************************************************)
(* A claim that is not contended has one call on it at most, so what that  *)
(* call has read is current when it writes.                                *)
(***************************************************************************)
OneHolder ==
  \A r, s \in Sessions :
    r # s /\ call[r] # Nothing /\ call[s] # Nothing /\ ClaimOf(call[r]) = ClaimOf(call[s]) =>
      ClaimOf(call[s]) \in contended

FreshCall(k) ==
  LET c == ClaimOf(k) IN
  /\ k.op \in {"save", "delete", "submit"} => claim[c].status = "draft"
  /\ k.op = "settle" => claim[c].status = "approved"
  /\ k.op \in {"submit", "settle"} => k.total = claim[c].total
  /\ k.op \in {"approve", "reject"} => proposal[k.on] = "pending_approval"

Fresh ==
  \A s \in Sessions : call[s] # Nothing /\ ClaimOf(call[s]) \notin contended =>
    FreshCall(call[s])

\* Contended or not, a claim points to a proposal of its own.
Pointing ==
  \A c \in Claims : claim[c].prop # Nothing =>
    proposal[claim[c].prop] # "none" /\ source[claim[c].prop].claim = c

ClaimTies(c) ==
  /\ owed[c] = IF claim[c].status = "approved" THEN claim[c].total ELSE 0
  /\ \A p \in Props : proposal[p] = "pending_approval" /\ source[p].claim = c =>
       /\ claim[c].status = "submitted" /\ claim[c].prop = p
       /\ claim[c].total = source[p].amount
  /\ claim[c].status = "submitted" =>
       claim[c].prop # Nothing /\ proposal[claim[c].prop] = "pending_approval"

TiesInv ==
  OneHolder /\ Fresh /\ Pointing /\ \A c \in Claims \ contended : ClaimTies(c)

\* What a decision is about never changes: a proposal keeps its payload.
LEMMA ClaimKept ==
  ASSUME IInv, NEW r \in Sessions, call[r] # Nothing, call'[r] = call[r],
         \A p \in Props : proposal[p] # "none" => source'[p] = source[p]
  PROVE  ClaimOf(call[r])' = ClaimOf(call[r])
<1>1. CASE call[r].op \in {"approve", "reject"}
  <2>1. call[r].on \in Props /\ proposal[call[r].on] # "none"
    BY <1>1, CallsAboutClaims DEF IInv, Linked, At
  <2>2. QED
    BY <2>1 DEF ClaimOf
<1>2. CASE call[r].op \notin {"approve", "reject"}
  BY <1>2 DEF ClaimOf
<1>3. QED
  BY <1>1, <1>2

\* A call that begins has current reads, and disturbs none.
LEMMA BeginsTied ==
  ASSUME IInv, TiesInv, NEW s \in Sessions, NEW k \in Decision \cup Edit,
         Begins(s, k), Contends(s), FreshCall(k),
         UNCHANGED <<proposal, entries, claimVars>>
  PROVE  TiesInv'
<1>0. OneHolder /\ Fresh /\ Pointing /\ (\A c \in Claims \ contended : ClaimTies(c))
  BY DEF TiesInv
<1>1. /\ call'[s] = k /\ call[s] = Nothing
      /\ \A r \in Sessions \ {s} : call'[r] = call[r]
      /\ UNCHANGED <<proposal, claim, source, owed>>
  BY DEF IInv, TypeOK, Begins, claimVars
<1>2. /\ ClaimOf(call[s])' = ClaimOf(k)
      /\ \A r \in Sessions \ {s} : ClaimOf(call[r])' = ClaimOf(call[r])
  BY <1>1 DEF ClaimOf
<1>3. /\ contended \subseteq contended'
      /\ \A r \in Sessions \ {s} : call[r] # Nothing /\ ClaimOf(call[r]) = ClaimOf(k) =>
           ClaimOf(k) \in contended'
  <2>1. ClaimOf(call'[s]) = ClaimOf(k)
    BY <1>1
  <2>2. QED
    BY <2>1 DEF Contends, Open
<1>4. OneHolder'
  <2> SUFFICES ASSUME NEW q \in Sessions, NEW r \in Sessions, q # r,
                      call'[q] # Nothing, call'[r] # Nothing,
                      ClaimOf(call[q])' = ClaimOf(call[r])'
               PROVE  ClaimOf(call[r])' \in contended'
    BY DEF OneHolder
  <2>1. CASE q = s
    BY <1>1, <1>2, <1>3, <2>1
  <2>2. CASE r = s
    BY <1>1, <1>2, <1>3, <2>2
  <2>3. CASE q # s /\ r # s
    BY <1>0, <1>1, <1>2, <1>3, <2>3 DEF OneHolder
  <2>4. QED
    BY <2>1, <2>2, <2>3
<1>5. Fresh'
  <2> SUFFICES ASSUME NEW r \in Sessions, call'[r] # Nothing, ClaimOf(call[r])' \notin contended'
               PROVE  FreshCall(call[r])'
    BY DEF Fresh
  <2>1. CASE r = s
    BY <1>1, <1>2, <2>1 DEF FreshCall
  <2>2. CASE r # s
    <3>1. FreshCall(call[r])
      BY <1>0, <1>1, <1>2, <1>3, <2>2 DEF Fresh
    <3>2. QED
      BY <1>1, <1>2, <2>2, <3>1 DEF FreshCall
  <2>3. QED
    BY <2>1, <2>2
<1>6. Pointing' /\ \A c \in Claims \ contended' : ClaimTies(c)'
  BY <1>0, <1>1, <1>3 DEF Pointing, ClaimTies
<1>7. QED
  BY <1>4, <1>5, <1>6 DEF TiesInv

LEMMA ReadsClaimTied ==
  ASSUME IInv, TiesInv, NEW s \in Sessions,
         NEW op \in {"save", "delete", "submit", "settle"}, NEW st,
         op # "settle" => st = "draft", op = "settle" => st = "approved",
         ReadsClaim(s, op, st)
  PROVE  TiesInv'
<1>1. PICK c \in Claims : /\ claim[c].status = st
                          /\ Begins(s, [op |-> op, on |-> c, total |-> claim[c].total])
  BY DEF ReadsClaim
<1>2. PICK k : k = [op |-> op, on |-> c, total |-> claim[c].total]
  OBVIOUS
<1>3. k \in Edit /\ ClaimOf(k) = c /\ FreshCall(k)
  BY <1>1, <1>2 DEF IInv, TypeOK, Rows, Edit, ClaimOf, FreshCall
<1>4. QED
  BY <1>1, <1>2, <1>3, BeginsTied DEF ReadsClaim

LEMMA ReadsPendingTied ==
  ASSUME IInv, TiesInv, NEW s \in Sessions, NEW op \in {"approve", "reject"},
         ReadsPending(s, op), Contends(s), UNCHANGED claimVars
  PROVE  TiesInv'
<1>1. PICK p \in Props : proposal[p] = "pending_approval" /\ Begins(s, [op |-> op, on |-> p])
  BY DEF ReadsPending, ReadsStatus
<1>2. [op |-> op, on |-> p] \in Decision /\ FreshCall([op |-> op, on |-> p])
  BY <1>1 DEF Decision, FreshCall
<1>3. QED
  BY <1>1, <1>2, BeginsTied DEF ReadsPending, ReadsStatus

\* A call that ends, having written to its own claim c and its proposals
\* alone, leaves the other calls their reads and the other claims their ties.
LEMMA EndsTied ==
  ASSUME IInv, TiesInv, NEW s \in Sessions, call[s] # Nothing, Ends(s),
         NEW c \in Claims, c = ClaimOf(call[s]),
         \A d \in Claims \ {c} : claim'[d] = claim[d] /\ owed'[d] = owed[d],
         \A p \in Props : proposal[p] # "none" => source'[p] = source[p] /\ proposal'[p] # "none",
         \A p \in Props : proposal[p] # "none" /\ source[p].claim # c => proposal'[p] = proposal[p],
         \A p \in Props : proposal[p] = "none" => proposal'[p] = "none" \/ source'[p].claim = c,
         claim'[c].prop # Nothing =>
           proposal'[claim'[c].prop] # "none" /\ source'[claim'[c].prop].claim = c,
         c \notin contended => ClaimTies(c)'
  PROVE  TiesInv'
<1>0. OneHolder /\ Fresh /\ Pointing /\ (\A d \in Claims \ contended : ClaimTies(d))
  BY DEF TiesInv
<1>1. /\ call'[s] = Nothing /\ contended' = contended
      /\ \A r \in Sessions \ {s} : call'[r] = call[r]
  BY DEF IInv, TypeOK, Ends
<1>2. \A r \in Sessions \ {s} : call[r] # Nothing => ClaimOf(call[r])' = ClaimOf(call[r])
  BY <1>1, ClaimKept
<1>3. OneHolder'
  <2> SUFFICES ASSUME NEW q \in Sessions, NEW r \in Sessions, q # r,
                      call'[q] # Nothing, call'[r] # Nothing,
                      ClaimOf(call[q])' = ClaimOf(call[r])'
               PROVE  ClaimOf(call[r])' \in contended'
    BY DEF OneHolder
  <2>1. q # s /\ r # s
    BY <1>1
  <2>2. QED
    BY <1>0, <1>1, <1>2, <2>1 DEF OneHolder
<1>4. Fresh'
  <2> SUFFICES ASSUME NEW r \in Sessions, call'[r] # Nothing, ClaimOf(call[r])' \notin contended'
               PROVE  FreshCall(call[r])'
    BY DEF Fresh
  <2>1. r # s /\ call'[r] = call[r] /\ call[r] # Nothing
    BY <1>1
  <2>2. ClaimOf(call[r])' = ClaimOf(call[r]) /\ ClaimOf(call[r]) \notin contended
    BY <1>1, <1>2, <2>1
  <2>3. ClaimOf(call[r]) # c /\ ClaimOf(call[r]) \in Claims
    BY <1>0, <2>1, <2>2, CallsAboutClaims DEF OneHolder
  <2>4. FreshCall(call[r])
    BY <1>0, <2>1, <2>2 DEF Fresh
  <2>5. call[r].op \in {"approve", "reject"} =>
          proposal'[call[r].on] = proposal[call[r].on]
    <3>1. call[r].op \in {"approve", "reject"} =>
            /\ call[r].on \in Props /\ proposal[call[r].on] # "none"
            /\ source[call[r].on].claim = ClaimOf(call[r])
      BY <2>1, CallsAboutClaims DEF IInv, Linked, At, ClaimOf
    <3>2. QED
      BY <2>3, <3>1
  <2>6. QED
    BY <2>1, <2>2, <2>3, <2>4, <2>5 DEF FreshCall
<1>5. Pointing'
  <2> SUFFICES ASSUME NEW d \in Claims, claim'[d].prop # Nothing
               PROVE  proposal'[claim'[d].prop] # "none" /\ source'[claim'[d].prop].claim = d
    BY DEF Pointing
  <2>1. CASE d = c
    BY <2>1
  <2>2. CASE d # c
    <3>1. claim'[d] = claim[d] /\ claim[d].prop \in Props
      BY <2>2 DEF IInv, TypeOK, Rows
    <3>2. QED
      BY <1>0, <3>1 DEF Pointing
  <2>3. QED
    BY <2>1, <2>2
<1>6. ASSUME NEW d \in Claims \ contended' PROVE ClaimTies(d)'
  <2>1. CASE d = c
    BY <1>1, <1>6, <2>1
  <2>2. CASE d # c
    <3>1. ClaimTies(d) /\ claim'[d] = claim[d] /\ owed'[d] = owed[d]
      BY <1>0, <1>1, <2>2
    <3>2. ASSUME NEW p \in Props, proposal'[p] = "pending_approval", source'[p].claim = d
          PROVE  proposal[p] = "pending_approval" /\ source[p].claim = d /\ source'[p] = source[p]
      BY <2>2, <3>2
    <3>3. ASSUME claim[d].status = "submitted"
          PROVE  proposal'[claim[d].prop] = "pending_approval"
      <4>1. /\ claim[d].prop \in Props /\ proposal[claim[d].prop] = "pending_approval"
            /\ source[claim[d].prop].claim = d
        BY <1>0, <3>1, <3>3 DEF ClaimTies, Pointing, IInv, TypeOK, Rows
      <4>2. QED
        BY <2>2, <4>1
    <3>4. QED
      BY <3>1, <3>2, <3>3 DEF ClaimTies
  <2>3. QED
    BY <2>1, <2>2
<1>7. QED
  BY <1>3, <1>4, <1>5, <1>6 DEF TiesInv

\* Where a decision on p moves a claim: the one p is about.
LEMMA MovesOwn ==
  ASSUME IInv, Pointing, NEW p \in Props, NEW st, NEW prop, Moves(p, st, prop)
  PROVE  /\ \A d \in Claims : d # source[p].claim => claim'[d] = claim[d]
         /\ \A d \in Claims : claim[d].prop = p /\ claim[d].status = "submitted" =>
              claim'[d].status = st /\ claim'[d].prop = prop /\ claim'[d].total = claim[d].total
         /\ \A d \in Claims : claim'[d].prop \in {claim[d].prop, prop}
<1>1. \A d \in Claims : claim[d] \in Rows
  BY DEF IInv, TypeOK
<1>2. \A d \in Claims : claim[d].prop = p => source[p].claim = d
  BY ProposalsAssumption DEF Pointing
<1>3. QED
  BY <1>1, <1>2 DEF Moves, Rows

\* What is known of the one call on a claim that is not contended.
LEMMA InHand ==
  ASSUME IInv, TiesInv, NEW s \in Sessions, call[s] # Nothing
  PROVE  /\ ClaimOf(call[s]) \in Claims
         /\ ClaimOf(call[s]) \notin contended =>
              FreshCall(call[s]) /\ ClaimTies(ClaimOf(call[s]))
BY CallsAboutClaims DEF TiesInv, Fresh

LEMMA StepTies ==
  ASSUME IInv, TiesInv, [Next]_vars PROVE TiesInv'
<1>0. /\ TypeOK /\ Linked /\ OneHolder /\ Fresh /\ Pointing
      /\ \A c \in Claims \ contended : ClaimTies(c)
  BY DEF IInv, TiesInv
<1>1. ASSUME NEW c \in Claims, SaveNew(c) PROVE TiesInv'
  <2>1. /\ claim[c] \in Rows /\ claim[c].status = "none" /\ claim'[c].status = "draft"
        /\ claim'[c].prop = claim[c].prop
        /\ \A d \in Claims \ {c} : claim'[d] = claim[d]
        /\ UNCHANGED <<proposal, entries, call, contended, source, owed>>
    BY <1>0, <1>1 DEF SaveNew, TypeOK, Rows
  <2>2. OneHolder' /\ Pointing'
    BY <1>0, <2>1 DEF OneHolder, ClaimOf, Pointing
  <2>3. \A r \in Sessions : call[r] # Nothing /\ ClaimOf(call[r]) \notin contended =>
          ClaimOf(call[r]) # c
    <3>1. SUFFICES ASSUME NEW r \in Sessions, call[r] # Nothing, ClaimOf(call[r]) = c,
                          c \notin contended
                   PROVE  FALSE
      OBVIOUS
    <3>2. FreshCall(call[r]) /\ ClaimTies(c)
      BY <3>1, InHand
    <3>3. call[r].op \in {"approve", "reject"} =>
            call[r].on \in Props /\ source[call[r].on].claim = c
      BY <3>1, CallsAboutClaims DEF ClaimOf
    <3>4. call[r].op \in {"save", "delete", "submit", "settle", "approve", "reject"}
      BY <3>1, CallsAboutClaims DEF Decision, Edit
    <3>5. QED
      BY <2>1, <3>1, <3>2, <3>3, <3>4 DEF FreshCall, ClaimTies
  <2>4. Fresh'
    <3>1. ASSUME NEW r \in Sessions, call[r] # Nothing, ClaimOf(call[r]) \notin contended
          PROVE  FreshCall(call[r])'
      <4>1. ClaimOf(call[r]) \in Claims \ {c} /\ FreshCall(call[r])
        BY <2>3, <3>1, InHand
      <4>2. ClaimOf(call[r])' = ClaimOf(call[r])
        BY <2>1 DEF ClaimOf
      <4>3. QED
        BY <2>1, <4>1, <4>2 DEF FreshCall
    <3>2. QED
      BY <2>1, <3>1 DEF Fresh, ClaimOf
  <2>5. \A d \in Claims \ contended' : ClaimTies(d)'
    BY <1>0, <2>1 DEF ClaimTies
  <2>6. QED
    BY <2>2, <2>4, <2>5 DEF TiesInv
<1>2. ASSUME NEW s \in Sessions, SaveReads(s) PROVE TiesInv'
  BY <1>2, ReadsClaimTied DEF SaveReads
<1>3. ASSUME NEW s \in Sessions, SaveCommits(s) PROVE TiesInv'
  <2>1. PICK c : c = call[s].on
    OBVIOUS
  <2>2. call[s] # Nothing /\ call[s].op = "save" /\ c = ClaimOf(call[s]) /\ c \in Claims
    BY <1>3, <2>1, CallsAboutClaims DEF SaveCommits, At, ClaimOf
  <2>3. /\ claim[c] \in Rows /\ claim'[c].status = claim[c].status
        /\ claim'[c].prop = claim[c].prop
        /\ \A d \in Claims \ {c} : claim'[d] = claim[d]
        /\ Ends(s) /\ UNCHANGED <<proposal, entries, source, owed>>
    BY <1>0, <1>3, <2>1, <2>2 DEF SaveCommits, TypeOK, Rows
  <2>4. c \notin contended => ClaimTies(c)'
    BY <2>2, <2>3, InHand DEF FreshCall, ClaimTies
  <2>5. QED
    BY <1>0, <2>2, <2>3, <2>4, EndsTied DEF Pointing
<1>4. ASSUME NEW s \in Sessions, DeleteReads(s) PROVE TiesInv'
  BY <1>4, ReadsClaimTied DEF DeleteReads
<1>5. ASSUME NEW s \in Sessions, DeleteCommits(s) PROVE TiesInv'
  <2>1. PICK c : c = call[s].on
    OBVIOUS
  <2>2. call[s] # Nothing /\ call[s].op = "delete" /\ c = ClaimOf(call[s]) /\ c \in Claims
    BY <1>5, <2>1, CallsAboutClaims DEF DeleteCommits, At, ClaimOf
  <2>3. /\ claim[c] \in Rows /\ claim'[c].status = "deleted" /\ claim'[c].prop = claim[c].prop
        /\ \A d \in Claims \ {c} : claim'[d] = claim[d]
        /\ Ends(s) /\ UNCHANGED <<proposal, entries, source, owed>>
    BY <1>0, <1>5, <2>1, <2>2 DEF DeleteCommits, TypeOK, Rows
  <2>4. c \notin contended => ClaimTies(c)'
    BY <2>2, <2>3, InHand DEF FreshCall, ClaimTies
  <2>5. QED
    BY <1>0, <2>2, <2>3, <2>4, EndsTied DEF Pointing
<1>6. ASSUME NEW s \in Sessions, SubmitReads(s) PROVE TiesInv'
  BY <1>6, ReadsClaimTied DEF SubmitReads
<1>7. ASSUME NEW s \in Sessions, SubmitCommits(s) PROVE TiesInv'
  <2>1. PICK c : c = call[s].on
    OBVIOUS
  <2>2. call[s] # Nothing /\ call[s].op = "submit" /\ c = ClaimOf(call[s]) /\ c \in Claims
    BY <1>7, <2>1, CallsAboutClaims DEF SubmitCommits, At, ClaimOf
  <2>3. PICK p \in Props :
          /\ proposal[p] = "none"
          /\ proposal' = [proposal EXCEPT ![p] = "pending_approval"]
          /\ source' = [source EXCEPT ![p] = [claim |-> c, amount |-> call[s].total]]
          /\ claim' = IF Exists(c)
                        THEN [claim EXCEPT ![c].status = "submitted", ![c].prop = p]
                        ELSE claim
    BY <1>7, <2>1 DEF SubmitCommits, Creates
  <2>4. Ends(s) /\ UNCHANGED <<entries, owed>>
    BY <1>7 DEF SubmitCommits
  <2>5. /\ proposal'[p] = "pending_approval" /\ source'[p].claim = c /\ source'[p].amount = call[s].total
        /\ \A q \in Props \ {p} : proposal'[q] = proposal[q] /\ source'[q] = source[q]
        /\ \A d \in Claims \ {c} : claim'[d] = claim[d]
    BY <1>0, <2>3 DEF TypeOK
  <2>6. /\ claim[c] \in Rows /\ claim'[c].total = claim[c].total
        /\ Exists(c) => claim'[c].status = "submitted" /\ claim'[c].prop = p
        /\ ~Exists(c) => claim'[c] = claim[c]
    BY <1>0, <2>2, <2>3 DEF TypeOK, Rows
  <2>7. claim'[c].prop # Nothing =>
          proposal'[claim'[c].prop] # "none" /\ source'[claim'[c].prop].claim = c
    <3>1. claim[c].prop # Nothing =>
            /\ claim[c].prop \in Props \ {p} /\ proposal[claim[c].prop] # "none"
            /\ source[claim[c].prop].claim = c
      BY <1>0, <2>2, <2>3, <2>6 DEF Pointing, Rows
    <3>2. QED
      BY <2>5, <2>6, <3>1
  <2>8. c \notin contended => ClaimTies(c)'
    <3>1. SUFFICES ASSUME c \notin contended PROVE ClaimTies(c)'
      OBVIOUS
    <3>2. claim[c].status = "draft" /\ call[s].total = claim[c].total /\ ClaimTies(c)
      BY <2>2, <3>1, InHand DEF FreshCall
    <3>3. claim'[c].status = "submitted" /\ claim'[c].prop = p /\ p # Nothing
      BY <2>6, <3>2, ProposalsAssumption DEF Exists
    <3>4. \A q \in Props \ {p} : ~(proposal'[q] = "pending_approval" /\ source'[q].claim = c)
      BY <2>5, <3>2 DEF ClaimTies
    <3>5. QED
      BY <2>4, <2>5, <2>6, <3>2, <3>3, <3>4 DEF ClaimTies
  <2>9. \A q \in Props : proposal[q] # "none" => q # p
    BY <2>3
  <2>10. QED
    BY <2>2, <2>4, <2>5, <2>7, <2>8, <2>9, EndsTied
<1>8. ASSUME NEW s \in Sessions, ApproveReads(s) PROVE TiesInv'
  BY <1>8, ReadsPendingTied DEF ApproveReads
<1>9. ASSUME NEW s \in Sessions, ApproveCommits(s) \/ RejectCommits(s) PROVE TiesInv'
  <2>1. PICK p, c : p = call[s].on /\ c = source[p].claim
    OBVIOUS
  <2>2. /\ call[s] # Nothing /\ call[s].op \in {"approve", "reject"}
        /\ c = ClaimOf(call[s]) /\ c \in Claims /\ p \in Props /\ proposal[p] # "none"
        /\ Ends(s) /\ UNCHANGED source
    BY <1>0, <1>9, <2>1, CallsAboutClaims
       DEF ApproveCommits, RejectCommits, At, ClaimOf, Linked
  <2>3. \A q \in Props \ {p} : proposal'[q] = proposal[q]
    BY <1>0, <1>9, <2>1 DEF ApproveCommits, RejectCommits, IsPosted, IsRejected, TypeOK
  <2>4. \/ /\ Moves(p, "approved", p) /\ proposal'[p] = "posted"
           /\ owed' = [owed EXCEPT ![c] = @ + source[p].amount]
        \/ /\ Moves(p, "draft", Nothing) /\ proposal'[p] = "rejected"
           /\ owed' = owed
    BY <1>0, <1>9, <2>1, <2>2 DEF ApproveCommits, RejectCommits, IsPosted, IsRejected, TypeOK
  <2>5. /\ \A d \in Claims \ {c} : claim'[d] = claim[d] /\ owed'[d] = owed[d]
        /\ claim'[c].prop \in {claim[c].prop, p, Nothing}
    <3>1. \A d \in Claims \ {c} : owed'[d] = owed[d]
      BY <1>0, <2>2, <2>4 DEF TypeOK
    <3>2. ASSUME NEW st, NEW prop \in {p, Nothing}, Moves(p, st, prop)
          PROVE  /\ \A d \in Claims : d # source[p].claim => claim'[d] = claim[d]
                 /\ \A d \in Claims : claim'[d].prop \in {claim[d].prop, prop}
      BY <1>0, <2>2, <3>2, MovesOwn
    <3>3. /\ \A d \in Claims : d # source[p].claim => claim'[d] = claim[d]
          /\ \A d \in Claims : claim'[d].prop \in {claim[d].prop, p, Nothing}
      BY <2>4, <3>2
    <3>4. QED
      BY <2>1, <2>2, <3>1, <3>3
  <2>6. claim'[c].prop # Nothing =>
          proposal'[claim'[c].prop] # "none" /\ source'[claim'[c].prop].claim = c
    <3>1. \A q \in Props : proposal[q] # "none" => proposal'[q] # "none"
      BY <2>3, <2>4
    <3>2. claim[c].prop # Nothing =>
            /\ claim[c].prop \in Props /\ proposal[claim[c].prop] # "none"
            /\ source[claim[c].prop].claim = c
      BY <1>0, <2>2 DEF Pointing, TypeOK, Rows
    <3>3. QED
      BY <2>1, <2>2, <2>5, <3>1, <3>2
  <2>7. c \notin contended => ClaimTies(c)'
    <3>1. SUFFICES ASSUME c \notin contended PROVE ClaimTies(c)'
      OBVIOUS
    <3>2. proposal[p] = "pending_approval" /\ ClaimTies(c)
      BY <2>1, <2>2, <3>1, InHand DEF FreshCall
    <3>3. /\ claim[c].status = "submitted" /\ claim[c].prop = p
          /\ claim[c].total = source[p].amount /\ owed[c] = 0
      BY <2>1, <2>2, <3>2 DEF ClaimTies
    <3>4. \A q \in Props : ~(proposal'[q] = "pending_approval" /\ source'[q].claim = c)
      BY <2>2, <2>3, <2>4, <3>2, <3>3 DEF ClaimTies
    <3>5. source[p].amount \in Nat
      BY <1>0, <2>2 DEF TypeOK, Payloads
    <3>6. \/ claim'[c].status = "approved" /\ claim'[c].total = claim[c].total
             /\ owed'[c] = source[p].amount
          \/ claim'[c].status = "draft" /\ owed'[c] = 0
      BY <1>0, <2>2, <2>4, <3>3, <3>5, MovesOwn DEF TypeOK
    <3>7. QED
      BY <3>3, <3>4, <3>6 DEF ClaimTies
  <2>8. /\ \A q \in Props : proposal[q] # "none" => proposal'[q] # "none"
        /\ \A q \in Props : proposal[q] = "none" => proposal'[q] = "none"
        /\ \A q \in Props : source[q].claim # c => proposal'[q] = proposal[q]
    BY <2>1, <2>2, <2>3, <2>4
  <2>9. QED
    BY <2>2, <2>5, <2>6, <2>7, <2>8, EndsTied
<1>10. ASSUME NEW s \in Sessions, RejectReads(s) PROVE TiesInv'
  BY <1>10, ReadsPendingTied DEF RejectReads
<1>11. ASSUME NEW s \in Sessions, SettleReads(s) PROVE TiesInv'
  BY <1>11, ReadsClaimTied DEF SettleReads
<1>12. ASSUME NEW s \in Sessions, SettleCommits(s) PROVE TiesInv'
  <2>1. PICK c : c = call[s].on
    OBVIOUS
  <2>2. /\ call[s] # Nothing /\ call[s].op = "settle" /\ c = ClaimOf(call[s]) /\ c \in Claims
        /\ call[s].total \in Nat
    BY <1>12, <2>1, CallsAboutClaims DEF SettleCommits, At, ClaimOf
  <2>3. /\ owed' = [owed EXCEPT ![c] = @ - call[s].total]
        /\ Ends(s) /\ UNCHANGED <<proposal, entries, source>>
    BY <1>12, <2>1 DEF SettleCommits
  <2>4. /\ claim[c] \in Rows /\ claim'[c].prop = claim[c].prop
        /\ Exists(c) => claim'[c].status = "reimbursed"
        /\ \A d \in Claims \ {c} : claim'[d] = claim[d]
    BY <1>0, <1>12, <2>1, <2>2 DEF SettleCommits, TypeOK, Rows
  <2>5. owed'[c] = owed[c] - call[s].total /\ \A d \in Claims \ {c} : owed'[d] = owed[d]
    BY <1>0, <2>2, <2>3 DEF TypeOK
  <2>6. c \notin contended => ClaimTies(c)'
    <3>1. SUFFICES ASSUME c \notin contended PROVE ClaimTies(c)'
      OBVIOUS
    <3>2. claim[c].status = "approved" /\ call[s].total = claim[c].total /\ ClaimTies(c)
      BY <2>2, <3>1, InHand DEF FreshCall
    <3>3. owed'[c] = 0 /\ claim'[c].status = "reimbursed"
      BY <2>2, <2>4, <2>5, <3>2 DEF ClaimTies, Exists
    <3>4. QED
      BY <2>3, <3>2, <3>3 DEF ClaimTies
  <2>7. QED
    BY <1>0, <2>2, <2>3, <2>4, <2>5, <2>6, EndsTied DEF Pointing
<1>13. ASSUME NEW s \in Sessions, RollsBack(s) PROVE TiesInv'
  <2>1. PICK c : c = ClaimOf(call[s])
    OBVIOUS
  <2>2. /\ call[s] # Nothing /\ c \in Claims /\ Ends(s)
        /\ UNCHANGED <<proposal, claim, source, owed>>
    BY <1>13, <2>1, CallsAboutClaims DEF RollsBack, claimVars
  <2>3. c \notin contended => ClaimTies(c)'
    BY <1>0, <2>2 DEF ClaimTies
  <2>4. QED
    BY <1>0, <2>1, <2>2, <2>3, EndsTied DEF Pointing
<1>14. CASE UNCHANGED vars
  <2>1. UNCHANGED <<proposal, call, contended, claim, source, owed>>
    BY <1>14 DEF vars, claimVars
  <2>2. OneHolder' /\ Fresh' /\ Pointing'
    BY <1>0, <2>1 DEF OneHolder, Fresh, FreshCall, ClaimOf, Pointing
  <2>3. \A c \in Claims \ contended' : ClaimTies(c)'
    BY <1>0, <2>1 DEF ClaimTies
  <2>4. QED
    BY <2>2, <2>3 DEF TiesInv
<1>15. QED
  BY <1>1, <1>2, <1>3, <1>4, <1>5, <1>6, <1>7, <1>8, <1>9, <1>10, <1>11, <1>12,
     <1>13, <1>14 DEF Next

\* What the next two theorems rest on holds in every reachable state.
THEOREM TiesInvAlways == Spec => []TiesInv
<1>1. Init => TiesInv
  BY DEF Init, ProposalsInit, TiesInv, OneHolder, Fresh, Pointing, ClaimTies
<1>2. IInv /\ TiesInv /\ [Next]_vars => TiesInv'
  BY StepTies
<1>3. QED
  BY <1>1, <1>2, InitIInv, StepKeeps, PTL DEF Spec

\* claims.ts, submit.ts, reimburse.ts against the settlement account: of a
\* claim that no two calls have had in hand at once, the client owes the
\* employee its total from approval to reimbursement and nothing otherwise.
THEOREM OwedTies == Spec => []OwedToEmployees
<1>1. TiesInv => OwedToEmployees
  BY DEF TiesInv, ClaimTies, OwedToEmployees
<1>2. QED
  BY <1>1, TiesInvAlways, PTL

\* submitClaim and the decision on its proposal: on such a claim a waiting
\* proposal is the one the claim points to, for the claim's total, and a
\* submitted claim has a waiting proposal.
THEOREM SubmissionsAwait == Spec => []SubmittedAwaits
<1>1. IInv /\ TiesInv => SubmittedAwaits
  BY DEF IInv, TiesInv, Linked, ClaimTies, SubmittedAwaits
<1>2. QED
  BY <1>1, TiesInvAlways, InitIInv, StepKeeps, PTL DEF Spec

-----------------------------------------------------------------------------
(***************************************************************************)
(* The approval queue: a system of its own over what Proposals defines,    *)
(* beside the claims.                                                      *)
(***************************************************************************)

\* A call of each kind.
QueueDecision == [op : {"submit", "approve", "reject"}, on : Props]
QueueVoid == [op : {"void", "voiding"}, on : Bills]

\* What kind of call is open is told by its op, and what it is about.
LEMMA CallKinds ==
  ASSUME ApprovalsTypeOK, NEW s \in Sessions, call[s] # Nothing
  PROVE  /\ call[s].on \in Props
         /\ call[s].op \in {"void", "voiding"} =>
              call[s] \in QueueVoid /\ call[s].on \in Bills
BY ApprovalsAssumption DEF ApprovalsTypeOK, QueueVoid

\* A call that begins makes only its own document contended, and does so if
\* another has it in hand.
LEMMA BeginsWell ==
  ASSUME ApprovalsTypeOK, NEW s \in Sessions, NEW c \in QueueDecision \cup QueueVoid,
         Begins(s, c), QueueContends(s)
  PROVE  /\ call' \in [Sessions -> QueueDecision \cup QueueVoid \cup {Nothing}]
         /\ call' = [call EXCEPT ![s] = c] /\ call'[s] = c /\ call[s] = Nothing
         /\ contended' \subseteq Props
         /\ contended \subseteq contended'
         /\ \A r \in Sessions : call[r] # Nothing /\ call[r].on = c.on => c.on \in contended'
<1>1. /\ call' = [call EXCEPT ![s] = c] /\ call[s] = Nothing
      /\ call \in [Sessions -> QueueDecision \cup QueueVoid \cup {Nothing}]
  BY DEF ApprovalsTypeOK, Begins, QueueDecision, QueueVoid
<1>2. call'[s] = c /\ c.on \in Props
  BY <1>1, ApprovalsAssumption DEF QueueDecision, QueueVoid
<1>3. contended' = contended \cup ({c.on} \cap {call[r].on : r \in Open})
  BY <1>2 DEF QueueContends
<1>4. QED
  BY <1>1, <1>2, <1>3 DEF ApprovalsTypeOK, Open

-----------------------------------------------------------------------------
(***************************************************************************)
(* Types, and what the properties rest on: a document exists with its      *)
(* proposal; a document whose proposal is pending awaits it; a void that   *)
(* has locked its bill is the only one, and the bill stays as it was read. *)
(***************************************************************************)
Together ==
  \A p \in Props :
    /\ proposal[p] = "none" => document[p] = "none"
    /\ p \in Bills \cup CreditNotes /\ proposal[p] = "pending_approval" =>
         document[p] = "awaiting_approval"
    /\ proposal[p] = "suggested" => p \in Captures
    /\ p \in Captures =>
         document[p] \in {"none", "extracted", "needs_review", "posted"}

Locks ==
  /\ \A s \in Sessions : At(s, "voiding") =>
       /\ document[call[s].on] = "awaiting_approval"
       /\ \A r \in Sessions : At(r, "voiding") /\ call[r].on = call[s].on => r = s
  /\ \A s \in Sessions : At(s, "submit") => call[s].on \in Captures

QueueInv == ApprovalsTypeOK /\ Together /\ Locks /\ OpenIsPosted

\* One step of the system: IInv is kept, and what has been settled stays.
Settled ==
  \A p \in Props :
    document[p] \in {"open", "applied", "void", "posted"} => document'[p] = document[p]

LEMMA QueueReadsKeep ==
  ASSUME QueueInv, NEW s \in Sessions, NEW c \in QueueDecision \cup QueueVoid,
         c.op # "voiding", c.op = "submit" => c.on \in Captures,
         Begins(s, c), QueueContends(s), UNCHANGED <<proposal, entries, document>>
  PROVE  QueueInv' /\ Settled
<1>1. ApprovalsTypeOK'
  BY BeginsWell DEF QueueInv, ApprovalsTypeOK, QueueDecision, QueueVoid
<1>2. \A r \in Sessions :
        /\ At(r, "voiding")' => At(r, "voiding") /\ call'[r] = call[r]
        /\ At(r, "submit")' => call'[r].on \in Captures
  BY BeginsWell DEF At, QueueInv, ApprovalsTypeOK, Locks
<1>3. Locks'
  BY <1>2 DEF QueueInv, Locks
<1>4. Together' /\ OpenIsPosted' /\ Settled
  BY DEF QueueInv, Together, OpenIsPosted, Settled
<1>5. QED
  BY <1>1, <1>3, <1>4 DEF QueueInv

LEMMA QueueEndsKeep ==
  ASSUME QueueInv, NEW s \in Sessions, Ends(s)
  PROVE  /\ call' \in [Sessions -> QueueDecision \cup QueueVoid \cup {Nothing}]
         /\ contended' \subseteq Props
         /\ \A r \in Sessions : call'[r] # Nothing =>
              call[r] # Nothing /\ call'[r] = call[r] /\ r # s
BY DEF QueueInv, ApprovalsTypeOK, Ends, QueueDecision, QueueVoid

LEMMA QueueStepKeeps ==
  ASSUME QueueInv, [ApprovalsNext]_approvalVars PROVE QueueInv' /\ Settled
<1>0. ApprovalsTypeOK /\ Together /\ Locks /\ OpenIsPosted
  BY DEF QueueInv
<1>1. ASSUME NEW p \in Props, Create(p) PROVE QueueInv' /\ Settled
  <2>1. /\ proposal[p] = "none" /\ document[p] = "none" /\ p \notin Captures
        /\ proposal' = [proposal EXCEPT ![p] = "pending_approval"]
        /\ document' = [document EXCEPT ![p] =
             IF p \in Bills \cup CreditNotes THEN "awaiting_approval" ELSE "none"]
        /\ UNCHANGED <<entries, call, contended>>
    BY <1>0, <1>1 DEF Create, Creates, Together
  <2>2. ApprovalsTypeOK'
    BY <1>0, <2>1 DEF ApprovalsTypeOK, ProposalStatuses, DocumentStatuses
  <2>3. Together' /\ OpenIsPosted' /\ Settled
    BY <1>0, <2>1 DEF ApprovalsTypeOK, Together, OpenIsPosted, Settled
  <2>4. \A s \in Sessions : At(s, "voiding") =>
          call[s].on \in Props /\ call[s].on # p
    BY <1>0, <2>1, CallKinds DEF Locks, At
  <2>5. Locks'
    BY <1>0, <2>1, <2>4 DEF ApprovalsTypeOK, Locks, At
  <2>6. QED
    BY <2>2, <2>3, <2>5 DEF QueueInv
<1>2. ASSUME NEW s \in Sessions, ApproveHandlerReads(s) PROVE QueueInv' /\ Settled
  <2>1. PICK p \in Props : Begins(s, [op |-> "approve", on |-> p])
    BY <1>2 DEF ApproveHandlerReads, ReadsPending, ReadsStatus
  <2>2. [op |-> "approve", on |-> p] \in QueueDecision
    BY DEF QueueDecision
  <2>3. QED
    BY <1>2, <2>1, <2>2, QueueReadsKeep
       DEF ApproveHandlerReads, ReadsPending, ReadsStatus
<1>3. ASSUME NEW s \in Sessions, ApproveHandlerCommits(s) PROVE QueueInv' /\ Settled
  <2> DEFINE p == call[s].on
  <2>1. /\ p \in Props /\ Ends(s)
        /\ \/ /\ p \in Tasks
              /\ proposal' = [proposal EXCEPT ![p] = "approved"]
              /\ UNCHANGED <<entries, document>>
           \/ /\ proposal' = [proposal EXCEPT ![p] = "posted"]
              /\ entries' = [entries EXCEPT ![p] = @ + 1]
              /\ document' = [document EXCEPT ![p] =
                   IF p \in Captures THEN "posted"
                   ELSE IF @ # "awaiting_approval" THEN @
                   ELSE IF p \in Bills THEN "open" ELSE "applied"]
              /\ \A r \in Sessions : At(r, "voiding") => call[r].on # p
    BY <1>0, <1>3, CallKinds
       DEF ApproveHandlerCommits, At, IsPosted, BillLocked
  <2>2. ApprovalsTypeOK'
    BY <1>0, <2>1, QueueEndsKeep
       DEF QueueInv, ApprovalsTypeOK, ProposalStatuses, DocumentStatuses,
           QueueDecision, QueueVoid
  <2>3. Together' /\ OpenIsPosted' /\ Settled
    BY <1>0, <2>1 DEF ApprovalsTypeOK, Together, OpenIsPosted, Settled
  <2>4. \A r \in Sessions : At(r, "voiding") =>
          call[r].on \in Props /\ document'[call[r].on] = document[call[r].on]
    BY <1>0, <2>1, CallKinds DEF ApprovalsTypeOK, At
  <2>5. Locks'
    BY <1>0, <2>1, <2>4, QueueEndsKeep DEF QueueInv, Locks, At
  <2>6. QED
    BY <2>2, <2>3, <2>5 DEF QueueInv
<1>4. ASSUME NEW s \in Sessions, RejectHandlerReads(s) PROVE QueueInv' /\ Settled
  <2>1. PICK p \in Props : Begins(s, [op |-> "reject", on |-> p])
    BY <1>4 DEF RejectHandlerReads, ReadsPending, ReadsStatus
  <2>2. [op |-> "reject", on |-> p] \in QueueDecision
    BY DEF QueueDecision
  <2>3. QED
    BY <1>4, <2>1, <2>2, QueueReadsKeep
       DEF RejectHandlerReads, ReadsPending, ReadsStatus
<1>5. ASSUME NEW s \in Sessions, RejectHandlerCommits(s) PROVE QueueInv' /\ Settled
  <2>1. /\ call[s].on \in Props /\ Ends(s)
        /\ proposal' = [proposal EXCEPT ![call[s].on] = "rejected"]
        /\ UNCHANGED <<entries, document>>
    BY <1>0, <1>5, CallKinds DEF RejectHandlerCommits, At, IsRejected
  <2>2. ApprovalsTypeOK'
    BY <1>0, <2>1, QueueEndsKeep
       DEF QueueInv, ApprovalsTypeOK, ProposalStatuses, QueueDecision, QueueVoid
  <2>3. Together' /\ OpenIsPosted' /\ Settled
    BY <1>0, <2>1 DEF ApprovalsTypeOK, Together, OpenIsPosted, Settled
  <2>4. Locks'
    BY <1>0, <2>1, QueueEndsKeep DEF QueueInv, Locks, At
  <2>5. QED
    BY <2>2, <2>3, <2>4 DEF QueueInv
<1>6. ASSUME NEW s \in Sessions, VoidReads(s) PROVE QueueInv' /\ Settled
  <2>1. PICK p \in Bills : Begins(s, [op |-> "void", on |-> p])
    BY <1>6 DEF VoidReads
  <2>2. [op |-> "void", on |-> p] \in QueueVoid
    BY DEF QueueVoid
  <2>3. QED
    BY <1>6, <2>1, <2>2, QueueReadsKeep DEF VoidReads
<1>7. ASSUME NEW s \in Sessions, VoidUpdates(s) PROVE QueueInv' /\ Settled
  <2> DEFINE p == call[s].on
  <2>1. /\ call[s] \in QueueVoid /\ p \in Bills /\ p \in Props
        /\ proposal[p] = "pending_approval"
        /\ \A r \in Sessions : At(r, "voiding") => call[r].on # p
        /\ call' = [call EXCEPT ![s] = [call[s] EXCEPT !.op = "voiding"]]
        /\ UNCHANGED <<proposal, entries, contended, document>>
    BY <1>0, <1>7, CallKinds DEF VoidUpdates, At, BillLocked
  <2>2. document[p] = "awaiting_approval"
    BY <1>0, <2>1 DEF Together
  <2>3. /\ [call[s] EXCEPT !.op = "voiding"] \in QueueVoid
        /\ [call[s] EXCEPT !.op = "voiding"].on = p
    BY <2>1 DEF QueueVoid
  <2>4. ApprovalsTypeOK'
    BY <1>0, <2>1, <2>3 DEF ApprovalsTypeOK, QueueVoid
  <2>5. call'[s].on = p /\ \A r \in Sessions \ {s} : call'[r] = call[r]
    BY <1>0, <2>1, <2>3 DEF ApprovalsTypeOK
  <2>6. Locks'
    BY <1>0, <2>1, <2>2, <2>5 DEF Locks, At
  <2>7. Together' /\ OpenIsPosted' /\ Settled
    BY <1>0, <2>1 DEF Together, OpenIsPosted, Settled
  <2>8. QED
    BY <2>4, <2>6, <2>7 DEF QueueInv
<1>8. ASSUME NEW s \in Sessions, VoidCommits(s) PROVE QueueInv' /\ Settled
  <2> DEFINE p == call[s].on
  <2>1. /\ p \in Props /\ Ends(s) /\ At(s, "voiding")
        /\ document[p] = "awaiting_approval"
        /\ document' = [document EXCEPT ![p] = "void"]
        /\ proposal' = [proposal EXCEPT ![p] = "rejected"]
        /\ UNCHANGED entries
    BY <1>0, <1>8, CallKinds DEF VoidCommits, At, IsRejected, Locks
  <2>2. ApprovalsTypeOK'
    BY <1>0, <2>1, QueueEndsKeep
       DEF QueueInv, ApprovalsTypeOK, ProposalStatuses, DocumentStatuses,
           QueueDecision, QueueVoid
  <2>3. Together' /\ OpenIsPosted' /\ Settled
    BY <1>0, <2>1 DEF ApprovalsTypeOK, Together, OpenIsPosted, Settled
  <2>4. \A r \in Sessions : At(r, "voiding") /\ r # s =>
          document'[call[r].on] = document[call[r].on]
    BY <1>0, <2>1, CallKinds DEF ApprovalsTypeOK, Locks, At
  <2>5. Locks'
    BY <1>0, <2>1, <2>4, QueueEndsKeep DEF QueueInv, Locks, At
  <2>6. QED
    BY <2>2, <2>3, <2>5 DEF QueueInv
<1>9. ASSUME NEW s \in Sessions, QueueRollsBack(s) PROVE QueueInv' /\ Settled
  <2>1. Ends(s) /\ UNCHANGED <<proposal, entries, document>>
    BY <1>9 DEF QueueRollsBack
  <2>2. ApprovalsTypeOK'
    BY <1>0, <2>1, QueueEndsKeep DEF QueueInv, ApprovalsTypeOK, QueueDecision, QueueVoid
  <2>3. Together' /\ OpenIsPosted' /\ Settled
    BY <1>0, <2>1 DEF Together, OpenIsPosted, Settled
  <2>4. Locks'
    BY <1>0, <2>1, QueueEndsKeep DEF QueueInv, Locks, At
  <2>5. QED
    BY <2>2, <2>3, <2>4 DEF QueueInv
<1>10. ASSUME NEW p \in Props, runIntake(p) PROVE QueueInv' /\ Settled
  <2>1. PICK st \in {"suggested", "pending_approval"},
             doc \in {"needs_review", "extracted"} :
          /\ proposal[p] = "none" /\ document[p] = "none" /\ p \in Captures
          /\ proposal' = [proposal EXCEPT ![p] = st]
          /\ document' = [document EXCEPT ![p] = doc]
          /\ UNCHANGED <<entries, call, contended>>
    BY <1>0, <1>10 DEF runIntake, Together
  <2>2. ApprovalsTypeOK'
    BY <1>0, <2>1 DEF ApprovalsTypeOK, ProposalStatuses, DocumentStatuses
  <2>3. Together' /\ OpenIsPosted' /\ Settled
    BY <1>0, <2>1, ApprovalsAssumption DEF ApprovalsTypeOK, Together, OpenIsPosted, Settled
  <2>4. \A s \in Sessions : At(s, "voiding") =>
          call[s].on \in Props /\ call[s].on # p
    BY <1>0, <2>1, CallKinds DEF Locks, At
  <2>5. Locks'
    BY <1>0, <2>1, <2>4 DEF ApprovalsTypeOK, Locks, At
  <2>6. QED
    BY <2>2, <2>3, <2>5 DEF QueueInv
<1>11. ASSUME NEW s \in Sessions, SubmitForApprovalReads(s) PROVE QueueInv' /\ Settled
  <2>1. PICK p \in Props :
          proposal[p] = "suggested" /\ Begins(s, [op |-> "submit", on |-> p])
    BY <1>11 DEF SubmitForApprovalReads, ReadsStatus
  <2>2. [op |-> "submit", on |-> p] \in QueueDecision /\ p \in Captures
    BY <1>0, <2>1 DEF QueueDecision, Together
  <2>3. QED
    BY <1>11, <2>1, <2>2, QueueReadsKeep DEF SubmitForApprovalReads, ReadsStatus
<1>12. ASSUME NEW s \in Sessions, SubmitForApprovalCommits(s) PROVE QueueInv' /\ Settled
  <2>1. /\ call[s].on \in Props /\ Ends(s)
        /\ call[s].on \in Captures
        /\ proposal' = [proposal EXCEPT ![call[s].on] = "pending_approval"]
        /\ UNCHANGED <<entries, document>>
    BY <1>0, <1>12, CallKinds DEF SubmitForApprovalCommits, At, Locks
  <2>2. ApprovalsTypeOK'
    BY <1>0, <2>1, QueueEndsKeep
       DEF QueueInv, ApprovalsTypeOK, ProposalStatuses, QueueDecision, QueueVoid
  <2>3. Together' /\ OpenIsPosted' /\ Settled
    BY <1>0, <2>1, ApprovalsAssumption DEF ApprovalsTypeOK, Together, OpenIsPosted, Settled
  <2>4. Locks'
    BY <1>0, <2>1, QueueEndsKeep DEF QueueInv, Locks, At
  <2>5. QED
    BY <2>2, <2>3, <2>4 DEF QueueInv
<1>13. CASE UNCHANGED approvalVars
  BY <1>0, <1>13
     DEF approvalVars, QueueInv, ApprovalsTypeOK, Together, Locks, OpenIsPosted,
         Settled, At
<1>14. QED
  BY <1>1, <1>2, <1>3, <1>4, <1>5, <1>6, <1>7, <1>8, <1>9, <1>10, <1>11, <1>12, <1>13
     DEF ApprovalsNext

LEMMA QueueInitKeeps ==
  ASSUME ApprovalsInit PROVE QueueInv
BY
   DEF ApprovalsInit, ProposalsInit, QueueInv, ApprovalsTypeOK, Together, Locks,
       OpenIsPosted, At,
       ProposalStatuses, DocumentStatuses

\* Every reachable state of the approval queue has its type.
THEOREM QueueTypeCorrect == ApprovalsSpec => []ApprovalsTypeOK
<1>1. QueueInv => ApprovalsTypeOK
  BY DEF QueueInv
<1>2. QED
  BY <1>1, QueueInitKeeps, QueueStepKeeps, PTL DEF ApprovalsSpec

\* However many decide at once, what can be paid or counts has been posted.
THEOREM OpenWasPosted == ApprovalsSpec => []OpenIsPosted
<1>1. QueueInv => OpenIsPosted
  BY DEF QueueInv
<1>2. QED
  BY <1>1, QueueInitKeeps, QueueStepKeeps, PTL DEF ApprovalsSpec

\* A document that left awaiting_approval never moves again.
THEOREM SettledStays == ApprovalsSpec => SettledDocuments
<1>1. QueueInv /\ [ApprovalsNext]_approvalVars => [Settled]_approvalVars
  BY QueueStepKeeps
<1>2. ApprovalsSpec => [][Settled]_approvalVars
  BY <1>1, QueueInitKeeps, QueueStepKeeps, PTL DEF ApprovalsSpec
<1>3. QED
  BY <1>2 DEF SettledDocuments, Settled

-----------------------------------------------------------------------------
(***************************************************************************)
(* What no two transactions had in hand at once: it has one holder, and    *)
(* what the holder read of it is still so.                                 *)
(***************************************************************************)
QueueOneHolder ==
  \A r, s \in Sessions :
    call[r] # Nothing /\ call[s] # Nothing /\ r # s /\ call[r].on = call[s].on =>
      call[r].on \in contended

QueueFresh ==
  \A s \in Sessions : call[s] # Nothing /\ call[s].on \notin contended =>
    /\ call[s].op \in {"approve", "reject", "voiding"} =>
         proposal[call[s].on] = "pending_approval"
    /\ call[s].op = "submit" => proposal[call[s].on] = "suggested"
    /\ call[s].op \in {"void", "voiding"} => document[call[s].on] = "awaiting_approval"

Decided == OneEntryPerPosting /\ DocumentFollowsProposal

UInv == QueueOneHolder /\ QueueFresh /\ Decided

LEMMA ReadsStayFresh ==
  ASSUME QueueInv, UInv, NEW s \in Sessions, NEW c \in QueueDecision \cup QueueVoid,
         Begins(s, c), QueueContends(s), UNCHANGED <<proposal, entries, document>>,
         c.op \in {"approve", "reject"} => proposal[c.on] = "pending_approval",
         c.op = "submit" => proposal[c.on] = "suggested",
         c.op = "void" => document[c.on] = "awaiting_approval",
         c.op # "voiding"
  PROVE  UInv'
<1>1. /\ contended \subseteq contended' /\ call'[s] = c
      /\ \A r \in Sessions : call[r] # Nothing /\ call[r].on = c.on => c.on \in contended'
      /\ \A r \in Sessions \ {s} : call'[r] = call[r]
  BY BeginsWell DEF QueueInv, ApprovalsTypeOK
<1>2. QueueOneHolder'
  BY <1>1 DEF UInv, QueueOneHolder
<1>3. QueueFresh'
  BY <1>1 DEF UInv, QueueFresh
<1>4. Decided'
  BY <1>1 DEF UInv, Decided, OneEntryPerPosting, DocumentFollowsProposal
<1>5. QED
  BY <1>2, <1>3, <1>4 DEF UInv

LEMMA EndsStayFresh ==
  ASSUME QueueInv, UInv, NEW s \in Sessions, call[s] # Nothing, Ends(s),
         \A q \in Props \ {call[s].on} :
           proposal'[q] = proposal[q] /\ document'[q] = document[q]
  PROVE  QueueOneHolder' /\ QueueFresh'
<1>1. /\ contended' = contended
      /\ \A r \in Sessions : call'[r] # Nothing =>
           /\ call'[r] = call[r] /\ r # s
           /\ call[r].on \in Props
           /\ call[r].on = call[s].on => call[r].on \in contended
  BY QueueEndsKeep, CallKinds DEF QueueInv, UInv, QueueOneHolder, Ends
<1>2. QueueOneHolder'
  BY <1>1 DEF UInv, QueueOneHolder
<1>3. QueueFresh'
  BY <1>1 DEF UInv, QueueFresh
<1>4. QED
  BY <1>2, <1>3

LEMMA BeginningStaysFresh ==
  ASSUME QueueInv, UInv, NEW p \in Props, proposal[p] = "none",
         UNCHANGED <<call, contended>>,
         \A q \in Props \ {p} : proposal'[q] = proposal[q] /\ document'[q] = document[q]
  PROVE  QueueOneHolder' /\ QueueFresh'
<1>1. \A s \in Sessions : call[s] # Nothing =>
        call[s].on \in Props /\ (call[s].on \notin contended => call[s].on # p)
  <2> SUFFICES ASSUME NEW s \in Sessions, call[s] # Nothing, call[s].on \notin contended
               PROVE  call[s].on # p
    BY CallKinds DEF QueueInv
  <2>1. document[p] = "none"
    BY DEF QueueInv, Together
  <2>2. call[s].op \in {"submit", "approve", "reject", "void", "voiding"}
    BY DEF QueueInv, ApprovalsTypeOK
  <2>3. QED
    BY <2>1, <2>2 DEF UInv, QueueFresh
<1>2. QED
  BY <1>1 DEF UInv, QueueOneHolder, QueueFresh

LEMMA UncontendedStep ==
  ASSUME QueueInv, UInv, [ApprovalsNext]_approvalVars PROVE UInv'
<1>0. /\ ApprovalsTypeOK /\ Together /\ Locks
      /\ QueueOneHolder /\ QueueFresh /\ OneEntryPerPosting
      /\ DocumentFollowsProposal
  BY DEF QueueInv, UInv, Decided
<1> USE ApprovalsAssumption
<1>1. ASSUME NEW p \in Props, Create(p) PROVE UInv'
  <2>1. /\ proposal[p] = "none" /\ p \notin Captures
        /\ proposal' = [proposal EXCEPT ![p] = "pending_approval"]
        /\ document' = [document EXCEPT ![p] =
             IF p \in Bills \cup CreditNotes THEN "awaiting_approval" ELSE "none"]
        /\ UNCHANGED <<entries, call, contended>>
    BY <1>1 DEF Create, Creates
  <2>2. QueueOneHolder' /\ QueueFresh'
    BY <1>0, <2>1, BeginningStaysFresh DEF ApprovalsTypeOK
  <2>3. Decided'
    BY <1>0, <2>1
       DEF ApprovalsTypeOK, Decided, OneEntryPerPosting, DocumentFollowsProposal
  <2>4. QED
    BY <2>2, <2>3 DEF UInv
<1>2. ASSUME NEW p \in Props, runIntake(p) PROVE UInv'
  <2>1. PICK st \in {"suggested", "pending_approval"},
             doc \in {"needs_review", "extracted"} :
          /\ proposal[p] = "none" /\ p \in Captures
          /\ doc = "needs_review" => st = "pending_approval"
          /\ proposal' = [proposal EXCEPT ![p] = st]
          /\ document' = [document EXCEPT ![p] = doc]
          /\ UNCHANGED <<entries, call, contended>>
    BY <1>2 DEF runIntake
  <2>2. QueueOneHolder' /\ QueueFresh'
    BY <1>0, <2>1, BeginningStaysFresh DEF ApprovalsTypeOK
  <2>3. Decided'
    BY <1>0, <2>1
       DEF ApprovalsTypeOK, Decided, OneEntryPerPosting, DocumentFollowsProposal
  <2>4. QED
    BY <2>2, <2>3 DEF UInv
<1>3. ASSUME NEW s \in Sessions,
             SubmitForApprovalReads(s) \/ ApproveHandlerReads(s) \/ RejectHandlerReads(s)
      PROVE  UInv'
  <2>1. PICK c \in QueueDecision :
          /\ Begins(s, c) /\ QueueContends(s)
          /\ UNCHANGED <<proposal, entries, document>>
          /\ c.op \in {"approve", "reject"} => proposal[c.on] = "pending_approval"
          /\ c.op = "submit" => proposal[c.on] = "suggested"
    <3>1. PICK c \in QueueDecision :
            /\ Begins(s, c)
            /\ c.op \in {"approve", "reject"} => proposal[c.on] = "pending_approval"
            /\ c.op = "submit" => proposal[c.on] = "suggested"
      <4>1. PICK q \in Props, op \in {"submit", "approve", "reject"} :
              /\ Begins(s, [op |-> op, on |-> q])
              /\ op \in {"approve", "reject"} => proposal[q] = "pending_approval"
              /\ op = "submit" => proposal[q] = "suggested"
        BY <1>3
           DEF SubmitForApprovalReads, ApproveHandlerReads, RejectHandlerReads,
               ReadsPending, ReadsStatus
      <4>2. [op |-> op, on |-> q] \in QueueDecision
        BY DEF QueueDecision
      <4>3. QED
        BY <4>1, <4>2
    <3>2. QueueContends(s) /\ UNCHANGED <<proposal, entries, document>>
      BY <1>3
         DEF SubmitForApprovalReads, ApproveHandlerReads, RejectHandlerReads,
             ReadsPending, ReadsStatus
    <3>3. QED
      BY <3>1, <3>2
  <2>2. c.op # "voiding" /\ c.op # "void"
    BY DEF QueueDecision
  <2>3. QED
    BY <2>1, <2>2, ReadsStayFresh
<1>4. ASSUME NEW s \in Sessions, VoidReads(s) PROVE UInv'
  <2>1. PICK c \in QueueVoid :
          /\ Begins(s, c) /\ QueueContends(s)
          /\ UNCHANGED <<proposal, entries, document>>
          /\ c.op = "void" /\ document[c.on] = "awaiting_approval"
    BY <1>4 DEF VoidReads, QueueVoid
  <2>2. QED
    BY <2>1, ReadsStayFresh DEF QueueVoid
<1>5. ASSUME NEW s \in Sessions, VoidUpdates(s) PROVE UInv'
  <2> DEFINE p == call[s].on
  <2>1. /\ call[s] \in QueueVoid /\ call[s] # Nothing /\ p \in Bills /\ p \in Props
        /\ proposal[p] = "pending_approval" /\ document[p] = "awaiting_approval"
        /\ call' = [call EXCEPT ![s] = [call[s] EXCEPT !.op = "voiding"]]
        /\ UNCHANGED <<proposal, entries, contended, document>>
    BY <1>0, <1>5, CallKinds DEF VoidUpdates, At, Together
  <2>2. /\ [call[s] EXCEPT !.op = "voiding"].on = p
        /\ [call[s] EXCEPT !.op = "voiding"].op = "voiding"
    BY <2>1 DEF QueueVoid
  <2>3. /\ call'[s].on = p /\ call'[s].op = "voiding"
        /\ \A r \in Sessions \ {s} : call'[r] = call[r]
    BY <1>0, <2>1, <2>2 DEF ApprovalsTypeOK
  <2>4. QueueOneHolder' /\ QueueFresh'
    BY <1>0, <2>1, <2>3 DEF QueueOneHolder, QueueFresh
  <2>5. Decided'
    BY <1>0, <2>1 DEF Decided, OneEntryPerPosting, DocumentFollowsProposal
  <2>6. QED
    BY <2>4, <2>5 DEF UInv
<1>6. ASSUME NEW s \in Sessions, SubmitForApprovalCommits(s) PROVE UInv'
  <2> DEFINE p == call[s].on
  <2>1. /\ call[s] # Nothing /\ p \in Props /\ Ends(s) /\ p \in Captures
        /\ p \notin contended => proposal[p] = "suggested"
        /\ proposal' = [proposal EXCEPT ![p] = "pending_approval"]
        /\ UNCHANGED <<entries, document, contended>>
    BY <1>0, <1>6, CallKinds
       DEF SubmitForApprovalCommits, At, Locks, QueueFresh, Ends
  <2>2. QueueOneHolder' /\ QueueFresh'
    BY <1>0, <2>1, EndsStayFresh DEF ApprovalsTypeOK
  <2>3. Decided'
    BY <1>0, <2>1
       DEF ApprovalsTypeOK, Decided, OneEntryPerPosting, DocumentFollowsProposal
  <2>4. QED
    BY <2>2, <2>3 DEF UInv
<1>7. ASSUME NEW s \in Sessions, ApproveHandlerCommits(s) PROVE UInv'
  <2> DEFINE p == call[s].on
  <2>1. /\ call[s] # Nothing /\ p \in Props /\ Ends(s) /\ UNCHANGED contended
        /\ p \notin contended => proposal[p] = "pending_approval"
        /\ \/ /\ p \in Tasks
              /\ proposal' = [proposal EXCEPT ![p] = "approved"]
              /\ UNCHANGED <<entries, document>>
           \/ /\ p \notin Tasks
              /\ proposal' = [proposal EXCEPT ![p] = "posted"]
              /\ entries' = [entries EXCEPT ![p] = @ + 1]
              /\ document' = [document EXCEPT ![p] =
                   IF p \in Captures THEN "posted"
                   ELSE IF @ # "awaiting_approval" THEN @
                   ELSE IF p \in Bills THEN "open" ELSE "applied"]
    BY <1>0, <1>7, CallKinds
       DEF ApproveHandlerCommits, At, IsPosted, QueueFresh, Ends
  <2>2. QueueOneHolder' /\ QueueFresh'
    BY <1>0, <2>1, EndsStayFresh DEF ApprovalsTypeOK
  <2>3. OneEntryPerPosting'
    BY <1>0, <2>1 DEF ApprovalsTypeOK, OneEntryPerPosting
  <2>4. DocumentFollowsProposal'
    BY <1>0, <2>1 DEF ApprovalsTypeOK, Together, DocumentFollowsProposal
  <2>5. QED
    BY <2>2, <2>3, <2>4 DEF UInv, Decided
<1>8. ASSUME NEW s \in Sessions,
             RejectHandlerCommits(s) \/ VoidCommits(s)
      PROVE  UInv'
  <2> DEFINE p == call[s].on
  <2>1. /\ call[s] # Nothing /\ p \in Props /\ Ends(s)
        /\ UNCHANGED <<contended, entries>>
        /\ p \notin contended => proposal[p] = "pending_approval"
        /\ proposal' = [proposal EXCEPT ![p] = "rejected"]
        /\ \/ UNCHANGED document
           \/ p \in Bills /\ document' = [document EXCEPT ![p] = "void"]
    BY <1>0, <1>8, CallKinds
       DEF RejectHandlerCommits, VoidCommits, At, IsRejected,
           QueueFresh, Ends
  <2>2. QueueOneHolder' /\ QueueFresh'
    BY <1>0, <2>1, EndsStayFresh DEF ApprovalsTypeOK
  <2>3. OneEntryPerPosting'
    BY <1>0, <2>1 DEF ApprovalsTypeOK, OneEntryPerPosting
  <2>4. DocumentFollowsProposal'
    BY <1>0, <2>1 DEF ApprovalsTypeOK, Together, DocumentFollowsProposal
  <2>5. QED
    BY <2>2, <2>3, <2>4 DEF UInv, Decided
<1>9. ASSUME NEW s \in Sessions, QueueRollsBack(s) PROVE UInv'
  <2>1. /\ call[s] # Nothing /\ Ends(s)
        /\ UNCHANGED <<proposal, entries, document, contended>>
    BY <1>9 DEF QueueRollsBack, Ends
  <2>2. QueueOneHolder' /\ QueueFresh'
    <3>1. \A q \in Props \ {call[s].on} :
            proposal'[q] = proposal[q] /\ document'[q] = document[q]
      BY <2>1
    <3>2. QED
      BY <2>1, <3>1, EndsStayFresh
  <2>3. Decided'
    BY <1>0, <2>1 DEF Decided, OneEntryPerPosting, DocumentFollowsProposal
  <2>4. QED
    BY <2>2, <2>3 DEF UInv
<1>10. CASE UNCHANGED approvalVars
  BY <1>0, <1>10
     DEF approvalVars, UInv, QueueOneHolder, QueueFresh, Decided,
         OneEntryPerPosting, DocumentFollowsProposal
<1>11. QED
  BY <1>1, <1>2, <1>3, <1>4, <1>5, <1>6, <1>7, <1>8, <1>9, <1>10 DEF ApprovalsNext

LEMMA UncontendedAlways == ApprovalsSpec => []UInv
<1>1. ApprovalsInit => UInv
  BY ApprovalsAssumption
     DEF ApprovalsInit, ProposalsInit, UInv,
         QueueOneHolder, QueueFresh, Decided,
         OneEntryPerPosting, DocumentFollowsProposal
<1>2. QED
  BY <1>1, QueueInitKeeps, QueueStepKeeps, UncontendedStep, PTL DEF ApprovalsSpec

\* What no two transactions had in hand at once is in the ledger once if its
\* proposal was posted, and not at all otherwise.
THEOREM PostedOnce == ApprovalsSpec => []OneEntryPerPosting
<1>1. UInv => OneEntryPerPosting
  BY DEF UInv, Decided
<1>2. QED
  BY <1>1, UncontendedAlways, PTL

\* And the document tells how it was decided.
THEOREM DocumentsFollow == ApprovalsSpec => []DocumentFollowsProposal
<1>1. UInv => DocumentFollowsProposal
  BY DEF UInv, Decided
<1>2. QED
  BY <1>1, UncontendedAlways, PTL

=============================================================================
