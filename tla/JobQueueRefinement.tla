------------------------- MODULE JobQueueRefinement -------------------------
(***************************************************************************)
(* The queue of src/jobs implements LeaseQueue: exclusively while workers  *)
(* keep their leases and reaps do not race, with overlaps otherwise.       *)
(***************************************************************************)
EXTENDS JobQueue

HoldersOf == [j \in Jobs |-> {w \in Workers : j \in Held(w)}]

Promise == INSTANCE LeaseQueue WITH
  holders <- HoldersOf,
  Overlap <- (LateWorkers \/ SlowReapers)

\* JobQueue implements what LeaseQueue promises: no job reaches two workers
\* at once, none is done unhandled, an ended job stays ended until offered.
QueuePromise == Promise!QueueSpec
=============================================================================
