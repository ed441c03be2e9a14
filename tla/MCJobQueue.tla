----------------------------- MODULE MCJobQueue -----------------------------
(***************************************************************************)
(* Small instances of JobQueue.  j1 is a recurring_generate job, which a   *)
(* reap may revive, j2 a dunning_run job, which it may not.                *)
(***************************************************************************)
EXTENDS JobQueueRefinement

CONSTANTS j1, j2, w1, w2, r1

MCJobs == {j1, j2}
MCOneJob == {j1}
MCRevivable == {j1}
MCWorkers == {w1, w2}
MCReapers == {r1}
=============================================================================
