------------------------------ MODULE Dunning -------------------------------
(***************************************************************************)
(* Reminders of overdue invoices: runDunning, the daily chain of           *)
(* dunning_run jobs with its handler and its reap, the run a user starts   *)
(* by hand, and the policy (src/dunning, src/jobs/register.ts and the      *)
(* routes web/app/api/receivables/dunning).                                *)
(*                                                                         *)
(* The queue below is LeaseQueue; a job's key is the day it runs for.  A   *)
(* run reads the policy, the stages and the overdue invoices in one step,  *)
(* and claims levels and commits in a later one.                           *)
(***************************************************************************)
EXTENDS LeaseQueue, Integers, FiniteSetsExt, Sequences

CONSTANTS
  Invoices,   \* outbound invoices
  Due,        \* per invoice, its due date
  Open,       \* per invoice, the cents outstanding
  StageSets,  \* the stages a policy may set: days overdue, by level
  AnnualBps,  \* late_fee_annual_bps
  FlatCents,  \* late_fee_flat_cents
  Users,      \* concurrent requests
  NoRun,      \* no run in hand
  Horizon,    \* bound: the clock stops at this day
  MaxPuts,    \* bound: changes of the policy
  MaxLate,    \* bound: failures of a worker whose handler has committed
  MaxManual   \* bound: runs by hand

Days == 1..Horizon

VARIABLES
  today,   \* the current day
  policy,  \* dunning_policy.enabled: none (no row), on or off
  stages,  \* dunning_stages
  paid,    \* invoices paid in full
  run,     \* per worker, the handler it is in
  manual,  \* per user, the run it is in
  prompts, \* per invoice, its dunning_events in order, each with a task
  restaged,\* history: the stages have been changed
  puts,    \* bound: how often the policy has been changed
  late,    \* bound: failures after the handler's commit
  runs     \* bound: runs by hand

dunningVars == <<today, policy, stages, paid, run, manual, prompts, restaged,
                 puts, late, runs>>
vars == <<queueVars, dunningVars>>

Init ==
  /\ QueueInit
  /\ today = 1
  /\ policy = "none"
  /\ stages \in StageSets
  /\ paid = {}
  /\ run = [w \in Workers |-> NoRun]
  /\ manual = [u \in Users |-> NoRun]
  /\ prompts = [i \in Invoices |-> <<>>]
  /\ restaged = FALSE
  /\ puts = 0 /\ late = 0 /\ runs = 0

-----------------------------------------------------------------------------
(* runDunning.                                                             *)

\* The highest stage whose threshold is reached; 0 if none is.
reached(st, i, asOf) ==
  Max({0} \cup {l \in DOMAIN st : Due[i] < asOf /\ asOf - Due[i] >= st[l]})

accruedLateFeeCents(i, days) ==
  FlatCents + (IF AnnualBps <= 0 \/ days <= 0 THEN 0
               ELSE (Open[i] * AnnualBps * days + 1825000) \div 3650000)

\* A missing policy counts as enabled here.
Reads(asOf) ==
  [asOf |-> asOf, enabled |-> policy # "off",
   level |-> [i \in Invoices \ paid |->
               IF policy = "off" THEN 0 ELSE reached(stages, i, asOf)]]

Levels(i) == {prompts[i][k].level : k \in DOMAIN prompts[i]}

\* Mutant of Claims: the level is not asked for.
ClaimsAgain(r) ==
  [i \in Invoices |->
    IF i \in DOMAIN r.level /\ r.level[i] > 0
      THEN Append(prompts[i], [level |-> r.level[i], asOf |-> r.asOf,
                               fee |-> accruedLateFeeCents(i, r.asOf - Due[i])])
      ELSE prompts[i]]

\* ON CONFLICT DO NOTHING: a level that has been prompted is skipped.
Claims(r) ==
  [i \in Invoices |->
    IF i \in DOMAIN r.level /\ r.level[i] > 0 /\ r.level[i] \notin Levels(i)
      THEN Append(prompts[i], [level |-> r.level[i], asOf |-> r.asOf,
                               fee |-> accruedLateFeeCents(i, r.asOf - Due[i])])
      ELSE prompts[i]]

-----------------------------------------------------------------------------
(* The daily chain.                                                        *)

OthersKeep ==
  UNCHANGED <<today, policy, stages, paid, manual, restaged, puts, runs>>

\* claimDue: a job is due from the midnight of its day.
Claim(w) ==
  /\ \E S \in SUBSET {j \in Jobs : j <= today} : Take(w, S)
  /\ UNCHANGED dunningVars

HandlerReads(w) ==
  /\ run[w] = NoRun
  /\ \E j \in Jobs :
       /\ w \in holders[j]
       /\ run' = [run EXCEPT ![w] = [job |-> j, phase |-> "read", read |-> Reads(j)]]
  /\ UNCHANGED <<queueVars, prompts, late>>
  /\ OthersKeep

InPhase(w, phase) == run[w] # NoRun /\ run[w].phase = phase

\* The handler commits; an enabled chain goes on to the next day.
HandlerCommits(w) ==
  LET j == run[w].job IN
  /\ InPhase(w, "read")
  /\ prompts' = Claims(run[w].read)
  /\ Work(w, j, IF run[w].read.enabled THEN Jobs \cap {j + 1} ELSE {})
  /\ run' = [run EXCEPT ![w].phase = "committed"]
  /\ UNCHANGED late
  /\ OthersKeep

Completes(w) ==
  /\ InPhase(w, "committed")
  /\ Finish(w, run[w].job)
  /\ run' = [run EXCEPT ![w] = NoRun]
  /\ UNCHANGED <<prompts, late>>
  /\ OthersKeep

Counted(w) == late' = (IF InPhase(w, "committed") THEN late + 1 ELSE late)
                /\ late' <= MaxLate

\* The handler throws, or completeJob after it.
Fails(w) ==
  /\ run[w] # NoRun
  /\ GiveBack(w, run[w].job)
  /\ run' = [run EXCEPT ![w] = NoRun]
  /\ Counted(w)
  /\ UNCHANGED prompts
  /\ OthersKeep

Dies(w) ==
  /\ \E j \in Jobs : w \in holders[j]
  /\ Lose(w)
  /\ run' = [run EXCEPT ![w] = NoRun]
  /\ Counted(w)
  /\ UNCHANGED prompts
  /\ OthersKeep

\* Mutant of Reap: a job that failed counts as alive.
ReapUnlessFailed ==
  /\ policy = "on"
  /\ \A j \in Jobs : status[j] \notin Live \cup {"failed"}
  /\ status[today] = "none"
  /\ Offer(today)
  /\ UNCHANGED dunningVars

\* reapDunning: today's job, where there is no live one and no row for today.
Reap ==
  /\ policy = "on"
  /\ \A j \in Jobs : status[j] \notin Live
  /\ status[today] = "none"
  /\ Offer(today)
  /\ UNCHANGED dunningVars

-----------------------------------------------------------------------------
(* Users.                                                                  *)

\* A run by hand, for any day.
ManualReads(u) ==
  /\ manual[u] = NoRun /\ runs < MaxManual
  /\ \E asOf \in Days : manual' = [manual EXCEPT ![u] = Reads(asOf)]
  /\ runs' = runs + 1
  /\ UNCHANGED <<queueVars, today, policy, stages, paid, run, prompts, restaged,
                 puts, late>>

ManualCommits(u) ==
  /\ manual[u] # NoRun
  /\ prompts' = Claims(manual[u])
  /\ manual' = [manual EXCEPT ![u] = NoRun]
  /\ UNCHANGED <<queueVars, today, policy, stages, paid, run, restaged, puts, late,
                 runs>>

\* PUT: the policy, the stages and, if it is enabled, today's job.
PutPolicy ==
  /\ puts < MaxPuts
  /\ puts' = puts + 1
  /\ policy' \in {"on", "off"}
  /\ stages' \in StageSets
  /\ restaged' = (restaged \/ stages' # stages)
  /\ status' = Offered(IF policy' = "on" THEN {today} ELSE {})
  /\ UNCHANGED <<holders, handled, today, paid, run, manual, prompts, late, runs>>

Paid(i) ==
  /\ i \notin paid
  /\ paid' = paid \cup {i}
  /\ UNCHANGED <<queueVars, today, policy, stages, run, manual, prompts, restaged,
                 puts, late, runs>>

NextDay ==
  /\ today < Horizon
  /\ today' = today + 1
  /\ UNCHANGED <<queueVars, policy, stages, paid, run, manual, prompts, restaged,
                 puts, late, runs>>

Next ==
  \/ \E w \in Workers :
       Claim(w) \/ HandlerReads(w) \/ HandlerCommits(w) \/ Completes(w)
       \/ Fails(w) \/ Dies(w)
  \/ Reap
  \/ \E u \in Users : ManualReads(u) \/ ManualCommits(u)
  \/ PutPolicy
  \/ \E i \in Invoices : Paid(i)
  \/ NextDay

Spec == Init /\ [][Next]_vars

-----------------------------------------------------------------------------
(* Properties.                                                             *)

\* A level of an invoice is prompted once, however runs overlap and jobs are
\* delivered again; and while the stages stay as they are, a run for the same
\* or a later day prompts a higher level, with no smaller fee.  (A run for an
\* earlier day, of a chain that catches up after one by hand, prompts a lower
\* level after a higher.)
LevelsClimb ==
  \A i \in Invoices : \A a, b \in DOMAIN prompts[i] : a < b =>
    LET p == prompts[i][a]
        q == prompts[i][b]
    IN  /\ p.level # q.level
        /\ ~restaged /\ p.asOf <= q.asOf => p.level < q.level /\ p.fee <= q.fee

\* While the policy is on: an unpaid invoice is overdue to a level no reminder
\* of it has reached.
Behind(i) ==
  /\ policy = "on" /\ i \notin paid
  /\ \A k \in Levels(i) : k < reached(stages, i, today)
  /\ reached(stages, i, today) > 0

\* An invoice does not stay behind: it is prompted, though handlers fail for
\* good, workers die, the policy was off when a job ran and the stages change
\* under a run.  (The last day has no next one to make up for what its run
\* left.)
OverdueIsPrompted ==
  \A i \in Invoices :
    (Behind(i) /\ today < Horizon)
      ~> (~Behind(i) \/ status[Horizon] \in {"done", "failed"})

=============================================================================
