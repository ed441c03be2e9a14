------------------------------ MODULE Services ------------------------------
(***************************************************************************)
(* Reminders, accounts, bank feeds and the exchange of e-invoices in one   *)
(* specification.  They share no row, so that steps of one commute with    *)
(* steps of another: `focus', chosen at the start, is the one that moves.  *)
(***************************************************************************)
EXTENDS Integers, Sequences, FiniteSets

CONSTANTS
  Nothing,                       \* NULL: no call, no transaction, no bill
  Sessions,                      \* concurrent requests
  Workers, Jobs, JobsOverlap,    \* as in LeaseQueue, its Overlap
  \* of Dunning
  Invoices, Due, Open, StageSets, AnnualBps, FlatCents, Users,
  Horizon, MaxPuts, MaxLate, MaxManual,
  \* of Accounts
  InviteTtl, SessionTtl, Window, MaxFailures, LastStep, MaxInvites,
  \* of BankFeed
  FeedAccounts, Txns, AccountOf, BookedOn, Overlap, FirstDays, LastDay, MaxDeletes,
  \* of OutboundInvoices
  Outbound, IssuedOn, DaysOff, FinalDay, MaxSubmits,
  \* of InboundInvoices
  Messages, Content, Registered, DomesticRate

\* Sets of rows are finite, amounts and days are whole numbers, a limit lets
\* something through, and NULL is no date and
\* no transaction.
ASSUME RemindersAssumption ==
  /\ Due \in [Invoices -> Int] /\ Open \in [Invoices -> Nat]
  /\ AnnualBps \in Nat /\ FlatCents \in Nat
  /\ StageSets \subseteq Seq(Nat) /\ Jobs \subseteq Int

ASSUME LoginsAssumption ==
  /\ IsFiniteSet(Sessions)
  /\ MaxFailures \in Nat \ {0} /\ Window \in Nat
  /\ InviteTtl \in Nat /\ SessionTtl \in Nat /\ MaxInvites \in Nat

ASSUME FeedAssumption ==
  /\ BookedOn \in [Txns -> Int] /\ Overlap \in Nat /\ FirstDays \in Nat

VARIABLES
  focus,
  status, holders, handled, today, policy, stages, paid, run, manual, prompts,
  restaged, puts, late, runs,
  now, account, invites, made, live, attempts, call, crossed,
  day, visible, conn, cursor, imported, asked, sync, fed, deletes,
  asOf, dispatched, row, accepted, unrecorded, request, submits,
  unsent, inbox, bill, vendors, batch, lost, raced

remindersVars == <<status, holders, handled, today, policy, stages, paid, run,
                   manual, prompts, restaged, puts, late, runs>>
loginsVars == <<now, account, invites, made, live, attempts, call, crossed>>
feedVars == <<day, visible, conn, cursor, imported, asked, sync, fed, deletes>>
sendingVars == <<asOf, dispatched, row, accepted, unrecorded, request, submits>>
receivingVars == <<unsent, inbox, bill, vendors, batch, lost, raced>>
vars == <<focus, remindersVars, loginsVars, feedVars, sendingVars, receivingVars>>

Reminders == INSTANCE Dunning WITH NoRun <- Nothing, Overlap <- JobsOverlap

Logins == INSTANCE Accounts WITH Idle <- Nothing

Feed == INSTANCE BankFeed WITH NoSync <- Nothing

Sending == INSTANCE OutboundInvoices WITH NoRequest <- Nothing

Receiving == INSTANCE InboundInvoices WITH NoBatch <- Nothing

ASSUME SendingAssumption ==
  /\ \A o \in Outbound : Sending!addWorkingDays(IssuedOn[o], 5) # Nothing
  /\ Nothing \notin [step : {"sent"}, on : Outbound]

ASSUME ReceivingAssumption ==
  /\ Content \in [Messages ->
       [supplier : Receiving!Suppliers, net : Int, vat : Int, grand : Int,
        lines : Seq([net : Int, rate : Int, cat : STRING])]]
  /\ \A m \in Messages : Receiving!Bill(Content[m]) # Nothing
  /\ Nothing \notin [taken : SUBSET Messages, todo : SUBSET Messages,
                    created : SUBSET Receiving!Suppliers]

Init ==
  /\ focus \in {"reminders", "logins", "feed", "sending", "receiving"}
  /\ Reminders!Init /\ Logins!Init /\ Feed!Init /\ Sending!Init /\ Receiving!Init

Next ==
  \/ focus = "reminders" /\ Reminders!Next
       /\ UNCHANGED <<focus, loginsVars, feedVars, sendingVars, receivingVars>>
  \/ focus = "logins" /\ Logins!Next
       /\ UNCHANGED <<focus, remindersVars, feedVars, sendingVars, receivingVars>>
  \/ focus = "feed" /\ Feed!Next
       /\ UNCHANGED <<focus, remindersVars, loginsVars, sendingVars, receivingVars>>
  \/ focus = "sending" /\ Sending!Next
       /\ UNCHANGED <<focus, remindersVars, loginsVars, feedVars, receivingVars>>
  \/ focus = "receiving" /\ Receiving!Next
       /\ UNCHANGED <<focus, remindersVars, loginsVars, feedVars, sendingVars>>

\* Dunning's fairness: the loop polls and reaps for ever, days pass, a drain
\* goes on to its next step, and not every delivery is cut short.
Step(A) ==
  /\ focus = "reminders" /\ A
  /\ UNCHANGED <<focus, loginsVars, feedVars, sendingVars, receivingVars>>

Fairness ==
  /\ WF_vars(Step(Reminders!Reap))
  /\ WF_vars(Step(Reminders!NextDay))
  /\ \A w \in Workers :
       /\ SF_vars(Step(Reminders!Claim(w)))
       /\ SF_vars(Step(Reminders!HandlerReads(w)))
       /\ SF_vars(Step(Reminders!HandlerCommits(w)))
       /\ WF_vars(Step(Reminders!Completes(w)))

Spec == Init /\ [][Next]_vars /\ Fairness

\* The properties, under their own names.
LevelsClimb == Reminders!LevelsClimb
OverdueIsPrompted == Reminders!OverdueIsPrompted
ResetHolds == Logins!ResetHolds
LimitHolds == Logins!LimitHolds
FeedIsComplete == Feed!FeedIsComplete
DeadlinesSeen == Sending!DeadlinesSeen
InboundBooked == Receiving!InboundBooked

=============================================================================
