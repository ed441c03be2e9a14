------------------------------ MODULE BankFeed ------------------------------
(***************************************************************************)
(* A bank-feed connection and the transactions it brings in:               *)
(* finalizeConnection, syncConnection and deleteConnection                 *)
(* (src/bankfeed), as the daily sweep and the routes under                 *)
(* web/app/api/bank/connections call them.                                 *)
(*                                                                         *)
(* A request takes today's date, then waits for the connection's row; the  *)
(* sync is one transaction under that lock, and fetches the accounts one   *)
(* after another while the clock and the bank go on.  A transaction stands *)
(* for the key importStatement tells it by.                                *)
(***************************************************************************)
EXTENDS Integers

CONSTANTS
  FeedAccounts,  \* the bank accounts the consent covers
  Txns,          \* their transactions
  AccountOf,     \* per transaction, its account
  BookedOn,      \* per transaction, its booking date
  Sessions,      \* concurrent requests
  NoSync,        \* no request, no transaction open
  Overlap,       \* OVERLAP_DAYS
  FirstDays,     \* FIRST_SYNC_DAYS
  LastDay,       \* bound: the clock stops at this day
  MaxDeletes     \* bound: how often the connection is removed

VARIABLES
  day,       \* the current date
  visible,   \* the transactions the provider reports
  conn,      \* bank_feed_connections.status: linked or not (pending, expired,
             \* revoked), "none" while there is no row
  cursor,    \* bank_feed_accounts.last_synced_date: 0 null, -1 no row
  imported,  \* bank_transactions
  asked,     \* per session, the date its request took (0: no request, -1: its
             \* connection has been removed)
  sync,      \* the open transaction: what it has written so far
  fed,       \* history, per account: what the provider reported at its last
             \* committed fetch, and the start of its first window
  deletes    \* bound: connections removed

vars == <<day, visible, conn, cursor, imported, asked, sync, fed, deletes>>

NotFed == [a \in FeedAccounts |-> [seen |-> {}, since |-> 0]]

Init ==
  /\ day = FirstDays + 1
  /\ visible = {}
  /\ conn = "unlinked"
  /\ cursor = [a \in FeedAccounts |-> -1]
  /\ imported = {}
  /\ asked = [s \in Sessions |-> 0]
  /\ sync = NoSync
  /\ fed = NotFed
  /\ deletes = 0

-----------------------------------------------------------------------------
(* The bank.                                                               *)

\* A transaction is reported some days after its booking date, but no later
\* than the overlap allows for.
Appears(t) ==
  /\ t \notin visible
  /\ day \in BookedOn[t]..(BookedOn[t] + Overlap)
  /\ visible' = visible \cup {t}
  /\ UNCHANGED <<day, conn, cursor, imported, asked, sync, fed, deletes>>

NextDay ==
  /\ day < LastDay
  /\ \A t \in Txns : BookedOn[t] + Overlap = day => t \in visible
  /\ day' = day + 1
  /\ UNCHANGED <<visible, conn, cursor, imported, asked, sync, fed, deletes>>

-----------------------------------------------------------------------------
(* Requests.                                                               *)

\* The sweep or a route takes the date.
Asks(s) ==
  /\ asked[s] = 0
  /\ conn # "none"
  /\ asked' = [asked EXCEPT ![s] = day]
  /\ UNCHANGED <<day, visible, conn, cursor, imported, sync, fed, deletes>>

\* The row is locked and the provider asked for the consent's status: unless
\* it is linked, that is all there is to write.
FindsUnlinked(s) ==
  /\ asked[s] > 0 /\ sync = NoSync
  /\ conn' = "unlinked"
  /\ asked' = [asked EXCEPT ![s] = 0]
  /\ UNCHANGED <<day, visible, cursor, imported, sync, fed, deletes>>

NotFound(s) ==
  /\ asked[s] = -1
  /\ asked' = [asked EXCEPT ![s] = 0]
  /\ UNCHANGED <<day, visible, conn, cursor, imported, sync, fed, deletes>>

\* It is linked.  A finalize stores the accounts first; a sync takes those
\* that are there.
Begins(s) ==
  /\ asked[s] > 0 /\ sync = NoSync
  /\ \E finalize \in BOOLEAN :
       LET cur == [a \in FeedAccounts |->
                     IF finalize /\ cursor[a] = -1 THEN 0 ELSE cursor[a]]
       IN sync' = [by |-> s, today |-> asked[s],
                   todo |-> {a \in FeedAccounts : cur[a] # -1},
                   cursor |-> cur, imported |-> imported, fed |-> fed]
  /\ UNCHANGED <<day, visible, conn, cursor, imported, asked, fed, deletes>>

\* The start of an account's window.
From(a) ==
  IF sync.cursor[a] = 0 THEN sync.today - FirstDays ELSE sync.cursor[a] - Overlap

\* An account is fetched, its transactions imported and its cursor advanced.
Fetches(a) ==
  LET seen == {t \in visible : AccountOf[t] = a} IN
  /\ sync # NoSync /\ a \in sync.todo
  /\ sync' = [sync EXCEPT
       !.todo = @ \ {a},
       !.imported = @ \cup {t \in seen : BookedOn[t] >= From(a)},
       !.cursor[a] = sync.today,
       !.fed[a] = [seen |-> seen,
                   since |-> IF @.since = 0 THEN From(a) ELSE @.since]]
  /\ UNCHANGED <<day, visible, conn, cursor, imported, asked, fed, deletes>>

\* Mutant of FetchFails: the cursor advances all the same.
FetchFailsAdvancing(a) ==
  /\ sync # NoSync /\ a \in sync.todo
  /\ sync' = [sync EXCEPT !.todo = @ \ {a}, !.cursor[a] = sync.today]
  /\ UNCHANGED <<day, visible, conn, cursor, imported, asked, fed, deletes>>

\* The provider fails for one account: its cursor stays, the others go on.
FetchFails(a) ==
  /\ sync # NoSync /\ a \in sync.todo
  /\ sync' = [sync EXCEPT !.todo = @ \ {a}]
  /\ UNCHANGED <<day, visible, conn, cursor, imported, asked, fed, deletes>>

Commits ==
  /\ sync # NoSync /\ sync.todo = {}
  /\ conn' = "linked"
  /\ cursor' = sync.cursor /\ imported' = sync.imported /\ fed' = sync.fed
  /\ asked' = [asked EXCEPT ![sync.by] = 0]
  /\ sync' = NoSync
  /\ UNCHANGED <<day, visible, deletes>>

\* A statement fails, or the process dies: nothing of the sync is kept.
RollsBack ==
  /\ sync # NoSync
  /\ asked' = [asked EXCEPT ![sync.by] = 0]
  /\ sync' = NoSync
  /\ UNCHANGED <<day, visible, conn, cursor, imported, fed, deletes>>

\* deleteConnection: the accounts go with the connection, the transactions
\* stay.
deleteConnection ==
  /\ conn # "none" /\ sync = NoSync
  /\ deletes < MaxDeletes
  /\ deletes' = deletes + 1
  /\ conn' = "none"
  /\ cursor' = [a \in FeedAccounts |-> -1]
  /\ fed' = NotFed
  /\ asked' = [s \in Sessions |-> IF asked[s] = 0 THEN 0 ELSE -1]
  /\ UNCHANGED <<day, visible, imported, sync>>

\* createConnection for the same bank.
createConnection ==
  /\ conn = "none"
  /\ conn' = "unlinked"
  /\ UNCHANGED <<day, visible, cursor, imported, asked, sync, fed, deletes>>

Next ==
  \/ \E t \in Txns : Appears(t)
  \/ NextDay
  \/ \E s \in Sessions : Asks(s) \/ FindsUnlinked(s) \/ NotFound(s) \/ Begins(s)
  \/ \E a \in FeedAccounts : Fetches(a) \/ FetchFails(a)
  \/ Commits \/ RollsBack
  \/ deleteConnection \/ createConnection

Spec == Init /\ [][Next]_vars

-----------------------------------------------------------------------------
(* Properties.                                                             *)

\* Of everything the bank reported by an account's last successful fetch,
\* nothing booked since its first window began is missing: whatever syncs
\* failed in between or for how long, overlapped or took a date that had
\* passed when they got the row.
FeedIsComplete ==
  \A a \in FeedAccounts : \A t \in fed[a].seen :
    BookedOn[t] >= fed[a].since => t \in imported

=============================================================================
