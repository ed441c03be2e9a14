------------------------------ MODULE Accounts ------------------------------
(***************************************************************************)
(* One user's account: the invites that reset and activate it              *)
(* (src/auth/invites.ts), its sessions (src/auth/sessions.ts) and the      *)
(* limit on failed logins (src/auth/rate-limit.ts, the login route).       *)
(*                                                                         *)
(* Time is counted in TOTP steps.  createInvite reaches the users row, on  *)
(* which a login serialises, after it has deleted what it finds: two       *)
(* steps.  acceptInvite finds its invite before its transaction: two       *)
(* steps.  login is one transaction under the lock of the users row.       *)
(***************************************************************************)
EXTENDS Integers, FiniteSets

CONSTANTS
  Sessions,     \* concurrent requests
  Idle,         \* no request in hand
  InviteTtl,    \* INVITE_TTL_SECONDS
  SessionTtl,   \* SESSION_TTL_SECONDS
  Window,       \* WINDOW_SECONDS
  MaxFailures,  \* MAX_FAILURES
  LastStep,     \* bound: the clock stops here
  MaxInvites    \* bound: invites ever made for the user

InviteIds == 1..MaxInvites

VARIABLES
  now,       \* the current time step
  account,   \* users: status, the invite its totp_secret came with (0: it is
             \* as createUser made it), last_totp_step (-1: null)
  invites,   \* user_invites: none, sent, used or deleted, and expires_at
  made,      \* how many invites have been begun
  live,      \* sessions: the code each was opened with, and its expiry
  attempts,  \* login_attempts: fail_count (0: no row) and window_start
  call,      \* per session, the request it is in
  crossed    \* history: a createInvite overlapped another, or a login

vars == <<now, account, invites, made, live, attempts, call, crossed>>

Init ==
  /\ now = 0
  /\ account = [status |-> "active", secret |-> 0, lastStep |-> -1]
  /\ invites = [i \in InviteIds |-> [state |-> "none", expires |-> 0]]
  /\ made = 0
  /\ live = {}
  /\ attempts = [count |-> 0, start |-> 0]
  /\ call = [s \in Sessions |-> Idle]
  /\ crossed = FALSE

At(s, phase) == call[s] # Idle /\ call[s].phase = phase
Returns(s) == call' = [call EXCEPT ![s] = Idle]
Goes(s, c) == call' = [call EXCEPT ![s] = c]

-----------------------------------------------------------------------------
(* Invites.                                                                *)

\* createInvite deletes the unused invites and the sessions it finds ...
InviteDeletes(s) ==
  /\ call[s] = Idle /\ made < MaxInvites
  /\ made' = made + 1
  /\ invites' = [i \in InviteIds |->
       IF invites[i].state = "sent" THEN [invites[i] EXCEPT !.state = "deleted"]
                                    ELSE invites[i]]
  /\ live' = {}
  /\ Goes(s, [phase |-> "inviting", invite |-> made + 1, at |-> now])
  /\ crossed' = (crossed \/ \E t \in Sessions : At(t, "inviting"))
  /\ UNCHANGED <<now, account, attempts>>

\* ... and then locks the account under a new secret, inserts the invite and
\* commits.
InviteCommits(s) ==
  /\ At(s, "inviting")
  /\ account' = [account EXCEPT !.status = "invited", !.secret = call[s].invite]
  /\ invites' = [invites EXCEPT ![call[s].invite] =
                   [state |-> "sent", expires |-> call[s].at + InviteTtl]]
  /\ Returns(s)
  /\ UNCHANGED <<now, made, live, attempts, crossed>>

\* acceptInvite: findValidInvite, and a code of the secret the account has.
AcceptFinds(s) ==
  /\ call[s] = Idle
  /\ \E i \in InviteIds :
       /\ invites[i].state = "sent" /\ invites[i].expires > now
       /\ Goes(s, [phase |-> "accepting", invite |-> i, at |-> now])
  /\ UNCHANGED <<now, account, invites, made, live, attempts, crossed>>

Activates(s) ==
  /\ invites' = [invites EXCEPT ![call[s].invite].state = "used"]
  /\ account' = [account EXCEPT !.status = "active"]
  /\ Returns(s)
  /\ UNCHANGED <<now, made, live, attempts, crossed>>

\* Mutant of AcceptCommits: the invite found is not tested again.
AcceptCommitsUntested(s) == At(s, "accepting") /\ Activates(s)

\* The invite is still unused: it is used, and the account active.
AcceptCommits(s) ==
  /\ At(s, "accepting")
  /\ invites[call[s].invite].state = "sent"
  /\ Activates(s)

\* It is not: nothing is written.
AcceptThrows(s) ==
  /\ At(s, "accepting")
  /\ invites[call[s].invite].state # "sent"
  /\ Returns(s)
  /\ UNCHANGED <<now, account, invites, made, live, attempts, crossed>>

-----------------------------------------------------------------------------
(* Logins.                                                                 *)

Counts(at) == attempts.start > at - Window

\* Mutant of checkLoginAllowed: one failure too many is let through.
checkLoginAllowedLate(at) == ~(attempts.count > MaxFailures /\ Counts(at))

checkLoginAllowed(at) == ~(attempts.count >= MaxFailures /\ Counts(at))

\* The route takes the time and checks the limit.
LoginChecks(s) ==
  /\ call[s] = Idle
  /\ checkLoginAllowed(now)
  /\ Goes(s, [phase |-> "checked", at |-> now])
  /\ UNCHANGED <<now, account, invites, made, live, attempts, crossed>>

\* login with an active account's password and a code of its secret for a
\* step beside `at' that is later than the last one used.
LoginSucceeds(s) ==
  /\ At(s, "checked")
  /\ account.status = "active"
  /\ \E step \in {call[s].at - 1, call[s].at, call[s].at + 1} :
       /\ step > account.lastStep
       /\ account' = [account EXCEPT !.lastStep = step]
       /\ live' = {x \in live : x.expires >= call[s].at}
                    \cup {[step |-> step, expires |-> call[s].at + SessionTtl]}
  /\ crossed' = (crossed \/ \E t \in Sessions : At(t, "inviting"))
  /\ Goes(s, [phase |-> "in", at |-> call[s].at])
  /\ UNCHANGED <<now, invites, made, attempts>>

\* login throws: wrong credentials, or no active account.
LoginFails(s) ==
  /\ At(s, "checked")
  /\ Goes(s, [phase |-> "refused", at |-> call[s].at])
  /\ UNCHANGED <<now, account, invites, made, live, attempts, crossed>>

clearLoginFailures(s) ==
  /\ At(s, "in")
  /\ attempts' = [count |-> 0, start |-> 0]
  /\ Returns(s)
  /\ UNCHANGED <<now, account, invites, made, live, crossed>>

recordLoginFailure(s) ==
  /\ At(s, "refused")
  /\ attempts' = IF attempts.count > 0 /\ Counts(call[s].at)
                   THEN [attempts EXCEPT !.count = @ + 1]
                   ELSE [count |-> 1, start |-> call[s].at]
  /\ Returns(s)
  /\ UNCHANGED <<now, account, invites, made, live, crossed>>

\* The count could not be written: the answer is the same.
NotRecorded(s) ==
  /\ At(s, "in") \/ At(s, "refused")
  /\ Returns(s)
  /\ UNCHANGED <<now, account, invites, made, live, attempts, crossed>>

logout ==
  /\ \E x \in live : live' = live \ {x}
  /\ UNCHANGED <<now, account, invites, made, attempts, call, crossed>>

Tick ==
  /\ now < LastStep
  /\ now' = now + 1
  /\ UNCHANGED <<account, invites, made, live, attempts, call, crossed>>

Next ==
  \/ \E s \in Sessions :
       \/ InviteDeletes(s) \/ InviteCommits(s)
       \/ AcceptFinds(s) \/ AcceptCommits(s) \/ AcceptThrows(s)
       \/ LoginChecks(s) \/ LoginSucceeds(s) \/ LoginFails(s)
       \/ clearLoginFailures(s) \/ recordLoginFailure(s) \/ NotRecorded(s)
  \/ logout
  \/ Tick

Spec == Init /\ [][Next]_vars

-----------------------------------------------------------------------------
(* Properties.                                                             *)

\* A new invite locks the account until that very invite is accepted: though
\* an older one was being accepted or a login was under way, one invite at
\* most is outstanding, none while the account is active, and while it waits
\* there is no session.  (Unless the invite was made while another was, or a
\* login committed in the middle of it.)
ResetHolds ==
  ~crossed =>
    LET sent == {i \in InviteIds : invites[i].state = "sent"}
    IN  /\ Cardinality(sent) <= 1
        /\ account.status = "active" =>
             /\ sent = {}
             /\ account.secret # 0 => invites[account.secret].state = "used"
        /\ account.status = "invited" => live = {}

\* Requests that pass the check together may all fail after it; beyond those,
\* no failure is counted to an account that has used up its limit.
LimitHolds == attempts.count <= MaxFailures - 1 + Cardinality(Sessions)

=============================================================================
