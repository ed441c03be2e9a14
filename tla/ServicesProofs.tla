--------------------------- MODULE ServicesProofs ---------------------------
(***************************************************************************)
(* Theorems about reminders, accounts, bank feeds and the exchange of      *)
(* e-invoices, for all their limits, dates, documents and sessions.        *)
(***************************************************************************)
EXTENDS Services, SumTheorems, TLAPS

-----------------------------------------------------------------------------
(***************************************************************************)
(* Each step is one of a service, and leaves the others alone.             *)
(***************************************************************************)
LEMMA StepsApart ==
  ASSUME [Next]_vars
  PROVE  /\ [Reminders!Next]_remindersVars /\ [Logins!Next]_loginsVars
         /\ [Feed!Next]_feedVars /\ [Sending!Next]_sendingVars
         /\ [Receiving!Next]_receivingVars
BY DEF Next, vars, remindersVars, loginsVars, feedVars, sendingVars, receivingVars

-----------------------------------------------------------------------------
(***************************************************************************)
(* Accounts.                                                               *)
(***************************************************************************)
Requests ==
  [phase : {"inviting", "accepting"}, invite : 1..MaxInvites, at : Nat]
  \cup [phase : {"checked", "in", "refused"}, at : Nat]

LoginTypes ==
  /\ now \in Nat
  /\ account \in [status : {"active", "invited"}, secret : 0..MaxInvites, lastStep : Int]
  /\ invites \in [1..MaxInvites -> [state : {"none", "sent", "used", "deleted"}, expires : Int]]
  /\ made \in 0..MaxInvites
  /\ attempts \in [count : Nat, start : Int]
  /\ call \in [Sessions -> Requests \cup {Nothing}]
  /\ crossed \in BOOLEAN

LEMMA LoginsTyped == LoginTypes /\ [Logins!Next]_loginsVars => LoginTypes'
<1> SUFFICES ASSUME LoginTypes, [Logins!Next]_loginsVars PROVE LoginTypes'
  OBVIOUS
<1> USE DEF LoginTypes, Requests
<1>1. ASSUME NEW s \in Sessions, Logins!InviteDeletes(s) PROVE LoginTypes'
  <2>1. made + 1 \in 1..MaxInvites /\ made' = made + 1
    BY <1>1, LoginsAssumption DEF Logins!InviteDeletes
  <2>2. [phase |-> "inviting", invite |-> made + 1, at |-> now] \in Requests
    BY <2>1
  <2>3. call' \in [Sessions -> Requests \cup {Nothing}]
    BY <1>1, <2>2 DEF Logins!InviteDeletes, Logins!Goes
  <2>4. invites' \in [1..MaxInvites -> [state : {"none", "sent", "used", "deleted"},
                                       expires : Int]]
    BY <1>1 DEF Logins!InviteDeletes, Logins!InviteIds
  <2>5. crossed' \in BOOLEAN
    BY <1>1 DEF Logins!InviteDeletes
  <2>6. UNCHANGED <<now, account, attempts>>
    BY <1>1 DEF Logins!InviteDeletes
  <2>7. QED
    BY <2>1, <2>3, <2>4, <2>5, <2>6
<1>2. ASSUME NEW s \in Sessions, Logins!InviteCommits(s) PROVE LoginTypes'
  <2>1. call[s].invite \in 1..MaxInvites /\ call[s].invite \in 0..MaxInvites
          /\ call[s].at \in Nat
    <3>1. call[s] \in Requests /\ call[s].phase = "inviting"
      BY <1>2 DEF Logins!InviteCommits, Logins!At
    <3>2. QED
      BY <3>1
  <2>2. [state |-> "sent", expires |-> call[s].at + InviteTtl]
          \in [state : {"none", "sent", "used", "deleted"}, expires : Int]
    BY <2>1, LoginsAssumption
  <2>3. invites' \in [1..MaxInvites -> [state : {"none", "sent", "used", "deleted"},
                                       expires : Int]]
    BY <1>2, <2>1, <2>2 DEF Logins!InviteCommits
  <2>4. account' \in [status : {"active", "invited"}, secret : 0..MaxInvites, lastStep : Int]
    BY <1>2, <2>1 DEF Logins!InviteCommits
  <2>5. call' \in [Sessions -> Requests \cup {Nothing}]
    BY <1>2 DEF Logins!InviteCommits, Logins!Returns
  <2>6. UNCHANGED <<now, made, attempts, crossed>>
    BY <1>2 DEF Logins!InviteCommits
  <2>7. QED
    BY <2>3, <2>4, <2>5, <2>6
<1>3. ASSUME NEW s \in Sessions, Logins!AcceptFinds(s) PROVE LoginTypes'
  BY <1>3 DEF Logins!AcceptFinds, Logins!Goes, Logins!InviteIds
<1>4. ASSUME NEW s \in Sessions, Logins!AcceptCommits(s) PROVE LoginTypes'
  BY <1>4 DEF Logins!AcceptCommits, Logins!Activates, Logins!Returns, Logins!At
<1>5. ASSUME NEW s \in Sessions, Logins!AcceptThrows(s) PROVE LoginTypes'
  BY <1>5 DEF Logins!AcceptThrows, Logins!Returns
<1>6. ASSUME NEW s \in Sessions, Logins!LoginChecks(s) PROVE LoginTypes'
  BY <1>6 DEF Logins!LoginChecks, Logins!Goes
<1>7. ASSUME NEW s \in Sessions, Logins!LoginSucceeds(s) PROVE LoginTypes'
  BY <1>7 DEF Logins!LoginSucceeds, Logins!Goes, Logins!At
<1>8. ASSUME NEW s \in Sessions, Logins!LoginFails(s) PROVE LoginTypes'
  BY <1>8 DEF Logins!LoginFails, Logins!Goes, Logins!At
<1>9. ASSUME NEW s \in Sessions, Logins!clearLoginFailures(s) PROVE LoginTypes'
  BY <1>9 DEF Logins!clearLoginFailures, Logins!Returns
<1>10. ASSUME NEW s \in Sessions, Logins!recordLoginFailure(s) PROVE LoginTypes'
  BY <1>10 DEF Logins!recordLoginFailure, Logins!Returns, Logins!At
<1>11. ASSUME NEW s \in Sessions, Logins!NotRecorded(s) PROVE LoginTypes'
  BY <1>11 DEF Logins!NotRecorded, Logins!Returns
<1>12. CASE Logins!logout
  BY <1>12 DEF Logins!logout
<1>13. CASE Logins!Tick
  BY <1>13 DEF Logins!Tick
<1>14. CASE UNCHANGED loginsVars
  BY <1>14 DEF loginsVars
<1>15. QED
  BY <1>1, <1>2, <1>3, <1>4, <1>5, <1>6, <1>7, <1>8, <1>9, <1>10, <1>11, <1>12, <1>13,
     <1>14 DEF Logins!Next

(***************************************************************************)
(* Those that may still count a failure in the window: they have passed    *)
(* the check and not been counted.  A failure moves one of them into the   *)
(* count; a window that ends sets it back.                                 *)
(***************************************************************************)
MayCount ==
  {s \in Sessions : /\ call[s] # Nothing /\ call[s].phase \in {"checked", "refused"}
                    /\ attempts.start > call[s].at - Window}

WithinLimit == attempts.count + Cardinality(MayCount) <= MaxFailures - 1 + Cardinality(Sessions)

LEMMA SomeSessions ==
  ASSUME NEW K \in SUBSET Sessions
  PROVE  /\ Cardinality(K) \in Nat /\ Cardinality(Sessions) \in Nat
         /\ Cardinality(K) <= Cardinality(Sessions)
         /\ \A s \in Sessions \ K : Cardinality(K) <= Cardinality(Sessions) - 1
         /\ \A L \in SUBSET K : Cardinality(L) \in Nat /\ Cardinality(L) <= Cardinality(K)
         /\ \A s \in K : Cardinality(K \ {s}) = Cardinality(K) - 1
<1>1. IsFiniteSet(Sessions) /\ IsFiniteSet(K)
  BY LoginsAssumption, FS_Subset
<1>2. Cardinality(K) \in Nat /\ Cardinality(Sessions) \in Nat
  BY <1>1, FS_CardinalityType
<1>3. \A L \in SUBSET K : Cardinality(L) \in Nat /\ Cardinality(L) <= Cardinality(K)
  BY <1>1, FS_Subset, FS_CardinalityType
<1>4. \A s \in K : Cardinality(K \ {s}) = Cardinality(K) - 1
  BY <1>1, FS_RemoveElement
<1>5. Cardinality(K) <= Cardinality(Sessions)
  BY <1>1, FS_Subset
<1>6. ASSUME NEW s \in Sessions \ K PROVE Cardinality(K) <= Cardinality(Sessions) - 1
  <2>1. Cardinality(Sessions \ {s}) = Cardinality(Sessions) - 1 /\ IsFiniteSet(Sessions \ {s})
    BY <1>1, FS_RemoveElement
  <2>2. K \subseteq Sessions \ {s}
    BY <1>6
  <2>3. QED
    BY <2>1, <2>2, FS_Subset
<1>7. QED
  BY <1>2, <1>3, <1>4, <1>5, <1>6

LEMMA LimitKept ==
  LoginTypes /\ LoginTypes' /\ WithinLimit /\ [Logins!Next]_loginsVars => WithinLimit'
<1> SUFFICES ASSUME LoginTypes, LoginTypes', WithinLimit, [Logins!Next]_loginsVars
             PROVE  WithinLimit'
  OBVIOUS
<1> DEFINE K == MayCount
           L == MayCount'
           N == Cardinality(Sessions)
<1>1. K \in SUBSET Sessions /\ L \in SUBSET Sessions
  BY DEF MayCount
<1>2. Cardinality(K) \in Nat /\ Cardinality(L) \in Nat /\ N \in Nat /\ Cardinality(L) <= N
  <2> HIDE DEF K, L
  <2>1. QED
    BY <1>1, SomeSessions
<1>3. /\ attempts.count \in Nat /\ attempts.start \in Int /\ attempts'.count \in Nat
      /\ attempts'.start \in Int /\ MaxFailures \in Nat \ {0} /\ Window \in Nat /\ now \in Nat
  BY LoginsAssumption DEF LoginTypes
<1>4. attempts.count + Cardinality(K) <= MaxFailures - 1 + N
  BY DEF WithinLimit
<1>5. SUFFICES attempts'.count + Cardinality(L) <= MaxFailures - 1 + N
  BY DEF WithinLimit
<1>6. ASSUME attempts' = attempts, L \subseteq K
      PROVE  attempts'.count + Cardinality(L) <= MaxFailures - 1 + N
  <2>1. Cardinality(L) <= Cardinality(K)
    <3> HIDE DEF K, L
    <3>1. QED
      BY <1>1, <1>6, SomeSessions
  <2> HIDE DEF K, L, N
  <2>2. QED
    BY <1>2, <1>3, <1>4, <1>6, <2>1
<1>7. ASSUME NEW s \in Sessions, NEW d,
             attempts' = attempts, Logins!Goes(s, d) \/ Logins!Returns(s),
             Logins!Goes(s, d) =>
               \/ d.phase \notin {"checked", "refused"}
               \/ Logins!At(s, "checked") /\ d.at = call[s].at
      PROVE  L \subseteq K
  <2>1. call' \in [Sessions -> Requests \cup {Nothing}] /\ call \in [Sessions -> Requests \cup {Nothing}]
    BY DEF LoginTypes
  <2>2. \A t \in Sessions \ {s} : call'[t] = call[t]
    BY <1>7, <2>1 DEF Logins!Goes, Logins!Returns
  <2>3. call'[s] = d \/ call'[s] = Nothing
    BY <1>7, <2>1 DEF Logins!Goes, Logins!Returns
  <2>4. ASSUME call'[s] # Nothing, call'[s].phase \in {"checked", "refused"}
        PROVE  Logins!At(s, "checked") /\ call'[s].at = call[s].at
    BY <1>7, <2>1, <2>3, <2>4 DEF Logins!Goes, Logins!Returns
  <2>5. QED
    BY <1>7, <2>2, <2>4 DEF MayCount, Logins!At
<1>8. ASSUME NEW s \in Sessions, Logins!InviteDeletes(s) \/ Logins!InviteCommits(s)
                                  \/ Logins!AcceptFinds(s) \/ Logins!AcceptCommits(s)
                                  \/ Logins!AcceptThrows(s) \/ Logins!LoginSucceeds(s)
                                  \/ Logins!LoginFails(s) \/ Logins!NotRecorded(s)
      PROVE  attempts' = attempts /\ L \subseteq K
  <2>1. attempts' = attempts
    BY <1>8 DEF Logins!InviteDeletes, Logins!InviteCommits, Logins!AcceptFinds,
      Logins!AcceptCommits, Logins!Activates, Logins!AcceptThrows, Logins!LoginSucceeds,
      Logins!LoginFails, Logins!NotRecorded
  <2>2. \E d : /\ Logins!Goes(s, d) \/ Logins!Returns(s)
               /\ Logins!Goes(s, d) =>
                    \/ d.phase \notin {"checked", "refused"}
                    \/ Logins!At(s, "checked") /\ d.at = call[s].at
    <3>1. CASE Logins!InviteDeletes(s)
      <4>1. Logins!Goes(s, [phase |-> "inviting", invite |-> made + 1, at |-> now])
        BY <3>1 DEF Logins!InviteDeletes
      <4>2. QED
        BY <4>1
    <3>2. CASE Logins!AcceptFinds(s)
      <4>1. PICK i : Logins!Goes(s, [phase |-> "accepting", invite |-> i, at |-> now])
        BY <3>2 DEF Logins!AcceptFinds
      <4>2. QED
        BY <4>1
    <3>3. CASE Logins!LoginSucceeds(s)
      <4>1. Logins!Goes(s, [phase |-> "in", at |-> call[s].at])
        BY <3>3 DEF Logins!LoginSucceeds
      <4>2. QED
        BY <4>1
    <3>4. CASE Logins!LoginFails(s)
      <4>1. Logins!Goes(s, [phase |-> "refused", at |-> call[s].at]) /\ Logins!At(s, "checked")
        BY <3>4 DEF Logins!LoginFails
      <4>2. QED
        BY <4>1
    <3>5. CASE Logins!InviteCommits(s) \/ Logins!AcceptCommits(s) \/ Logins!AcceptThrows(s)
                 \/ Logins!NotRecorded(s)
      <4>1. Logins!Returns(s)
        BY <3>5 DEF Logins!InviteCommits, Logins!AcceptCommits, Logins!Activates,
          Logins!AcceptThrows, Logins!NotRecorded
      <4> DEFINE d == [phase |-> "in"]
      <4>2. d.phase \notin {"checked", "refused"}
        OBVIOUS
      <4> HIDE DEF d
      <4>3. QED
        BY <4>1, <4>2
    <3>6. QED
      BY <1>8, <3>1, <3>2, <3>3, <3>4, <3>5
  <2>3. QED
    <3> HIDE DEF K, L
    <3>1. QED
      BY <1>7, <2>1, <2>2
<1>9. ASSUME NEW s \in Sessions, Logins!LoginChecks(s)
      PROVE  attempts'.count + Cardinality(L) <= MaxFailures - 1 + N
  <2>1. attempts' = attempts /\ (attempts.count >= MaxFailures => ~(attempts.start > now - Window))
    BY <1>9 DEF Logins!LoginChecks, Logins!checkLoginAllowed, Logins!Counts
  <2>2. CASE attempts.start > now - Window
    <3> HIDE DEF K, L, N
    <3>1. QED
      BY <1>2, <1>3, <2>1, <2>2
  <2>3. CASE ~(attempts.start > now - Window)
    <3>1. call' = [call EXCEPT ![s] = [phase |-> "checked", at |-> now]]
      BY <1>9 DEF Logins!LoginChecks, Logins!Goes
    <3>2. L \subseteq K
      BY <2>1, <2>3, <3>1 DEF MayCount, LoginTypes
    <3>3. QED
      <4> HIDE DEF K, L, N
      <4>1. QED
        BY <1>6, <2>1, <3>2
  <2>4. QED
    BY <2>2, <2>3
<1>10. ASSUME NEW s \in Sessions, Logins!clearLoginFailures(s)
       PROVE  attempts'.count + Cardinality(L) <= MaxFailures - 1 + N
  <2>1. attempts'.count = 0
    BY <1>10 DEF Logins!clearLoginFailures
  <2> HIDE DEF K, L, N
  <2>2. QED
    BY <1>2, <1>3, <2>1
<1>11. ASSUME NEW s \in Sessions, Logins!recordLoginFailure(s)
       PROVE  attempts'.count + Cardinality(L) <= MaxFailures - 1 + N
  <2>1. call' = [call EXCEPT ![s] = Nothing] /\ call[s] # Nothing /\ call[s].phase = "refused"
    BY <1>11 DEF Logins!recordLoginFailure, Logins!Returns, Logins!At
  <2>2. s \notin L
    BY <2>1 DEF MayCount, LoginTypes
  <2>3. CASE attempts.count > 0 /\ Logins!Counts(call[s].at)
    <3>1. attempts'.count = attempts.count + 1 /\ attempts'.start = attempts.start
      BY <1>11, <2>3 DEF Logins!recordLoginFailure, LoginTypes
    <3>2. s \in K /\ L \subseteq K \ {s}
      BY <2>1, <2>3, <3>1 DEF MayCount, LoginTypes, Logins!Counts
    <3>3. Cardinality(L) <= Cardinality(K) - 1
      <4> HIDE DEF K, L
      <4>1. K \ {s} \in SUBSET Sessions /\ Cardinality(K \ {s}) = Cardinality(K) - 1
        BY <1>1, <3>2, SomeSessions
      <4>2. QED
        BY <3>2, <4>1, SomeSessions
    <3> HIDE DEF K, L, N
    <3>4. QED
      BY <1>2, <1>3, <1>4, <3>1, <3>3
  <2>4. CASE ~(attempts.count > 0 /\ Logins!Counts(call[s].at))
    <3>1. attempts'.count = 1
      BY <1>11, <2>4 DEF Logins!recordLoginFailure
    <3>2. Cardinality(L) <= N - 1
      <4> HIDE DEF K, L
      <4>1. QED
        BY <1>1, <2>2, SomeSessions
    <3> HIDE DEF K, L, N
    <3>3. QED
      BY <1>2, <1>3, <3>1, <3>2
  <2>5. QED
    BY <2>3, <2>4
<1>12. ASSUME UNCHANGED <<attempts, call>> PROVE attempts' = attempts /\ L \subseteq K
  BY <1>12 DEF MayCount
<1>13. Logins!logout \/ Logins!Tick \/ UNCHANGED loginsVars => UNCHANGED <<attempts, call>>
  BY DEF Logins!logout, Logins!Tick, loginsVars
<1> HIDE DEF K, L, N
<1>14. QED
  BY <1>6, <1>8, <1>9, <1>10, <1>11, <1>12, <1>13 DEF Logins!Next

(***************************************************************************)
(* Unless a reset was crossed: the one invite outstanding is that of the   *)
(* account's secret, and a reset begun finds nothing that could outlive it.*)
(***************************************************************************)
Inviting == \E s \in Sessions : Logins!At(s, "inviting")

ResetOrder ==
  ~crossed =>
    /\ \A s, t \in Sessions : Logins!At(s, "inviting") /\ Logins!At(t, "inviting") => s = t
    /\ \A i \in 1..MaxInvites : invites[i].state = "sent" =>
         i = account.secret /\ account.status = "invited" /\ ~Inviting
    /\ account.status = "active" /\ account.secret # 0 =>
         invites[account.secret].state = "used"
    /\ account.status = "invited" \/ Inviting => live = {}

LEMMA ResetKept ==
  LoginTypes /\ ResetOrder /\ [Logins!Next]_loginsVars => ResetOrder'
<1> SUFFICES ASSUME LoginTypes, ResetOrder, [Logins!Next]_loginsVars, ~crossed'
             PROVE  ResetOrder'
  BY DEF ResetOrder
<1> DEFINE Ids == 1..MaxInvites
<1>1. /\ call \in [Sessions -> Requests \cup {Nothing}]
      /\ invites \in [Ids -> [state : {"none", "sent", "used", "deleted"}, expires : Int]]
      /\ account \in [status : {"active", "invited"}, secret : 0..MaxInvites, lastStep : Int]
      /\ account.secret \in 0..MaxInvites /\ MaxInvites \in Nat
      /\ account.secret # 0 => account.secret \in Ids
  BY LoginsAssumption DEF LoginTypes
<1>2. ~crossed
  BY DEF Logins!Next, Logins!InviteDeletes, Logins!InviteCommits, Logins!AcceptFinds,
    Logins!AcceptCommits, Logins!Activates, Logins!AcceptThrows, Logins!LoginChecks,
    Logins!LoginSucceeds, Logins!LoginFails, Logins!clearLoginFailures,
    Logins!recordLoginFailure, Logins!NotRecorded, Logins!logout, Logins!Tick, loginsVars
<1> DEFINE At(s) == call[s] # Nothing /\ call[s].phase = "inviting"
           Sent(i) == invites[i].state = "sent"
<1>3. /\ \A s, t \in Sessions : At(s) /\ At(t) => s = t
      /\ \A i \in Ids : Sent(i) =>
           i = account.secret /\ account.status = "invited" /\ \A s \in Sessions : ~At(s)
      /\ account.status = "active" /\ account.secret # 0 =>
           invites[account.secret].state = "used"
      /\ account.status = "invited" => live = {}
      /\ \A s \in Sessions : At(s) => live = {}
  BY <1>2 DEF ResetOrder, Inviting, Logins!At
<1>4. SUFFICES
        /\ \A s, t \in Sessions : At(s)' /\ At(t)' => s = t
        /\ \A i \in Ids : Sent(i)' =>
             i = account'.secret /\ account'.status = "invited" /\ \A s \in Sessions : ~At(s)'
        /\ account'.status = "active" /\ account'.secret # 0 =>
             invites'[account'.secret].state = "used"
        /\ account'.status = "invited" => live' = {}
        /\ \A s \in Sessions : At(s)' => live' = {}
  BY DEF ResetOrder, Inviting, Logins!At
<1>5. ASSUME NEW s \in Sessions,
             Logins!Returns(s) \/ \E d : Logins!Goes(s, d) /\ d.phase # "inviting"
      PROVE  \A t \in Sessions : At(t)' => At(t) /\ t # s
  BY <1>1, <1>5 DEF Logins!Returns, Logins!Goes
<1>6. CASE /\ \A t \in Sessions : At(t)' => At(t)
           /\ UNCHANGED <<account, invites>> /\ live' \subseteq live
  BY <1>3, <1>6
<1>7. ASSUME NEW s \in Sessions, Logins!InviteDeletes(s)
      PROVE  /\ \A t, u \in Sessions : At(t)' /\ At(u)' => t = u
             /\ \A i \in Ids : ~Sent(i)'
             /\ account'.status = "active" /\ account'.secret # 0 =>
                  invites'[account'.secret].state = "used"
             /\ live' = {}
  <2>1. call' = [call EXCEPT ![s] = [phase |-> "inviting", invite |-> made + 1, at |-> now]]
    BY <1>7 DEF Logins!InviteDeletes, Logins!Goes
  <2>2. \A t \in Sessions : ~At(t)
    BY <1>7 DEF Logins!InviteDeletes, Logins!At
  <2>3. \A t \in Sessions \ {s} : call'[t] = call[t]
    BY <1>1, <2>1
  <2>4. \A t \in Sessions : At(t)' => t = s
    BY <2>2, <2>3
  <2>5. invites' = [i \in Ids |->
          IF invites[i].state = "sent" THEN [invites[i] EXCEPT !.state = "deleted"]
                                       ELSE invites[i]]
    BY <1>7 DEF Logins!InviteDeletes, Logins!InviteIds
  <2>6. account' = account /\ live' = {}
    BY <1>7 DEF Logins!InviteDeletes
  <2>7. \A i \in Ids : ~Sent(i)' /\ (~Sent(i) => invites'[i] = invites[i])
    BY <1>1, <2>5
  <2>8. QED
    BY <1>1, <1>3, <2>4, <2>6, <2>7
<1>8. ASSUME NEW s \in Sessions, Logins!InviteCommits(s)
      PROVE  /\ \A t \in Sessions : ~At(t)'
             /\ \A i \in Ids : Sent(i)' => i = account'.secret
             /\ account'.status = "invited"
             /\ live' = {}
  <2>1. At(s)
    BY <1>8 DEF Logins!InviteCommits, Logins!At
  <2>2. \A t \in Sessions : At(t)' => At(t) /\ t # s
    <3> HIDE DEF At
    <3>1. QED
      BY <1>8, <1>5 DEF Logins!InviteCommits
  <2>3. live' = live /\ live = {} /\ \A i \in Ids : ~Sent(i)
    BY <1>3, <1>8, <2>1 DEF Logins!InviteCommits
  <2>4. account'.status = "invited" /\ account'.secret = call[s].invite
    BY <1>1, <1>8 DEF Logins!InviteCommits
  <2>5. \A i \in Ids : i # call[s].invite => invites'[i] = invites[i]
    BY <1>1, <1>8 DEF Logins!InviteCommits
  <2>6. QED
    BY <1>3, <2>1, <2>2, <2>3, <2>4, <2>5
<1>9. ASSUME NEW s \in Sessions, Logins!AcceptCommits(s)
      PROVE  /\ \A t \in Sessions : ~At(t)'
             /\ \A i \in Ids : ~Sent(i)'
             /\ account'.status = "active"
             /\ account'.secret # 0 => invites'[account'.secret].state = "used"
  <2>1. At(s)' \/ ~At(s)'
    OBVIOUS
  <2>2. call[s] \in Requests /\ call[s].phase = "accepting"
    BY <1>1, <1>9 DEF Logins!AcceptCommits, Logins!At
  <2>3. call[s].invite \in Ids
    BY <2>2 DEF Requests
  <2>4. Sent(call[s].invite)
    BY <1>9 DEF Logins!AcceptCommits
  <2>5. call[s].invite = account.secret /\ \A t \in Sessions : ~At(t)
    BY <1>3, <2>3, <2>4
  <2>6. \A t \in Sessions : At(t)' => At(t)
    <3> HIDE DEF At
    <3>1. Logins!Returns(s)
      BY <1>9 DEF Logins!AcceptCommits, Logins!Activates
    <3>2. QED
      BY <3>1, <1>5
  <2>7. /\ invites'[call[s].invite].state = "used"
        /\ \A i \in Ids : i # call[s].invite => invites'[i] = invites[i]
    BY <1>1, <1>9, <2>3 DEF Logins!AcceptCommits, Logins!Activates
  <2>8. account'.status = "active" /\ account'.secret = account.secret
    BY <1>1, <1>9 DEF Logins!AcceptCommits, Logins!Activates
  <2>9. QED
    BY <1>3, <2>5, <2>6, <2>7, <2>8
<1>10. ASSUME NEW s \in Sessions, Logins!LoginSucceeds(s)
       PROVE  /\ \A t \in Sessions : ~At(t)'
              /\ account'.status = "active" /\ account'.secret = account.secret
              /\ account.status = "active" /\ invites' = invites
  <2>1. Logins!Goes(s, [phase |-> "in", at |-> call[s].at]) /\ \A t \in Sessions : ~At(t)
    BY <1>10 DEF Logins!LoginSucceeds, Logins!At
  <2>2. \A t \in Sessions : At(t)' => At(t)
    <3> HIDE DEF At
    <3>1. QED
      BY <1>5, <2>1
  <2>3. /\ account.status = "active" /\ invites' = invites
        /\ \E step : account' = [account EXCEPT !.lastStep = step]
    BY <1>10 DEF Logins!LoginSucceeds
  <2>4. account'.status = "active" /\ account'.secret = account.secret
    BY <1>1, <2>3
  <2>5. QED
    BY <2>1, <2>2, <2>3, <2>4
<1>11. ASSUME NEW s \in Sessions, Logins!AcceptFinds(s) \/ Logins!AcceptThrows(s)
                  \/ Logins!LoginChecks(s) \/ Logins!LoginFails(s)
                  \/ Logins!clearLoginFailures(s) \/ Logins!recordLoginFailure(s)
                  \/ Logins!NotRecorded(s)
       PROVE  /\ \A t \in Sessions : At(t)' => At(t)
              /\ UNCHANGED <<account, invites>> /\ live' \subseteq live
  <2>1. UNCHANGED <<account, invites, live>>
    BY <1>11 DEF Logins!AcceptFinds, Logins!AcceptThrows, Logins!LoginChecks,
      Logins!LoginFails, Logins!clearLoginFailures, Logins!recordLoginFailure,
      Logins!NotRecorded
  <2>2. CASE Logins!AcceptFinds(s)
    <3>1. PICK i : Logins!Goes(s, [phase |-> "accepting", invite |-> i, at |-> now])
      BY <2>2 DEF Logins!AcceptFinds
    <3> HIDE DEF At
    <3>2. QED
      BY <1>5, <2>1, <3>1
  <2>3. CASE Logins!LoginChecks(s)
    <3>1. Logins!Goes(s, [phase |-> "checked", at |-> now])
      BY <2>3 DEF Logins!LoginChecks
    <3> HIDE DEF At
    <3>2. QED
      BY <1>5, <2>1, <3>1
  <2>4. CASE Logins!LoginFails(s)
    <3>1. Logins!Goes(s, [phase |-> "refused", at |-> call[s].at])
      BY <2>4 DEF Logins!LoginFails
    <3> HIDE DEF At
    <3>2. QED
      BY <1>5, <2>1, <3>1
  <2>5. CASE Logins!AcceptThrows(s) \/ Logins!clearLoginFailures(s)
               \/ Logins!recordLoginFailure(s) \/ Logins!NotRecorded(s)
    <3>1. Logins!Returns(s)
      BY <2>5 DEF Logins!AcceptThrows, Logins!clearLoginFailures,
        Logins!recordLoginFailure, Logins!NotRecorded
    <3> HIDE DEF At
    <3>2. QED
      BY <1>5, <2>1, <3>1
  <2>6. QED
    BY <1>11, <2>2, <2>3, <2>4, <2>5
<1>12. Logins!logout \/ Logins!Tick \/ UNCHANGED loginsVars =>
         UNCHANGED <<account, invites, call>> /\ live' \subseteq live
  BY DEF Logins!logout, Logins!Tick, loginsVars
<1>13. UNCHANGED call => \A t \in Sessions : At(t)' => At(t)
  OBVIOUS
<1>14. CASE \E s \in Sessions : Logins!InviteDeletes(s)
  BY <1>7, <1>14
<1>15. CASE \E s \in Sessions : Logins!InviteCommits(s)
  BY <1>8, <1>15
<1>16. CASE \E s \in Sessions : Logins!AcceptCommits(s)
  BY <1>9, <1>16
<1>17. CASE \E s \in Sessions : Logins!LoginSucceeds(s)
  BY <1>3, <1>10, <1>17
<1> HIDE DEF At, Sent, Ids
<1>18. QED
  BY <1>6, <1>11, <1>12, <1>13, <1>14, <1>15, <1>16, <1>17 DEF Logins!Next

LoginsInv == LoginTypes /\ WithinLimit /\ ResetOrder

LEMMA LoginsInvariant == Spec => []LoginsInv
<1>1. Init => LoginsInv
  <2> SUFFICES ASSUME Logins!Init PROVE LoginsInv
    BY DEF Init
  <2>1. LoginTypes
    <3>1. 0 \in 0..MaxInvites /\ -1 \in Int
      BY LoginsAssumption
    <3>2. account \in [status : {"active", "invited"}, secret : 0..MaxInvites, lastStep : Int]
      BY <3>1 DEF Logins!Init
    <3>3. invites \in [1..MaxInvites -> [state : {"none", "sent", "used", "deleted"},
                                        expires : Int]]
      BY DEF Logins!Init, Logins!InviteIds
    <3>4. call \in [Sessions -> Requests \cup {Nothing}]
      BY DEF Logins!Init
    <3>5. attempts \in [count : Nat, start : Int]
      BY DEF Logins!Init
    <3>6. QED
      BY <3>1, <3>2, <3>3, <3>4, <3>5 DEF Logins!Init, LoginTypes
  <2>2. WithinLimit
    <3>1. MayCount = {} /\ attempts.count = 0
      BY DEF MayCount, Logins!Init
    <3>2. Cardinality(MayCount) = 0 /\ Cardinality(Sessions) \in Nat
      BY <3>1, FS_EmptySet, LoginsAssumption, FS_CardinalityType
    <3>3. QED
      BY <3>1, <3>2, LoginsAssumption DEF WithinLimit
  <2>3. ResetOrder
    <3>1. \A i \in 1..MaxInvites : invites[i].state = "none"
      BY DEF Logins!Init, Logins!InviteIds
    <3>2. QED
      BY <3>1 DEF Logins!Init, ResetOrder, Inviting, Logins!At
  <2>4. QED
    BY <2>1, <2>2, <2>3 DEF LoginsInv
<1>2. LoginsInv /\ [Next]_vars => LoginsInv'
  BY StepsApart, LoginsTyped, LimitKept, ResetKept DEF LoginsInv
<1>3. QED
  BY <1>1, <1>2, PTL DEF Spec

\* Accounts counts as this module does.
LEMMA LoginsCount == \A S : Logins!Cardinality(S) = Cardinality(S)
BY DEF Logins!Cardinality, Cardinality

(* A reset holds (Accounts): createInvite, acceptInvite and login may       *)
(* overlap as they will, for any number of sessions, invites and expiries. *)
THEOREM ResetIsKept == Spec => []ResetHolds
<1>1. LoginsInv => ResetHolds
  <2> SUFFICES ASSUME LoginTypes, ResetOrder, ~crossed PROVE ResetHolds
    BY DEF LoginsInv, ResetHolds, Logins!ResetHolds
  <2> DEFINE sent == {i \in Logins!InviteIds : invites[i].state = "sent"}
  <2>1. sent = {} \/ sent = {account.secret}
    BY DEF ResetOrder, Logins!InviteIds
  <2>2. Cardinality(sent) <= 1
    <3> HIDE DEF sent
    <3>1. Cardinality({account.secret}) = 1 /\ Cardinality({}) = 0
      BY FS_Singleton, FS_EmptySet
    <3>2. QED
      BY <2>1, <3>1
  <2>3. account.status = "active" => sent = {}
    BY DEF ResetOrder, Logins!InviteIds
  <2>4. /\ account.status = "active" /\ account.secret # 0 =>
             invites[account.secret].state = "used"
        /\ account.status = "invited" => live = {}
    BY DEF ResetOrder
  <2>5. ResetHolds <=>
          (~crossed =>
             /\ Cardinality(sent) <= 1
             /\ account.status = "active" =>
                  /\ sent = {}
                  /\ account.secret # 0 => invites[account.secret].state = "used"
             /\ account.status = "invited" => live = {})
    BY LoginsCount DEF ResetHolds, Logins!ResetHolds
  <2> HIDE DEF sent
  <2>6. QED
    BY <2>2, <2>3, <2>4, <2>5
<1>2. QED
  BY <1>1, LoginsInvariant, PTL

(* The limit holds (checkLoginAllowed, recordLoginFailure): for any number *)
(* of requests at once, any limit and any window.                          *)
THEOREM LimitIsKept == Spec => []LimitHolds
<1>1. LoginsInv => LimitHolds
  <2> SUFFICES ASSUME LoginTypes, WithinLimit PROVE LimitHolds
    BY DEF LoginsInv
  <2>1. MayCount \in SUBSET Sessions
    BY DEF MayCount
  <2>2. Cardinality(MayCount) \in Nat /\ Cardinality(Sessions) \in Nat
    BY <2>1, SomeSessions
  <2>3. attempts.count \in Nat /\ MaxFailures \in Nat
    BY LoginsAssumption DEF LoginTypes
  <2>4. attempts.count <= MaxFailures - 1 + Cardinality(Sessions)
    BY <2>2, <2>3 DEF WithinLimit
  <2>5. QED
    BY <2>4, LoginsCount DEF LimitHolds, Logins!LimitHolds
<1>2. QED
  BY <1>1, LoginsInvariant, PTL

-----------------------------------------------------------------------------
(***************************************************************************)
(* Bank feeds.                                                             *)
(***************************************************************************)
Fed == [seen : SUBSET Txns, since : Int]

Syncs ==
  [by : Sessions, today : Int, todo : SUBSET FeedAccounts, cursor : [FeedAccounts -> Int],
   imported : SUBSET Txns, fed : [FeedAccounts -> Fed]]

FeedTypes ==
  /\ day \in Int /\ visible \in SUBSET Txns
  /\ cursor \in [FeedAccounts -> Int] /\ imported \in SUBSET Txns
  /\ asked \in [Sessions -> Int]
  /\ fed \in [FeedAccounts -> Fed]
  /\ sync \in Syncs \cup {Nothing}

(***************************************************************************)
(* What an account's cursor stands for, in the tables or in an open sync.  *)
(* What was booked before the window of the next fetch is imported already:*)
(* it had appeared by the date the last one took, since the overlap is as  *)
(* long as the bank may take.                                              *)
(***************************************************************************)
Stands(a, cur, f, imp, d, vis) ==
  /\ -1 <= cur /\ cur <= d
  /\ cur <= 0 => f.since = 0 /\ f.seen = {}
  /\ cur > 0 => f.since > 0
  /\ \A t \in f.seen : BookedOn[t] >= f.since => t \in imp
  /\ \A t \in vis : AccountOf[t] = a /\ cur > 0 /\ f.since <= BookedOn[t]
                      /\ BookedOn[t] < cur - Overlap => t \in imp

FeedWindows ==
  /\ day > FirstDays
  /\ \A s \in Sessions : asked[s] > 0 => asked[s] > FirstDays /\ asked[s] <= day
  /\ \A a \in FeedAccounts : Stands(a, cursor[a], fed[a], imported, day, visible)
  /\ sync # Nothing =>
       /\ sync.today > FirstDays /\ sync.today <= day
       /\ \A a \in FeedAccounts :
            Stands(a, sync.cursor[a], sync.fed[a], sync.imported, day, visible)
       /\ \A a \in sync.todo : sync.cursor[a] >= 0

FeedInv == FeedTypes /\ FeedWindows

\* A fetch on a later date than the last: the window it asks for joins on.
LEMMA FetchStands ==
  ASSUME NEW a, NEW cur \in Int, NEW f \in Fed, NEW imp \in SUBSET Txns, NEW d \in Int,
         NEW vis \in SUBSET Txns, Stands(a, cur, f, imp, d, vis), cur >= 0,
         NEW now0 \in Int, now0 > FirstDays, now0 <= d, NEW from, NEW seen,
         from = IF cur = 0 THEN now0 - FirstDays ELSE cur - Overlap,
         seen = {t \in vis : AccountOf[t] = a}
  PROVE  Stands(a, now0, [seen |-> seen, since |-> IF f.since = 0 THEN from ELSE f.since],
                imp \cup {t \in seen : BookedOn[t] >= from}, d, vis)
<1> DEFINE since == IF f.since = 0 THEN from ELSE f.since
           g == [seen |-> seen, since |-> since]
           imp2 == imp \cup {t \in seen : BookedOn[t] >= from}
<1>1. f.since \in Int /\ from \in Int /\ Overlap \in Nat /\ FirstDays \in Nat
  BY FeedAssumption DEF Fed
<1>2. since \in Int /\ since > 0
  <2>1. CASE cur = 0
    BY <1>1, <2>1 DEF Stands
  <2>2. CASE cur > 0
    BY <1>1, <2>2 DEF Stands
  <2>3. QED
    BY <2>1, <2>2
<1>3. ASSUME NEW t \in seen, BookedOn[t] >= since PROVE t \in imp2
  <2>1. t \in vis /\ AccountOf[t] = a /\ BookedOn[t] \in Int
    BY FeedAssumption
  <2>2. CASE BookedOn[t] >= from
    BY <2>2
  <2>3. CASE BookedOn[t] < from
    <3>1. CASE cur = 0
      BY <1>1, <1>3, <2>1, <2>3, <3>1 DEF Stands
    <3>2. CASE cur > 0
      <4>1. since = f.since
        BY <1>1, <3>2 DEF Stands
      <4>2. QED
        BY <1>1, <1>3, <2>1, <2>3, <3>2, <4>1 DEF Stands
    <3>3. QED
      BY <3>1, <3>2
  <2>4. QED
    BY <1>1, <2>1, <2>2, <2>3
<1>4. \A t \in vis : AccountOf[t] = a => t \in seen
  OBVIOUS
<1>5. now0 > 0
  BY <1>1
<1>6. g.seen = seen /\ g.since = since
  OBVIOUS
<1> HIDE DEF g, imp2, since
<1>7. Stands(a, now0, g, imp2, d, vis)
  BY <1>2, <1>3, <1>4, <1>5, <1>6, <1>1, FeedAssumption DEF Stands
<1>8. QED
  BY <1>7 DEF g, imp2, since

\* More imports, and a later day, make no difference.
LEMMA StandsStill ==
  ASSUME NEW a, NEW cur \in Int, NEW f, NEW imp, NEW imp2, NEW d \in Int, NEW d2 \in Int,
         NEW vis, Stands(a, cur, f, imp, d, vis), imp \subseteq imp2, d <= d2
  PROVE  Stands(a, cur, f, imp2, d2, vis)
BY DEF Stands

\* Nor does what appears: it was booked too recently.
LEMMA StandsAppearing ==
  ASSUME NEW a, NEW cur \in Int, NEW f, NEW imp, NEW d \in Int, NEW vis, NEW t \in Txns,
         Stands(a, cur, f, imp, d, vis), d <= BookedOn[t] + Overlap
  PROVE  Stands(a, cur, f, imp, d, vis \cup {t})
BY FeedAssumption DEF Stands

LEMMA FeedTyped ==
  FeedTypes /\ [Feed!Next]_feedVars => FeedTypes'
<1> SUFFICES ASSUME FeedTypes, [Feed!Next]_feedVars PROVE FeedTypes'
  OBVIOUS
<1>1. /\ FirstDays \in Int /\ Overlap \in Int /\ 0 \in Int /\ -1 \in Int
      /\ Feed!NotFed \in [FeedAccounts -> Fed]
  BY FeedAssumption DEF Feed!NotFed, Fed
<1>2. ASSUME NEW s \in Sessions, Feed!Begins(s) PROVE FeedTypes'
  <2>1. PICK finalize \in BOOLEAN :
          LET cur == [a \in FeedAccounts |->
                        IF finalize /\ cursor[a] = -1 THEN 0 ELSE cursor[a]]
          IN sync' = [by |-> s, today |-> asked[s],
                      todo |-> {a \in FeedAccounts : cur[a] # -1},
                      cursor |-> cur, imported |-> imported, fed |-> fed]
    BY <1>2 DEF Feed!Begins
  <2>2. sync' \in Syncs
    BY <2>1 DEF FeedTypes, Syncs
  <2>3. QED
    BY <1>2, <2>2 DEF FeedTypes, Feed!Begins
<1>3. ASSUME NEW a \in FeedAccounts, Feed!Fetches(a) PROVE FeedTypes'
  <2> DEFINE seen == {t \in visible : AccountOf[t] = a}
  <2>1. sync \in Syncs /\ sync # Nothing
    BY <1>3 DEF FeedTypes, Feed!Fetches
  <2>2. PICK c \in Syncs : sync = c
    BY <2>1
  <2>3. Feed!From(a) \in Int
    BY <1>1, <2>1 DEF Feed!From, Syncs
  <2>4. [seen |-> seen, since |-> IF c.fed[a].since = 0 THEN Feed!From(a)
                                                        ELSE c.fed[a].since] \in Fed
    BY <2>2, <2>3 DEF Fed, Syncs, FeedTypes
  <2>5. sync' = [c EXCEPT
       !.todo = @ \ {a},
       !.imported = @ \cup {t \in seen : BookedOn[t] >= Feed!From(a)},
       !.cursor[a] = c.today,
       !.fed[a] = [seen |-> seen,
                   since |-> IF @.since = 0 THEN Feed!From(a) ELSE @.since]]
    BY <1>3, <2>2 DEF Feed!Fetches
  <2>6. sync' \in Syncs
    BY <2>2, <2>4, <2>5 DEF Syncs, FeedTypes
  <2>7. QED
    BY <1>3, <2>6 DEF FeedTypes, Feed!Fetches
<1>4. ASSUME NEW a \in FeedAccounts, Feed!FetchFails(a) PROVE FeedTypes'
  <2>1. sync' \in Syncs
    BY <1>4 DEF FeedTypes, Feed!FetchFails, Syncs
  <2>2. QED
    BY <1>4, <2>1 DEF FeedTypes, Feed!FetchFails
<1>5. CASE Feed!Commits \/ Feed!RollsBack
  BY <1>1, <1>5 DEF FeedTypes, Syncs, Feed!Commits, Feed!RollsBack
<1>6. CASE Feed!deleteConnection
  BY <1>1, <1>6 DEF FeedTypes, Feed!deleteConnection
<1>7. CASE Feed!createConnection \/ Feed!NextDay \/ UNCHANGED feedVars
  BY <1>7 DEF FeedTypes, Feed!createConnection, Feed!NextDay, feedVars
<1>8. ASSUME NEW t \in Txns, Feed!Appears(t) PROVE FeedTypes'
  BY <1>8 DEF FeedTypes, Feed!Appears
<1>9. ASSUME NEW s \in Sessions, Feed!Asks(s) \/ Feed!FindsUnlinked(s) \/ Feed!NotFound(s)
      PROVE  FeedTypes'
  BY <1>9 DEF FeedTypes, Feed!Asks, Feed!FindsUnlinked, Feed!NotFound
<1>10. QED
  BY <1>2, <1>3, <1>4, <1>5, <1>6, <1>7, <1>8, <1>9 DEF Feed!Next

LEMMA FeedKept ==
  FeedInv /\ [Feed!Next]_feedVars => FeedInv'
<1> SUFFICES ASSUME FeedInv, [Feed!Next]_feedVars PROVE FeedWindows'
  BY FeedTyped DEF FeedInv
<1>1. FeedTypes /\ FeedTypes' /\ FeedWindows
  BY FeedTyped DEF FeedInv
<1>2. /\ day \in Int /\ FirstDays \in Int /\ cursor \in [FeedAccounts -> Int]
      /\ asked \in [Sessions -> Int]
      /\ \A c \in Syncs : c.cursor \in [FeedAccounts -> Int] /\ c.fed \in [FeedAccounts -> Fed]
                          /\ c.today \in Int /\ c.imported \in SUBSET Txns
                          /\ c.todo \in SUBSET FeedAccounts /\ c.by \in Sessions
      /\ fed \in [FeedAccounts -> Fed] /\ visible \in SUBSET Txns
      /\ sync \in Syncs \cup {Nothing}
  BY <1>1, FeedAssumption DEF FeedTypes, Syncs
<1>3. ASSUME NEW t \in Txns, Feed!Appears(t) PROVE FeedWindows'
  <2>1. /\ visible' = visible \cup {t} /\ day <= BookedOn[t] + Overlap
        /\ UNCHANGED <<day, cursor, imported, asked, sync, fed>>
    BY <1>2, <1>3, FeedAssumption DEF Feed!Appears
  <2>2. \A a \in FeedAccounts : Stands(a, cursor[a], fed[a], imported, day, visible')
    BY <1>1, <1>2, <2>1, StandsAppearing DEF FeedWindows
  <2>3. ASSUME sync # Nothing, NEW a \in FeedAccounts
        PROVE  Stands(a, sync.cursor[a], sync.fed[a], sync.imported, day, visible')
    <3>1. sync.cursor[a] \in Int
      BY <1>2, <2>3
    <3>2. Stands(a, sync.cursor[a], sync.fed[a], sync.imported, day, visible)
      BY <1>1, <2>3 DEF FeedWindows
    <3>3. QED
      BY <1>2, <2>1, <3>1, <3>2, StandsAppearing
  <2>4. QED
    BY <1>1, <2>1, <2>2, <2>3 DEF FeedWindows
<1>4. CASE Feed!NextDay
  <2>1. /\ day' \in Int /\ day <= day' /\ UNCHANGED <<visible, cursor, imported, asked, sync, fed>>
    BY <1>2, <1>4 DEF Feed!NextDay
  <2>2. \A a \in FeedAccounts : Stands(a, cursor[a], fed[a], imported, day', visible)
    BY <1>1, <1>2, <2>1, StandsStill DEF FeedWindows
  <2>3. ASSUME sync # Nothing, NEW a \in FeedAccounts
        PROVE  Stands(a, sync.cursor[a], sync.fed[a], sync.imported, day', visible)
    <3>1. sync.cursor[a] \in Int
      BY <1>2, <2>3
    <3>2. Stands(a, sync.cursor[a], sync.fed[a], sync.imported, day, visible)
      BY <1>1, <2>3 DEF FeedWindows
    <3>3. QED
      BY <1>2, <2>1, <3>1, <3>2, StandsStill
  <2>4. day' > FirstDays
    BY <1>1, <1>2, <2>1 DEF FeedWindows
  <2>5. \A s \in Sessions : asked[s] > 0 => asked[s] > FirstDays /\ asked[s] <= day'
    BY <1>1, <1>2, <2>1 DEF FeedWindows
  <2>6. sync # Nothing => sync.today <= day'
    BY <1>1, <1>2, <2>1 DEF FeedWindows
  <2>7. QED
    BY <1>1, <2>1, <2>2, <2>3, <2>4, <2>5, <2>6 DEF FeedWindows
<1>5. ASSUME NEW s \in Sessions, Feed!Asks(s) PROVE FeedWindows'
  <2>1. asked' = [asked EXCEPT ![s] = day]
          /\ UNCHANGED <<day, visible, cursor, imported, sync, fed>>
    BY <1>5 DEF Feed!Asks
  <2>2. \A r \in Sessions : asked'[r] > 0 => asked'[r] > FirstDays /\ asked'[r] <= day
    BY <1>1, <1>2, <2>1 DEF FeedWindows
  <2>3. QED
    BY <1>1, <2>1, <2>2 DEF FeedWindows
<1>6. ASSUME NEW s \in Sessions, asked' = [asked EXCEPT ![s] = 0],
             UNCHANGED <<day, visible, cursor, imported, sync, fed>>
      PROVE  FeedWindows'
  <2>1. \A r \in Sessions : asked'[r] > 0 => asked'[r] > FirstDays /\ asked'[r] <= day
    BY <1>1, <1>2, <1>6 DEF FeedWindows
  <2>2. QED
    BY <1>1, <1>6, <2>1 DEF FeedWindows
<1>7. ASSUME NEW s \in Sessions, Feed!Begins(s) PROVE FeedWindows'
  <2>1. PICK finalize \in BOOLEAN :
          LET cur == [a \in FeedAccounts |->
                        IF finalize /\ cursor[a] = -1 THEN 0 ELSE cursor[a]]
          IN sync' = [by |-> s, today |-> asked[s],
                      todo |-> {a \in FeedAccounts : cur[a] # -1},
                      cursor |-> cur, imported |-> imported, fed |-> fed]
    BY <1>7 DEF Feed!Begins
  <2>2. /\ sync'.today = asked[s] /\ sync'.imported = imported /\ sync'.fed = fed
        /\ \A a \in FeedAccounts : /\ sync'.cursor[a] = IF finalize /\ cursor[a] = -1 THEN 0
                                                        ELSE cursor[a]
                                   /\ a \in sync'.todo => sync'.cursor[a] # -1
        /\ sync'.todo \subseteq FeedAccounts
    BY <2>1
  <2>3. asked[s] > 0 /\ UNCHANGED <<day, visible, cursor, imported, asked, fed>>
    BY <1>7 DEF Feed!Begins
  <2>4. ASSUME NEW a \in FeedAccounts
        PROVE  /\ Stands(a, sync'.cursor[a], sync'.fed[a], sync'.imported, day, visible)
               /\ cursor[a] >= -1 => (a \in sync'.todo => sync'.cursor[a] >= 0)
    <3>1. Stands(a, cursor[a], fed[a], imported, day, visible) /\ day > 0
      BY <1>1, <1>2, FeedAssumption DEF FeedWindows
    <3>2. CASE finalize /\ cursor[a] = -1
      <4>1. sync'.cursor[a] = 0 /\ sync'.fed[a] = fed[a] /\ sync'.imported = imported
        BY <2>2, <3>2
      <4>2. Stands(a, 0, fed[a], imported, day, visible)
        BY <1>2, <3>1, <3>2 DEF Stands
      <4>3. QED
        BY <4>1, <4>2
    <3>3. CASE ~(finalize /\ cursor[a] = -1)
      BY <1>2, <2>2, <3>1, <3>3
    <3>4. QED
      BY <3>2, <3>3
  <2>5. \A a \in FeedAccounts : cursor[a] >= -1
    BY <1>1, <1>2 DEF FeedWindows, Stands
  <2>6. sync'.today > FirstDays /\ sync'.today <= day
    BY <1>1, <2>2, <2>3 DEF FeedWindows
  <2>7. QED
    BY <1>1, <2>2, <2>3, <2>4, <2>5, <2>6 DEF FeedWindows
<1>8. ASSUME NEW a \in FeedAccounts, Feed!Fetches(a) PROVE FeedWindows'
  <2> DEFINE seen == {t \in visible : AccountOf[t] = a}
  <2>1. PICK c \in Syncs : sync = c /\ a \in c.todo /\ c # Nothing
    BY <1>2, <1>8 DEF Feed!Fetches
  <2> DEFINE from == IF c.cursor[a] = 0 THEN c.today - FirstDays ELSE c.cursor[a] - Overlap
             f == [seen |-> seen, since |-> IF c.fed[a].since = 0 THEN from
                                            ELSE c.fed[a].since]
             imp == c.imported \cup {t \in seen : BookedOn[t] >= from}
  <2>2. sync' = [c EXCEPT !.todo = @ \ {a}, !.imported = imp, !.cursor[a] = c.today,
                          !.fed[a] = f]
    BY <1>8, <2>1 DEF Feed!Fetches, Feed!From
  <2>3. UNCHANGED <<day, visible, cursor, imported, asked, fed>>
    BY <1>8 DEF Feed!Fetches
  <2>4. /\ c.today > FirstDays /\ c.today <= day
        /\ \A b \in FeedAccounts : Stands(b, c.cursor[b], c.fed[b], c.imported, day, visible)
        /\ \A b \in c.todo : c.cursor[b] >= 0
    BY <1>1, <2>1 DEF FeedWindows
  <2>5. /\ c.cursor \in [FeedAccounts -> Int] /\ c.fed \in [FeedAccounts -> Fed]
        /\ c.today \in Int /\ c.imported \in SUBSET Txns /\ c.todo \in SUBSET FeedAccounts
    BY <1>2
  <2>6. Stands(a, c.today, f, imp, day, visible)
    <3>1. /\ Stands(a, c.cursor[a], c.fed[a], c.imported, day, visible)
          /\ c.cursor[a] \in Int /\ c.fed[a] \in Fed /\ c.cursor[a] >= 0
      BY <2>1, <2>4, <2>5
    <3>2. \E x, y : x = from /\ y = seen
      OBVIOUS
    <3>3. QED
      BY <1>2, <2>4, <2>5, <3>1, FetchStands
  <2>7. /\ sync'.today = c.today /\ sync'.imported = imp /\ sync'.todo = c.todo \ {a}
        /\ sync'.cursor = [c.cursor EXCEPT ![a] = c.today]
        /\ sync'.fed = [c.fed EXCEPT ![a] = f]
    BY <2>2 DEF Syncs
  <2>8. c.imported \subseteq imp
    OBVIOUS
  <2> HIDE DEF f, imp
  <2>9. ASSUME NEW b \in FeedAccounts
        PROVE  Stands(b, sync'.cursor[b], sync'.fed[b], sync'.imported, day, visible)
    <3>1. CASE b = a
      BY <2>5, <2>6, <2>7, <3>1
    <3>2. CASE b # a
      <4>1. sync'.cursor[b] = c.cursor[b] /\ sync'.fed[b] = c.fed[b] /\ c.cursor[b] \in Int
        BY <2>5, <2>7, <3>2
      <4>2. Stands(b, c.cursor[b], c.fed[b], imp, day, visible)
        BY <1>2, <2>4, <2>8, <4>1, StandsStill
      <4>3. QED
        BY <2>7, <4>1, <4>2
    <3>3. QED
      BY <3>1, <3>2
  <2>10. \A b \in c.todo \ {a} : sync'.cursor[b] >= 0
    BY <2>4, <2>5, <2>7
  <2>11. QED
    BY <1>1, <2>3, <2>4, <2>7, <2>9, <2>10 DEF FeedWindows
<1>9. ASSUME NEW a \in FeedAccounts, Feed!FetchFails(a) PROVE FeedWindows'
  <2>1. PICK c \in Syncs : sync = c /\ a \in c.todo /\ c # Nothing
    BY <1>2, <1>9 DEF Feed!FetchFails
  <2>2. sync' = [c EXCEPT !.todo = @ \ {a}]
          /\ UNCHANGED <<day, visible, cursor, imported, asked, fed>>
    BY <1>9, <2>1 DEF Feed!FetchFails
  <2>3. /\ sync'.today = c.today /\ sync'.imported = c.imported /\ sync'.todo = c.todo \ {a}
        /\ sync'.cursor = c.cursor /\ sync'.fed = c.fed
    BY <2>2 DEF Syncs
  <2>4. QED
    BY <1>1, <2>1, <2>2, <2>3 DEF FeedWindows
<1>10. CASE Feed!Commits
  <2>1. PICK c \in Syncs : sync = c /\ c # Nothing
    BY <1>2, <1>10 DEF Feed!Commits
  <2>2. /\ cursor' = c.cursor /\ imported' = c.imported /\ fed' = c.fed
        /\ asked' = [asked EXCEPT ![c.by] = 0] /\ sync' = Nothing
        /\ UNCHANGED <<day, visible>>
    BY <1>10, <2>1 DEF Feed!Commits
  <2>3. \A a \in FeedAccounts : Stands(a, c.cursor[a], c.fed[a], c.imported, day, visible)
    BY <1>1, <2>1 DEF FeedWindows
  <2>4. \A r \in Sessions : asked'[r] > 0 => asked'[r] > FirstDays /\ asked'[r] <= day
    BY <1>1, <1>2, <2>2 DEF FeedWindows
  <2>5. QED
    BY <1>1, <2>2, <2>3, <2>4 DEF FeedWindows
<1>11. CASE Feed!RollsBack
  <2>1. /\ asked' = [asked EXCEPT ![sync.by] = 0] /\ sync' = Nothing
        /\ UNCHANGED <<day, visible, cursor, imported, fed>>
    BY <1>11 DEF Feed!RollsBack
  <2>2. \A r \in Sessions : asked'[r] > 0 => asked'[r] > FirstDays /\ asked'[r] <= day
    BY <1>1, <1>2, <2>1 DEF FeedWindows
  <2>3. QED
    BY <1>1, <2>1, <2>2 DEF FeedWindows
<1>12. CASE Feed!deleteConnection
  <2>1. /\ sync = Nothing /\ UNCHANGED <<day, visible, sync>>
        /\ cursor' = [a \in FeedAccounts |-> -1]
        /\ fed' = [a \in FeedAccounts |-> [seen |-> {}, since |-> 0]]
        /\ asked' = [s \in Sessions |-> IF asked[s] = 0 THEN 0 ELSE -1]
    BY <1>12 DEF Feed!deleteConnection, Feed!NotFed
  <2>2. \A a \in FeedAccounts : Stands(a, cursor'[a], fed'[a], imported', day, visible)
    <3>1. day > 0
      BY <1>1, <1>2, FeedAssumption DEF FeedWindows
    <3>2. QED
      BY <1>2, <2>1, <3>1 DEF Stands
  <2>3. \A r \in Sessions : ~(asked'[r] > 0)
    BY <2>1
  <2>4. QED
    BY <1>1, <2>1, <2>2, <2>3 DEF FeedWindows
<1>13. Feed!createConnection \/ UNCHANGED feedVars =>
         UNCHANGED <<day, visible, cursor, imported, asked, sync, fed>>
  BY DEF Feed!createConnection, feedVars
<1>14. ASSUME UNCHANGED <<day, visible, cursor, imported, asked, sync, fed>>
       PROVE  FeedWindows'
  BY <1>1, <1>14 DEF FeedWindows
<1>15. ASSUME NEW s \in Sessions, Feed!FindsUnlinked(s) \/ Feed!NotFound(s)
       PROVE  FeedWindows'
  BY <1>6, <1>15 DEF Feed!FindsUnlinked, Feed!NotFound
<1>16. QED
  BY <1>3, <1>4, <1>5, <1>7, <1>8, <1>9, <1>10, <1>11, <1>12, <1>13, <1>14, <1>15
  DEF Feed!Next

(* The feed is complete (syncConnection): for any accounts, transactions,   *)
(* booking dates, overlap and first window, with failures and overlapping   *)
(* requests at any point.                                                   *)
THEOREM FeedStaysComplete == Spec => []FeedIsComplete
<1>1. Init => FeedInv
  <2> SUFFICES ASSUME Feed!Init PROVE FeedInv
    BY DEF Init
  <2>1. FeedTypes
    BY FeedAssumption DEF Feed!Init, FeedTypes, Fed, Feed!NotFed
  <2>2. \A a \in FeedAccounts : Stands(a, cursor[a], fed[a], imported, day, visible)
    BY FeedAssumption DEF Feed!Init, Stands, Feed!NotFed
  <2>3. QED
    BY <2>1, <2>2, FeedAssumption DEF FeedInv, FeedWindows, Feed!Init
<1>2. FeedInv /\ [Next]_vars => FeedInv'
  BY StepsApart, FeedKept
<1>3. FeedInv => FeedIsComplete
  BY DEF FeedInv, FeedWindows, Stands, FeedIsComplete, Feed!FeedIsComplete
<1>4. QED
  BY <1>1, <1>2, <1>3, PTL DEF Spec

-----------------------------------------------------------------------------
(***************************************************************************)
(* Outbound invoices.  A row that is missing is about to be written, one   *)
(* that was tried has its due date, and one that is settled was accepted.  *)
(***************************************************************************)
DueDate(o) == Sending!addWorkingDays(IssuedOn[o], 5)

Reports ==
  [step : {"sent", "submit"}, on : Outbound]
  \cup [step : {"submitted"}, on : Outbound, ok : BOOLEAN]

SendingInv ==
  /\ request \in [Sessions -> Reports \cup {Nothing}]
  /\ DOMAIN row = Outbound /\ dispatched \subseteq Outbound
  /\ \A o \in Outbound :
       \E st \in {"none", "pending", "submitted", "failed"} : \E due \in {Nothing, DueDate(o)} :
         /\ row[o] = [status |-> st, due |-> due]
         /\ st \in {"failed", "submitted"} => due = DueDate(o)
         /\ st = "submitted" => o \in accepted
         /\ st = "none" /\ o \in dispatched \ unrecorded =>
              \E s \in Sessions : Sending!At(s, "sent") /\ request[s].on = o
  /\ \A s \in Sessions : Sending!At(s, "submitted") /\ request[s].ok => request[s].on \in accepted

LEMMA SendingKept ==
  SendingInv /\ [Sending!Next]_sendingVars => SendingInv'
<1> SUFFICES ASSUME SendingInv, [Sending!Next]_sendingVars PROVE SendingInv'
  OBVIOUS
<1> DEFINE Sent(s, o) == request[s] # Nothing /\ request[s].step = "sent" /\ request[s].on = o
           Is(o, st, due) == row[o] = [status |-> st, due |-> due]
           States == {"none", "pending", "submitted", "failed"}
           Holds(o, st, due) ==
             /\ Is(o, st, due)
             /\ st \in {"failed", "submitted"} => due = DueDate(o)
             /\ st = "submitted" => o \in accepted
             /\ st = "none" /\ o \in dispatched \ unrecorded => \E s \in Sessions : Sent(s, o)
           Row(o) == \E st \in States : \E due \in {Nothing, DueDate(o)} : Holds(o, st, due)
           Heard(s) == request[s] # Nothing /\ request[s].step = "submitted" /\ request[s].ok =>
                         request[s].on \in accepted
<1>1. /\ request \in [Sessions -> Reports \cup {Nothing}] /\ DOMAIN row = Outbound
      /\ dispatched \subseteq Outbound
      /\ \A o \in Outbound : Row(o)
      /\ \A s \in Sessions : Heard(s)
  BY DEF SendingInv, Sending!At
<1>2. SUFFICES /\ request' \in [Sessions -> Reports \cup {Nothing}] /\ DOMAIN row' = Outbound
               /\ dispatched' \subseteq Outbound
               /\ \A o \in Outbound : Row(o)'
               /\ \A s \in Sessions : Heard(s)'
  BY DEF SendingInv, Sending!At, DueDate, Sending!addWorkingDays
\* A row that stays as it is.
<1>3. ASSUME NEW o \in Outbound, row'[o] = row[o], accepted \subseteq accepted',
             o \in dispatched' \ unrecorded' =>
               \/ /\ o \in dispatched \ unrecorded
                  /\ \A s \in Sessions : Sent(s, o) => Sent(s, o)'
               \/ \E s \in Sessions : Sent(s, o)'
      PROVE  Row(o)'
  <2>1. PICK st \in States, due \in {Nothing, DueDate(o)} : Holds(o, st, due)
    BY <1>1
  <2>2. Is(o, st, due)'
    BY <1>3, <2>1
  <2>3. st = "none" /\ o \in dispatched' \ unrecorded' => \E s \in Sessions : Sent(s, o)'
    <3> HIDE DEF Sent
    <3>1. QED
      BY <1>3, <2>1
  <2> HIDE DEF Sent
  <2>4. Holds(o, st, due)'
    <3> HIDE DEF Is
    <3>1. QED
      BY <1>3, <2>1, <2>2, <2>3
  <2> HIDE DEF Holds
  <2>5. QED
    BY <2>4
\* One session goes on; the others are where they were.
<1>4. ASSUME NEW s \in Sessions, NEW d \in Reports \cup {Nothing},
             request' = [request EXCEPT ![s] = d], accepted \subseteq accepted',
             d # Nothing /\ d.step = "submitted" /\ d.ok => d.on \in accepted'
      PROVE  /\ request' \in [Sessions -> Reports \cup {Nothing}]
             /\ \A r \in Sessions : Heard(r)'
             /\ \A r \in Sessions \ {s}, o \in Outbound : Sent(r, o) => Sent(r, o)'
  <2>1. request' \in [Sessions -> Reports \cup {Nothing}]
    BY <1>1, <1>4
  <2>2. \A r \in Sessions \ {s} : request'[r] = request[r]
    BY <1>1, <1>4
  <2>3. request'[s] = d
    BY <1>1, <1>4
  <2>4. \A r \in Sessions \ {s} : Heard(r)'
    BY <1>1, <1>4, <2>2
  <2>5. Heard(s)'
    BY <1>4, <2>1, <2>3
  <2>6. QED
    BY <2>1, <2>2, <2>4, <2>5
<1> DEFINE Next0 == /\ request' \in [Sessions -> Reports \cup {Nothing}]
                    /\ DOMAIN row' = Outbound /\ dispatched' \subseteq Outbound
                    /\ \A o \in Outbound : Row(o)'
                    /\ \A s \in Sessions : Heard(s)'
<1>5. ASSUME NEW s \in Sessions, NEW o \in Outbound, Sending!SendDispatches(s, o)
      PROVE  Next0
  <2> DEFINE d == [step |-> "sent", on |-> o]
  <2>1. /\ d \in Reports /\ d.step = "sent" /\ d.on = o /\ request[s] = Nothing
        /\ request' = [request EXCEPT ![s] = d]
        /\ dispatched' = dispatched \cup {o} /\ UNCHANGED <<row, accepted, unrecorded>>
    BY <1>5 DEF Sending!SendDispatches, Reports
  <2> HIDE DEF d
  <2>2. /\ request' \in [Sessions -> Reports \cup {Nothing}]
        /\ \A r \in Sessions : Heard(r)'
        /\ \A r \in Sessions \ {s}, p \in Outbound : Sent(r, p) => Sent(r, p)'
    <3> HIDE DEF Heard, Sent
    <3>1. QED
      BY <1>4, <2>1
  <2>3. request'[s] = d
    BY <1>1, <2>1
  <2>4. d # Nothing => Sent(s, o)'
    BY <2>1, <2>3
  <2>5. \A p \in Outbound : ~Sent(s, p)
    BY <2>1
  <2>6. DOMAIN row' = Outbound /\ dispatched' \subseteq Outbound
    BY <1>1, <2>1
  <2>7. ASSUME NEW p \in Outbound PROVE Row(p)'
    <3>1. p = o => \E r \in Sessions : Sent(r, p)'
      BY <2>1, <2>4, SendingAssumption DEF d
    <3>2. row'[p] = row[p] /\ accepted \subseteq accepted'
      BY <2>1
    <3>3. \A r \in Sessions : Sent(r, p) => Sent(r, p)'
      BY <2>2, <2>5
    <3> HIDE DEF Sent, Row
    <3>4. QED
      BY <1>3, <2>1, <3>1, <3>2, <3>3
  <2>8. QED
    BY <2>2, <2>6, <2>7
<1>6. ASSUME NEW s \in Sessions, Sending!SendCommits(s) PROVE Next0
  <2>1. /\ request[s] # Nothing /\ request[s].step = "sent"
        /\ row' = [row EXCEPT ![request[s].on].status = "pending"]
        /\ request' = [request EXCEPT ![s] = Nothing]
        /\ UNCHANGED <<dispatched, accepted, unrecorded>>
    BY <1>6 DEF Sending!SendCommits, Sending!At
  <2>2. PICK x \in Outbound : x = request[s].on
    BY <1>1, <2>1 DEF Reports
  <2>3. /\ request' \in [Sessions -> Reports \cup {Nothing}]
        /\ \A r \in Sessions : Heard(r)'
        /\ \A r \in Sessions \ {s}, p \in Outbound : Sent(r, p) => Sent(r, p)'
    <3> HIDE DEF Heard, Sent
    <3>1. QED
      BY <1>4, <2>1
  <2>4. Row(x)'
    <3>1. PICK st \in States, due \in {Nothing, DueDate(x)} : Holds(x, st, due)
      BY <1>1, <2>2
    <3>2. row'[x] = [status |-> "pending", due |-> due]
      BY <1>1, <2>1, <2>2, <3>1
    <3>3. Holds(x, "pending", due)'
      BY <3>2
    <3> HIDE DEF Holds
    <3>4. QED
      BY <3>3
  <2>5. ASSUME NEW p \in Outbound, p # x PROVE Row(p)'
    <3>1. row'[p] = row[p] /\ accepted \subseteq accepted'
      BY <2>1, <2>2, <2>5, <1>1
    <3>2. \A r \in Sessions : Sent(r, p) => Sent(r, p)'
      BY <2>2, <2>3, <2>5
    <3> HIDE DEF Sent, Row
    <3>3. QED
      BY <1>3, <2>1, <3>1, <3>2
  <2>6. DOMAIN row' = Outbound /\ dispatched' \subseteq Outbound
    BY <1>1, <2>1
  <2> HIDE DEF Row, Heard
  <2>7. QED
    BY <2>3, <2>4, <2>5, <2>6
\* A step of a session that sends nothing, and writes no row.
<1>7. ASSUME NEW s \in Sessions, NEW d \in Reports \cup {Nothing},
             request' = [request EXCEPT ![s] = d], accepted \subseteq accepted',
             d # Nothing /\ d.step = "submitted" /\ d.ok => d.on \in accepted',
             UNCHANGED <<dispatched, row>>,
             unrecorded \subseteq unrecorded',
             \A o \in Outbound : Sent(s, o) => o \in unrecorded'
      PROVE  Next0
  <2>1. /\ request' \in [Sessions -> Reports \cup {Nothing}]
        /\ \A r \in Sessions : Heard(r)'
        /\ \A r \in Sessions \ {s}, p \in Outbound : Sent(r, p) => Sent(r, p)'
    <3> HIDE DEF Heard, Sent
    <3>1. QED
      BY <1>4, <1>7
  <2>2. ASSUME NEW p \in Outbound PROVE Row(p)'
    <3>1. row'[p] = row[p]
      BY <1>7
    <3>2. p \in dispatched' \ unrecorded' =>
            p \in dispatched \ unrecorded /\ \A r \in Sessions : Sent(r, p) => Sent(r, p)'
      <4> HIDE DEF Sent
      <4>1. QED
        BY <1>7, <2>1
    <3> HIDE DEF Sent, Row
    <3>3. QED
      BY <1>3, <1>7, <3>1, <3>2
  <2>3. DOMAIN row' = Outbound /\ dispatched' \subseteq Outbound
    BY <1>1, <1>7
  <2> HIDE DEF Row, Heard
  <2>4. QED
    BY <2>1, <2>2, <2>3
<1>8. ASSUME NEW s \in Sessions, NEW o \in Outbound, Sending!SubmitReads(s, o)
      PROVE  Next0
  <2> DEFINE d == [step |-> "submit", on |-> o]
  <2>1. /\ d \in Reports /\ d.step # "submitted" /\ request[s] = Nothing
        /\ request' = [request EXCEPT ![s] = d]
        /\ UNCHANGED <<dispatched, row, accepted, unrecorded>>
    BY <1>8 DEF Sending!SubmitReads, Reports
  <2>2. \A p \in Outbound : ~Sent(s, p)
    BY <2>1
  <2> HIDE DEF d, Sent, Next0
  <2>3. QED
    BY <1>7, <2>1, <2>2
<1>9. ASSUME NEW s \in Sessions, Sending!SubmitCalls(s) PROVE Next0
  <2> DEFINE x == request[s].on
  <2>1. PICK accepts \in BOOLEAN, answers \in BOOLEAN :
          /\ accepted' = IF accepts THEN accepted \cup {x} ELSE accepted
          /\ request' = [request EXCEPT ![s] =
               [step |-> "submitted", on |-> @.on, ok |-> accepts /\ answers]]
    BY <1>9 DEF Sending!SubmitCalls
  <2>2. /\ request[s] # Nothing /\ request[s].step = "submit"
        /\ UNCHANGED <<dispatched, row, unrecorded>>
    BY <1>9 DEF Sending!SubmitCalls, Sending!At
  <2>3. x \in Outbound
    BY <1>1, <2>2 DEF Reports
  <2> DEFINE d == [step |-> "submitted", on |-> x, ok |-> accepts /\ answers]
  <2>4. d \in Reports /\ (d.ok => d.on \in accepted') /\ accepted \subseteq accepted'
    <3>1. (accepts /\ answers) \in BOOLEAN
      OBVIOUS
    <3>2. d \in Reports
      BY <2>3, <3>1 DEF Reports
    <3>3. d.ok => accepts
      OBVIOUS
    <3>4. QED
      BY <2>1, <3>2, <3>3
  <2>5. request' = [request EXCEPT ![s] = d]
    BY <2>1
  <2>6. \A p \in Outbound : ~Sent(s, p)
    BY <2>2
  <2> HIDE DEF d, Sent, Next0
  <2>7. QED
    BY <1>7, <2>2, <2>4, <2>5, <2>6
<1>10. ASSUME NEW s \in Sessions, Sending!SubmitCommits(s) PROVE Next0
  <2>1. /\ request[s] # Nothing /\ request[s].step = "submitted"
        /\ row' = [row EXCEPT ![request[s].on] =
                    [status |-> IF request[s].ok THEN "submitted" ELSE "failed",
                     due |-> DueDate(request[s].on)]]
        /\ request' = [request EXCEPT ![s] = Nothing]
        /\ UNCHANGED <<dispatched, accepted, unrecorded>>
    BY <1>10 DEF Sending!SubmitCommits, Sending!At, DueDate
  <2>2. PICK x \in Outbound : x = request[s].on
    BY <1>1, <2>1 DEF Reports
  <2>3. /\ request' \in [Sessions -> Reports \cup {Nothing}]
        /\ \A r \in Sessions : Heard(r)'
        /\ \A r \in Sessions \ {s}, p \in Outbound : Sent(r, p) => Sent(r, p)'
    <3> HIDE DEF Heard, Sent
    <3>1. QED
      BY <1>4, <2>1
  <2>4. Row(x)'
    <3>0. PICK st \in {"submitted", "failed"} :
            st = IF request[s].ok THEN "submitted" ELSE "failed"
      OBVIOUS
    <3>1. row'[x] = [status |-> st, due |-> DueDate(x)]
      BY <1>1, <2>1, <2>2, <3>0
    <3>2. st = "submitted" => x \in accepted
      BY <1>1, <2>1, <2>2, <3>0
    <3>3. Holds(x, st, DueDate(x))'
      BY <2>1, <3>1, <3>2
    <3>4. st \in States
      OBVIOUS
    <3> HIDE DEF Holds
    <3>5. QED
      BY <3>3, <3>4
  <2>5. ASSUME NEW p \in Outbound, p # x PROVE Row(p)'
    <3>1. row'[p] = row[p] /\ accepted \subseteq accepted'
      BY <2>1, <2>2, <2>5, <1>1
    <3>2. \A r \in Sessions : Sent(r, p) => Sent(r, p)'
      BY <2>1, <2>3
    <3> HIDE DEF Sent, Row
    <3>3. QED
      BY <1>3, <2>1, <3>1, <3>2
  <2>6. DOMAIN row' = Outbound /\ dispatched' \subseteq Outbound
    BY <1>1, <2>1
  <2> HIDE DEF Row, Heard
  <2>7. QED
    BY <2>3, <2>4, <2>5, <2>6
<1>11. ASSUME NEW s \in Sessions, Sending!RollsBack(s) PROVE Next0
  <2>1. /\ request' = [request EXCEPT ![s] = Nothing]
        /\ UNCHANGED <<dispatched, row, accepted>>
        /\ unrecorded' = unrecorded \cup (IF Sending!At(s, "sent") THEN {request[s].on} ELSE {})
    BY <1>11 DEF Sending!RollsBack
  <2>2. \A o \in Outbound : Sent(s, o) => o \in unrecorded'
    BY <2>1 DEF Sending!At
  <2> HIDE DEF Sent, Next0
  <2>3. QED
    BY <1>7, <2>1, <2>2
<1>12. CASE Sending!NextDay \/ UNCHANGED sendingVars
  <2>1. UNCHANGED <<dispatched, row, accepted, unrecorded, request>>
    BY <1>12 DEF Sending!NextDay, sendingVars
  <2>2. QED
    BY <1>1, <2>1
<1> HIDE DEF Row, Heard
<1>13. QED
  BY <1>5, <1>6, <1>8, <1>9, <1>10, <1>11, <1>12 DEF Sending!Next

(* Deadlines are seen (submitToVid, findOverdueVidSubmissions,              *)
(* upcomingVidDeadlines): whatever the calendar, the issue dates and the    *)
(* number of requests.                                                      *)
THEOREM DeadlinesAreSeen == Spec => []DeadlinesSeen
<1>1. Init => SendingInv
  <2> SUFFICES ASSUME Sending!Init PROVE SendingInv
    BY DEF Init
  <2>1. \A o \in Outbound : row[o] = [status |-> "none", due |-> Nothing]
    BY DEF Sending!Init
  <2>2. QED
    BY <2>1 DEF SendingInv, Sending!Init, Sending!At
<1>2. SendingInv /\ [Next]_vars => SendingInv'
  BY StepsApart, SendingKept
<1>3. SendingInv => DeadlinesSeen
  <2> SUFFICES ASSUME SendingInv, NEW o \in dispatched \ (accepted \cup unrecorded),
                      \A s \in Sessions : Sending!At(s, "sent") => request[s].on # o,
                      DueDate(o) < asOf
               PROVE  o \in Sending!findOverdueVidSubmissions(asOf)
                             \cup Sending!upcomingVidDeadlines(asOf)
    BY DEF DeadlinesSeen, Sending!DeadlinesSeen, DueDate
  <2>1. o \in Outbound /\ DueDate(o) # Nothing
    BY SendingAssumption DEF SendingInv, DueDate
  <2>2. PICK st \in {"none", "pending", "submitted", "failed"}, due \in {Nothing, DueDate(o)} :
          /\ row[o] = [status |-> st, due |-> due]
          /\ st \in {"failed", "submitted"} => due = DueDate(o)
          /\ st # "submitted" /\ st # "none"
    BY <2>1 DEF SendingInv
  <2>3. /\ row[o].status = "pending" \/ (row[o].status = "failed" /\ row[o].due = DueDate(o))
        /\ row[o].due \in {Nothing, DueDate(o)}
    BY <2>2
  <2>4. QED
    BY <2>1, <2>3 DEF DueDate, Sending!findOverdueVidSubmissions, Sending!upcomingVidDeadlines
<1>4. QED
  BY <1>1, <1>2, <1>3, PTL DEF Spec

-----------------------------------------------------------------------------
(***************************************************************************)
(* Inbound invoices: first what reconciledLineVatCents makes of a document *)
(* that reconciles.                                                        *)
(***************************************************************************)
LEMMA SumOfCents == \A f : Receiving!sumCents(f) = SumFunctionOnSet(f, DOMAIN f)
BY DEF Receiving!sumCents, Receiving!FoldSeq, Receiving!FoldFunction, SumFunctionOnSet,
  FoldFunctionOnSet, Receiving!FoldFunctionOnSet, MapThenFoldSet, Receiving!MapThenFoldSet

\* A finite set of numbers has a greatest.
LEMMA GreatestExists ==
  ASSUME NEW S, IsFiniteSet(S), S \subseteq Int, S # {}
  PROVE  \E g \in S : \A x \in S : x <= g
<1> DEFINE C == {T \in SUBSET S : T # {} => \E g \in T : \A x \in T : x <= g}
<1>1. {} \in C
  OBVIOUS
<1>2. ASSUME NEW T \in SUBSET S, NEW y \in S \ T, T \in C PROVE T \cup {y} \in C
  <2>1. \E g \in T \cup {y} : \A x \in T \cup {y} : x <= g
    <3>1. CASE T = {}
      BY <3>1
    <3>2. CASE T # {}
      <4>1. PICK g \in T : \A x \in T : x <= g
        BY <1>2, <3>2
      <4>2. \A x \in T \cup {y} : x \in Int
        OBVIOUS
      <4>3. CASE y <= g
        BY <4>1, <4>3
      <4>4. CASE ~(y <= g)
        <5>1. \A x \in T \cup {y} : x <= y
          BY <4>1, <4>2, <4>4
        <5>2. QED
          BY <5>1
      <4>5. QED
        BY <4>3, <4>4
    <3>3. QED
      BY <3>1, <3>2
  <2>2. QED
    BY <2>1
<1>3. S \in C
  <2> HIDE DEF C
  <2>1. QED
    BY <1>1, <1>2, SubsetInduction
<1>4. QED
  BY <1>3

\* The lines' VAT adds up to the declared total, which falls on the lines that
\* charge VAT.
LEMMA VatReconciled ==
  ASSUME NEW m \in Messages, Receiving!Reconciles(Content[m])
  PROVE  LET b == Receiving!Bill(Content[m]) IN
           /\ b.grand = Content[m].grand
           /\ Receiving!sumCents([i \in DOMAIN b.lines |->
                IF b.lines[i].cat = "S" THEN b.lines[i].vat ELSE 0]) = Content[m].vat
<1> DEFINE c == Content[m]
           D == DOMAIN c.lines
           S == Receiving!Charging(c.lines)
           b == Receiving!Bill(c)
           vat == Receiving!reconciledLineVatCents(c.lines, c.vat)
           per == [i \in D |-> IF i \in S THEN (c.lines[i].net * c.lines[i].rate + 5000) \div 10000
                               ELSE 0]
           charged == [i \in DOMAIN b.lines |->
                         IF b.lines[i].cat = "S" THEN b.lines[i].vat ELSE 0]
<1>1. /\ c.net \in Int /\ c.vat \in Int /\ c.grand \in Int
      /\ c.lines \in Seq([net : Int, rate : Int, cat : STRING])
  BY ReceivingAssumption
<1>2. D = 1..Len(c.lines) /\ Len(c.lines) \in Nat
  BY <1>1
<1>3. IsFiniteSet(D) /\ S \subseteq D /\ D \subseteq Int
  <2>1. \A n \in Nat : IsFiniteSet(1..n)
    BY FS_Interval
  <2>2. QED
    BY <1>2, <2>1 DEF Receiving!Charging
<1>4. \A i \in D : c.lines[i].net \in Int /\ c.lines[i].rate \in Int
  <2>1. \A i \in D : c.lines[i] \in [net : Int, rate : Int, cat : STRING]
    <3>1. \A R : \A L \in Seq(R) : \A i \in 1..Len(L) : L[i] \in R
      OBVIOUS
    <3> HIDE DEF c
    <3>2. QED
      BY <1>1, <1>2, <3>1
  <2>2. QED
    BY <2>1
<1>5. \A i \in D : per[i] \in Int /\ (i \notin S => per[i] = 0)
  BY <1>4
<1> DEFINE sumPer == SumFunctionOnSet(per, D)
<1>6. vat = [i \in D |-> IF i \in S /\ \A j \in S : j <= i THEN per[i] + c.vat - sumPer
                         ELSE per[i]]
  <2>1. Receiving!sumCents(per) = sumPer
    BY SumOfCents
  <2>2. vat = [i \in D |-> IF i \in S /\ \A j \in S : j <= i
                           THEN per[i] + c.vat - Receiving!sumCents(per) ELSE per[i]]
    <3> HIDE DEF c
    <3>1. QED
      BY DEF Receiving!reconciledLineVatCents
  <2> HIDE DEF vat, per, S, D, sumPer, c
  <2>3. QED
    BY <2>1, <2>2
<1>7. sumPer \in Int
  <2> HIDE DEF per, D, S
  <2>1. QED
    BY <1>3, <1>5, SumRecursion
<1>8. DOMAIN vat = D /\ \A i \in D : vat[i] \in Int /\ (i \notin S => vat[i] = 0)
  <2> HIDE DEF vat, per, D, S, sumPer
  <2>1. QED
    BY <1>1, <1>5, <1>6, <1>7
<1>9. SumFunctionOnSet(vat, D) = c.vat
  <2>1. CASE S = {}
    <3>1. c.vat = 0
      BY <2>1 DEF Receiving!Reconciles, Receiving!Charging
    <3>2. \A i \in D : vat[i] = 0
      BY <1>8, <2>1
    <3> HIDE DEF vat, D, S
    <3>3. QED
      BY <1>3, <3>1, <3>2, SumOfZeros
  <2>2. CASE S # {}
    <3>1. IsFiniteSet(S) /\ S \subseteq Int
      BY <1>3, FS_Subset
    <3> HIDE DEF vat, per, D, S, sumPer, c
    <3>2. PICK k \in S : \A j \in S : j <= k
      BY <2>2, <3>1, GreatestExists
    <3>3. k \in D /\ vat[k] = per[k] + c.vat - sumPer
      BY <1>3, <1>6, <3>2
    <3>4. \A i \in D \ {k} : vat[i] = per[i]
      <4>1. ASSUME NEW i \in D \ {k} PROVE ~(i \in S /\ \A j \in S : j <= i)
        BY <1>3, <3>2
      <4>2. QED
        BY <1>6, <4>1
    <3>5. SumFunctionOnSet(vat, D) = SumFunctionOnSet(per, D) - per[k] + vat[k]
      <4>1. \A i \in D : per[i] \in Int /\ vat[i] \in Int
        BY <1>5, <1>8
      <4>2. k \in D
        BY <3>3
      <4>3. IsFiniteSet(D)
        BY <1>3
      <4>4. \A x \in D : (\A i \in D \ {x} : vat[i] = per[i]) =>
              SumFunctionOnSet(vat, D) = SumFunctionOnSet(per, D) - per[x] + vat[x]
        BY <4>1, <4>3, SumChanges, SMTT(60)
      <4>5. QED
        BY <3>4, <4>2, <4>4, Zenon
    <3>6. QED
      BY <1>1, <1>5, <1>7, <3>3, <3>5 DEF sumPer
  <2>3. QED
    BY <2>1, <2>2
<1>10. Receiving!sumCents(vat) = c.vat
  BY <1>8, <1>9, SumOfCents
<1>11. b.grand = c.net + c.vat /\ c.grand = c.net + c.vat
  <2>1. b.grand = Receiving!NetTotal(c.lines) + Receiving!sumCents(vat)
    BY DEF Receiving!Bill
  <2>2. Receiving!NetTotal(c.lines) = c.net /\ c.net + c.vat = c.grand
    BY DEF Receiving!Reconciles
  <2> HIDE DEF c, b, vat
  <2>3. QED
    BY <1>10, <2>1, <2>2
<1>12. DOMAIN charged = D /\ \A i \in D : charged[i] = vat[i]
  <2>1. b.lines = [i \in D |-> [net |-> c.lines[i].net,
                                rate |-> Receiving!storedVatRate(c.lines[i]),
                                vat |-> vat[i], cat |-> c.lines[i].cat]]
    BY DEF Receiving!Bill
  <2>2. \A i \in D : c.lines[i].cat = "S" <=> i \in S
    BY DEF Receiving!Charging
  <2> HIDE DEF b, vat
  <2>3. QED
    BY <1>8, <2>1, <2>2
<1>13. Receiving!sumCents(charged) = c.vat
  <2> HIDE DEF charged, vat, D, c
  <2>1. SumFunctionOnSet(charged, D) = SumFunctionOnSet(vat, D)
    BY <1>3, <1>8, <1>12, SumAgrees
  <2>2. QED
    BY <1>9, <1>12, <2>1, SumOfCents
<1>14. QED
  BY <1>11, <1>13

(***************************************************************************)
(* Where a message is: unsent, in the inbox, in one open batch, lost, or   *)
(* booked; and who creates a vendor: one open batch, unless it is raced.   *)
(***************************************************************************)
Batches ==
  [taken : SUBSET Messages, todo : SUBSET Messages, created : SUBSET Receiving!Suppliers]

InHand(s) == IF batch[s] = Nothing THEN {} ELSE batch[s].taken
Booked(s) == IF batch[s] = Nothing THEN {} ELSE batch[s].taken \ batch[s].todo
Creates(s) == IF batch[s] = Nothing THEN {} ELSE batch[s].created

ReceivingTypes ==
  /\ batch \in [Sessions -> Batches \cup {Nothing}]
  /\ DOMAIN bill = Messages /\ vendors \in [Receiving!Suppliers -> Nat]
  /\ unsent \in SUBSET Messages /\ inbox \in SUBSET Messages /\ lost \in SUBSET Messages

Placed ==
  /\ \A m \in unsent \cup inbox \cup lost : bill[m] = Nothing
  /\ unsent \cap inbox = {} /\ (unsent \cup inbox) \cap lost = {}
  /\ \A s \in Sessions :
       /\ InHand(s) \cap (unsent \cup inbox \cup lost) = {}
       /\ \A m \in InHand(s) : bill[m] = Nothing
       /\ \A r \in Sessions \ {s} : InHand(s) \cap InHand(r) = {}
       /\ \A m \in Booked(s) : Receiving!Reconciles(Content[m])
  /\ \A m \in Messages \ (unsent \cup inbox \cup lost) :
       \/ \E s \in Sessions : m \in InHand(s)
       \/ bill[m] = Receiving!Bill(Content[m]) /\ Receiving!Reconciles(Content[m])

OneEach ==
  /\ \A s \in Sessions : \A r \in Sessions \ {s} : Creates(s) \cap Creates(r) \subseteq raced
  /\ \A s \in Sessions : \A v \in Creates(s) : vendors[v] > 0 => v \in raced
  /\ \A v \in Receiving!Suppliers \ (raced \ Registered) : vendors[v] <= 1

ReceivingInv == ReceivingTypes /\ Placed /\ OneEach

\* One session's batch changes.
LEMMA BatchChanges ==
  ASSUME ReceivingTypes, NEW s \in Sessions, NEW d \in Batches \cup {Nothing},
         batch' = [batch EXCEPT ![s] = d]
  PROVE  /\ batch' \in [Sessions -> Batches \cup {Nothing}]
         /\ \A r \in Sessions \ {s} : /\ InHand(r)' = InHand(r) /\ Booked(r)' = Booked(r)
                                      /\ Creates(r)' = Creates(r)
         /\ d = Nothing => InHand(s)' = {} /\ Booked(s)' = {} /\ Creates(s)' = {}
         /\ d # Nothing => /\ InHand(s)' = d.taken /\ Booked(s)' = d.taken \ d.todo
                           /\ Creates(s)' = d.created
<1>1. /\ batch' \in [Sessions -> Batches \cup {Nothing}]
      /\ batch'[s] = d /\ \A r \in Sessions \ {s} : batch'[r] = batch[r]
  BY DEF ReceivingTypes
<1>2. QED
  BY <1>1 DEF InHand, Booked, Creates

LEMMA ReceivingKept ==
  ReceivingInv /\ [Receiving!Next]_receivingVars => ReceivingInv'
<1> SUFFICES ASSUME ReceivingInv, [Receiving!Next]_receivingVars PROVE ReceivingInv'
  OBVIOUS
<1>1. ReceivingTypes /\ Placed /\ OneEach
  BY DEF ReceivingInv
<1>2. ASSUME NEW m \in Messages, Receiving!Sends(m) PROVE ReceivingInv'
  <2>1. /\ m \in unsent /\ unsent' = unsent \ {m} /\ inbox' = inbox \cup {m}
        /\ UNCHANGED <<bill, vendors, batch, lost, raced>>
    BY <1>2 DEF Receiving!Sends
  <2>2. \A s \in Sessions : /\ InHand(s)' = InHand(s) /\ Booked(s)' = Booked(s)
                            /\ Creates(s)' = Creates(s)
    BY <2>1 DEF InHand, Booked, Creates
  <2>3. unsent' \cup inbox' = unsent \cup inbox
    BY <2>1
  <2>4. ReceivingTypes'
    BY <1>1, <2>1 DEF ReceivingTypes
  <2>5. Placed'
    BY <1>1, <2>1, <2>2, <2>3 DEF Placed
  <2>6. OneEach'
    BY <1>1, <2>1, <2>2 DEF OneEach
  <2>7. QED
    BY <2>4, <2>5, <2>6 DEF ReceivingInv
<1>3. ASSUME NEW s \in Sessions, Receiving!Receives(s) PROVE ReceivingInv'
  <2> DEFINE d == [taken |-> inbox, todo |-> inbox, created |-> {}]
  <2>1. /\ batch[s] = Nothing /\ batch' = [batch EXCEPT ![s] = d] /\ inbox' = {}
        /\ UNCHANGED <<unsent, bill, vendors, lost, raced>>
    BY <1>3 DEF Receiving!Receives
  <2>2. d \in Batches /\ d # Nothing
    BY <1>1, ReceivingAssumption DEF Batches, ReceivingTypes
  <2>3. /\ batch' \in [Sessions -> Batches \cup {Nothing}]
        /\ \A r \in Sessions \ {s} : /\ InHand(r)' = InHand(r) /\ Booked(r)' = Booked(r)
                                     /\ Creates(r)' = Creates(r)
        /\ InHand(s)' = inbox /\ Booked(s)' = {} /\ Creates(s)' = {}
    <3>1. d.taken = inbox /\ d.taken \ d.todo = {} /\ d.created = {}
      OBVIOUS
    <3> HIDE DEF d
    <3>2. QED
      BY <1>1, <2>1, <2>2, <3>1, BatchChanges
  <2>4. InHand(s) = {}
    BY <2>1 DEF InHand
  <2>5. ReceivingTypes'
    BY <1>1, <2>1, <2>3 DEF ReceivingTypes
  <2>6. Placed'
    BY <1>1, <2>1, <2>3, <2>4 DEF Placed
  <2>7. OneEach'
    BY <1>1, <2>1, <2>3 DEF OneEach
  <2>8. QED
    BY <2>5, <2>6, <2>7 DEF ReceivingInv
<1>4. ASSUME NEW s \in Sessions, NEW m \in Messages, Receiving!Books(s, m) PROVE ReceivingInv'
  <2> DEFINE v == Content[m].supplier
             known == vendors[v] > 0 \/ v \in batch[s].created
  <2>1. /\ batch[s] # Nothing /\ m \in batch[s].todo /\ Receiving!Reconciles(Content[m])
        /\ batch' = [batch EXCEPT ![s].todo = @ \ {m},
                                  ![s].created = IF known THEN @ ELSE @ \cup {v}]
        /\ raced' = IF ~known /\ \E r \in Sessions \ {s} :
                                   batch[r] # Nothing /\ v \in batch[r].created
                      THEN raced \cup {v} ELSE raced
        /\ UNCHANGED <<unsent, inbox, bill, vendors, lost>>
    BY <1>4 DEF Receiving!Books
  <2>2. PICK c \in Batches : c = batch[s] /\ c # Nothing
    BY <1>1, <2>1 DEF ReceivingTypes
  <2>3. v \in Receiving!Suppliers
    BY DEF Receiving!Suppliers
  <2> DEFINE d == [taken |-> c.taken, todo |-> c.todo \ {m},
                   created |-> IF known THEN c.created ELSE c.created \cup {v}]
  <2>4. batch' = [batch EXCEPT ![s] = d]
    <3>1. batch'[s] = d
      BY <1>1, <2>1, <2>2 DEF ReceivingTypes, Batches
    <3>2. \A r \in Sessions \ {s} : batch'[r] = batch[r]
      BY <1>1, <2>1 DEF ReceivingTypes
    <3>3. DOMAIN batch' = Sessions /\ DOMAIN batch = Sessions
      BY <1>1, <2>1 DEF ReceivingTypes
    <3> HIDE DEF d
    <3>4. QED
      BY <1>1, <2>1, <3>1, <3>2, <3>3 DEF ReceivingTypes
  <2>5. d \in Batches /\ d # Nothing
    <3>1. d \in Batches
      BY <2>3, <2>2 DEF Batches
    <3>2. QED
      BY <3>1, ReceivingAssumption DEF Batches
  <2>6. /\ batch' \in [Sessions -> Batches \cup {Nothing}]
        /\ \A r \in Sessions \ {s} : /\ InHand(r)' = InHand(r) /\ Booked(r)' = Booked(r)
                                     /\ Creates(r)' = Creates(r)
        /\ InHand(s)' = d.taken /\ Booked(s)' = d.taken \ d.todo /\ Creates(s)' = d.created
    <3> HIDE DEF d
    <3>1. QED
      BY <1>1, <2>4, <2>5, BatchChanges
  <2>7. /\ InHand(s) = c.taken /\ Booked(s) = c.taken \ c.todo /\ Creates(s) = c.created
    BY <2>2 DEF InHand, Booked, Creates
  <2>8. /\ d.taken = c.taken /\ d.taken \ d.todo \subseteq (c.taken \ c.todo) \cup {m}
        /\ d.created \subseteq c.created \cup {v} /\ (known => d.created = c.created)
    OBVIOUS
  <2>9. known <=> vendors[v] > 0 \/ v \in Creates(s)
    BY <2>2, <2>7
  <2>10. ~known /\ (\E r \in Sessions \ {s} : v \in Creates(r)) => v \in raced'
    BY <2>1 DEF Creates
  <2>11. raced \subseteq raced' /\ raced' \subseteq raced \cup {v}
    BY <2>1
  <2>12. ReceivingTypes'
    BY <1>1, <2>1, <2>6 DEF ReceivingTypes
  <2> HIDE DEF d, known
  <2>13. Placed'
    BY <1>1, <2>1, <2>6, <2>7, <2>8 DEF Placed
  <2>14. OneEach'
    BY <1>1, <2>1, <2>6, <2>7, <2>8, <2>9, <2>10, <2>11 DEF OneEach
  <2>15. QED
    BY <2>12, <2>13, <2>14 DEF ReceivingInv
<1>5. ASSUME NEW s \in Sessions, Receiving!Commits(s) PROVE ReceivingInv'
  <2>1. /\ batch[s] # Nothing /\ batch[s].todo = {}
        /\ \A v \in batch[s].created \cap Registered : vendors[v] = 0
        /\ bill' = [m \in Messages |->
             IF m \in batch[s].taken THEN Receiving!Bill(Content[m]) ELSE bill[m]]
        /\ vendors' = [v \in Receiving!Suppliers |->
             IF v \in batch[s].created THEN vendors[v] + 1 ELSE vendors[v]]
        /\ batch' = [batch EXCEPT ![s] = Nothing]
        /\ UNCHANGED <<unsent, inbox, lost, raced>>
    BY <1>5 DEF Receiving!Commits
  <2>2. /\ InHand(s) = batch[s].taken /\ Booked(s) = InHand(s) /\ Creates(s) = batch[s].created
    BY <2>1 DEF InHand, Booked, Creates
  <2>3. /\ batch' \in [Sessions -> Batches \cup {Nothing}]
        /\ \A r \in Sessions \ {s} : /\ InHand(r)' = InHand(r) /\ Booked(r)' = Booked(r)
                                     /\ Creates(r)' = Creates(r)
        /\ InHand(s)' = {} /\ Booked(s)' = {} /\ Creates(s)' = {}
    BY <1>1, <2>1, BatchChanges
  <2>4. /\ \A m \in Messages \ InHand(s) : bill'[m] = bill[m]
        /\ \A m \in InHand(s) \cap Messages : bill'[m] = Receiving!Bill(Content[m])
        /\ DOMAIN bill' = Messages
    BY <2>1, <2>2
  <2>5. /\ vendors' \in [Receiving!Suppliers -> Nat]
        /\ \A v \in Receiving!Suppliers : vendors'[v] = IF v \in Creates(s) THEN vendors[v] + 1
                                                        ELSE vendors[v]
    BY <1>1, <2>1, <2>2 DEF ReceivingTypes
  <2>6. ReceivingTypes'
    BY <1>1, <2>1, <2>3, <2>4, <2>5 DEF ReceivingTypes
  <2>7. Placed'
    <3>1. InHand(s) \subseteq Messages
      BY <1>1, <2>1 DEF InHand, ReceivingTypes, Batches
    <3>2. \A m \in unsent \cup inbox \cup lost : bill'[m] = Nothing
      BY <1>1, <2>4 DEF Placed, ReceivingTypes
    <3>3. ASSUME NEW r \in Sessions \ {s}, NEW m \in InHand(r)' PROVE bill'[m] = Nothing
      <4>1. m \in InHand(r) /\ m \notin InHand(s) /\ m \in Messages
        BY <1>1, <2>3, <3>3 DEF Placed, InHand, ReceivingTypes, Batches
      <4>2. QED
        BY <1>1, <2>4, <4>1 DEF Placed
    <3>4. ASSUME NEW m \in Messages \ (unsent \cup inbox \cup lost)
          PROVE  \/ \E r \in Sessions : m \in InHand(r)'
                 \/ bill'[m] = Receiving!Bill(Content[m]) /\ Receiving!Reconciles(Content[m])
      <4>1. CASE m \in InHand(s)
        BY <1>1, <2>2, <2>4, <4>1 DEF Placed
      <4>2. CASE m \notin InHand(s)
        BY <1>1, <2>3, <2>4, <4>2 DEF Placed
      <4>3. QED
        BY <4>1, <4>2
    <3>5. QED
      BY <1>1, <2>1, <2>3, <3>2, <3>3, <3>4 DEF Placed
  <2>8. OneEach'
    <3>1. \A r \in Sessions : Creates(r) \subseteq Receiving!Suppliers
      BY <1>1 DEF Creates, ReceivingTypes, Batches
    <3>2. \A v \in Receiving!Suppliers : vendors[v] \in Nat
      BY <1>1 DEF ReceivingTypes
    <3>3. ASSUME NEW r \in Sessions \ {s}, NEW v \in Creates(r), vendors'[v] > 0
          PROVE  v \in raced
      <4>1. CASE v \in Creates(s)
        BY <1>1, <4>1 DEF OneEach
      <4>2. CASE v \notin Creates(s)
        BY <1>1, <2>5, <3>1, <3>3, <4>2 DEF OneEach
      <4>3. QED
        BY <4>1, <4>2
    <3>4. ASSUME NEW v \in Receiving!Suppliers \ (raced \ Registered) PROVE vendors'[v] <= 1
      <4>1. CASE v \in Creates(s)
        <5>1. vendors[v] = 0
          BY <1>1, <2>1, <2>2, <3>2, <4>1 DEF OneEach
        <5>2. QED
          BY <2>5, <4>1, <5>1
      <4>2. CASE v \notin Creates(s)
        BY <1>1, <2>5, <4>2 DEF OneEach
      <4>3. QED
        BY <4>1, <4>2
    <3>5. QED
      BY <1>1, <2>1, <2>3, <3>3, <3>4 DEF OneEach
  <2>9. QED
    BY <2>6, <2>7, <2>8 DEF ReceivingInv
<1>6. ASSUME NEW s \in Sessions, Receiving!RollsBack(s) PROVE ReceivingInv'
  <2>1. /\ batch[s] # Nothing /\ lost' = lost \cup batch[s].taken
        /\ batch' = [batch EXCEPT ![s] = Nothing]
        /\ UNCHANGED <<unsent, inbox, bill, vendors, raced>>
    BY <1>6 DEF Receiving!RollsBack
  <2>2. InHand(s) = batch[s].taken
    BY <2>1 DEF InHand
  <2>3. /\ batch' \in [Sessions -> Batches \cup {Nothing}]
        /\ \A r \in Sessions \ {s} : /\ InHand(r)' = InHand(r) /\ Booked(r)' = Booked(r)
                                     /\ Creates(r)' = Creates(r)
        /\ InHand(s)' = {} /\ Booked(s)' = {} /\ Creates(s)' = {}
    BY <1>1, <2>1, BatchChanges
  <2>4. ReceivingTypes'
    <3>1. batch[s].taken \subseteq Messages
      BY <1>1, <2>1 DEF ReceivingTypes, Batches
    <3>2. QED
      BY <1>1, <2>1, <2>3, <3>1 DEF ReceivingTypes
  <2>5. Placed'
    BY <1>1, <2>1, <2>2, <2>3 DEF Placed
  <2>6. OneEach'
    BY <1>1, <2>1, <2>3 DEF OneEach
  <2>7. QED
    BY <2>4, <2>5, <2>6 DEF ReceivingInv
<1>7. CASE UNCHANGED receivingVars
  <2>1. UNCHANGED <<unsent, inbox, bill, vendors, batch, lost, raced>>
    BY <1>7 DEF receivingVars
  <2>2. \A s \in Sessions : /\ InHand(s)' = InHand(s) /\ Booked(s)' = Booked(s)
                            /\ Creates(s)' = Creates(s)
    BY <2>1 DEF InHand, Booked, Creates
  <2>3. QED
    BY <1>1, <2>1, <2>2 DEF ReceivingInv, ReceivingTypes, Placed, OneEach
<1>8. QED
  BY <1>2, <1>3, <1>4, <1>5, <1>6, <1>7 DEF Receiving!Next

(* What comes in is booked (receiveInboundInvoices,                         *)
(* reconciledLineVatCents, resolveOrCreateVendor): for any messages, lines  *)
(* and suppliers, and any number of batches at once.                        *)
THEOREM InboundIsBooked == Spec => []InboundBooked
<1>1. Init => ReceivingInv
  <2> SUFFICES ASSUME Receiving!Init PROVE ReceivingInv
    BY DEF Init
  <2>1. \A s \in Sessions : batch[s] = Nothing
    BY DEF Receiving!Init
  <2>2. \A s \in Sessions : InHand(s) = {} /\ Booked(s) = {} /\ Creates(s) = {}
    BY <2>1 DEF InHand, Booked, Creates
  <2>3. ReceivingTypes
    BY DEF Receiving!Init, ReceivingTypes
  <2>4. Placed /\ OneEach
    BY <2>2 DEF Receiving!Init, Placed, OneEach
  <2>5. QED
    BY <2>3, <2>4 DEF ReceivingInv
<1>2. ReceivingInv /\ [Next]_vars => ReceivingInv'
  BY StepsApart, ReceivingKept
<1>3. ReceivingInv => InboundBooked
  <2> SUFFICES ASSUME ReceivingInv PROVE Receiving!InboundBooked
    BY DEF InboundBooked
  <2>1. ASSUME NEW m \in Messages \ (unsent \cup inbox \cup lost),
               ~ \E s \in Sessions : batch[s] # Nothing /\ m \in batch[s].taken
        PROVE  /\ bill[m] # Nothing
               /\ bill[m].grand = Content[m].grand
               /\ Receiving!sumCents([i \in DOMAIN bill[m].lines |->
                    IF bill[m].lines[i].cat = "S" THEN bill[m].lines[i].vat ELSE 0])
                    = Content[m].vat
    <3>1. bill[m] = Receiving!Bill(Content[m]) /\ Receiving!Reconciles(Content[m])
      BY <2>1 DEF ReceivingInv, Placed, InHand
    <3>2. QED
      BY <3>1, VatReconciled, ReceivingAssumption
  <2>2. \A m \in lost : bill[m] = Nothing
    BY DEF ReceivingInv, Placed
  <2>3. \A v \in Receiving!Suppliers \ (raced \ Registered) : vendors[v] <= 1
    BY DEF ReceivingInv, OneEach
  <2>4. QED
    BY <2>1, <2>2, <2>3 DEF Receiving!InboundBooked
<1>4. QED
  BY <1>1, <1>2, <1>3, PTL DEF Spec

-----------------------------------------------------------------------------
(***************************************************************************)
(* Reminders: first, the stage reached and the fee accrued only grow.      *)
(***************************************************************************)
Reached(st, i, d) ==
  {0} \cup {l \in DOMAIN st : Due[i] < d /\ d - Due[i] >= st[l]}

LEMMA ReachedIsGreatest ==
  ASSUME NEW st \in Seq(Nat), NEW i \in Invoices, NEW d \in Int
  PROVE  /\ Reminders!reached(st, i, d) \in Reached(st, i, d)
         /\ Reminders!reached(st, i, d) \in Nat
         /\ \A l \in Reached(st, i, d) : l <= Reminders!reached(st, i, d)
<1> DEFINE R == Reached(st, i, d)
<1>1. R \subseteq {0} \cup 1..Len(st) /\ R # {} /\ Len(st) \in Nat
  BY DEF Reached
<1>2. IsFiniteSet(R) /\ R \subseteq Nat
  <2>1. \A n \in Nat : IsFiniteSet(0..n) /\ {0} \cup 1..n \subseteq 0..n /\ 0..n \subseteq Nat
    BY FS_Interval
  <2>2. R \subseteq 0..Len(st) /\ IsFiniteSet(0..Len(st)) /\ 0..Len(st) \subseteq Nat
    <3> HIDE DEF R
    <3>1. QED
      BY <1>1, <2>1
  <2> HIDE DEF R
  <2>3. QED
    BY <2>2, FS_Subset
<1>3. Reminders!reached(st, i, d) = CHOOSE x \in R : \A y \in R : x >= y
  BY DEF Reminders!reached, Reminders!Max, Reached
<1> HIDE DEF R
<1>4. \E x \in R : \A y \in R : x >= y
  <2>1. PICK g \in R : \A x \in R : x <= g
    <3>1. R \subseteq Int /\ R # {} /\ IsFiniteSet(R)
      BY <1>1, <1>2
    <3>2. QED
      BY <3>1, GreatestExists
  <2>2. QED
    BY <1>2, <2>1
<1>5. /\ Reminders!reached(st, i, d) \in R
      /\ \A y \in R : Reminders!reached(st, i, d) >= y
  BY <1>3, <1>4
<1>6. QED
  BY <1>2, <1>5 DEF R

LEMMA ReachedGrows ==
  ASSUME NEW st \in Seq(Nat), NEW i \in Invoices, NEW d \in Int, NEW e \in Int, d <= e
  PROVE  Reminders!reached(st, i, d) <= Reminders!reached(st, i, e)
<1>1. Reached(st, i, d) \subseteq Reached(st, i, e)
  <2>1. Due[i] \in Int /\ \A l \in DOMAIN st : st[l] \in Nat
    BY RemindersAssumption
  <2>2. QED
    BY <2>1 DEF Reached
<1>2. QED
  BY <1>1, ReachedIsGreatest

LEMMA FeeGrows ==
  ASSUME NEW i \in Invoices, NEW d \in Int, NEW e \in Int, d <= e
  PROVE  Reminders!accruedLateFeeCents(i, d) <= Reminders!accruedLateFeeCents(i, e)
<1> DEFINE k == Open[i] * AnnualBps
<1>1. k \in Nat /\ FlatCents \in Nat /\ AnnualBps \in Nat /\ Open[i] \in Nat
  BY RemindersAssumption
<1>2. \A x \in Int : Open[i] * AnnualBps * x = k * x
  OBVIOUS
<1> HIDE DEF k
<1>3. k * d <= k * e /\ k * d \in Int /\ k * e \in Int
  <2>1. \A a \in Nat, b \in Int, c \in Int : b <= c => a * b <= a * c
    OBVIOUS
  <2>2. QED
    BY <1>1, <2>1
<1>4. (k * d + 1825000) \div 3650000 <= (k * e + 1825000) \div 3650000
  BY <1>3, SMT
<1>5. e > 0 => (k * e + 1825000) \div 3650000 >= 0
  <2>1. e > 0 => k * e >= 0
    BY <1>1
  <2>2. QED
    BY <1>3, <2>1, SMT
<1>6. (k * d + 1825000) \div 3650000 \in Int /\ (k * e + 1825000) \div 3650000 \in Int
  BY <1>3, SMT
<1>7. QED
  BY <1>1, <1>2, <1>4, <1>5, <1>6, SMT DEF Reminders!accruedLateFeeCents

(***************************************************************************)
(* What has been prompted, and what the runs in hand have read: while the  *)
(* stages stay as they are, the level is the one reached on the run's day. *)
(***************************************************************************)
Events == [level : Nat, asOf : Int, fee : Int]
ReadLevels == UNION {[D -> Nat] : D \in SUBSET Invoices}
RunReads == [asOf : Int, enabled : BOOLEAN, level : ReadLevels]
HandlerRuns == [job : Jobs, phase : {"read", "committed"}, read : RunReads]

Distinct(p) == \A a, b \in DOMAIN p : a # b => p[a].level # p[b].level

FeesAccrued(p, i) ==
  \A a \in DOMAIN p : p[a].fee = Reminders!accruedLateFeeCents(i, p[a].asOf - Due[i])

AtReached(p, i, st) == \A a \in DOMAIN p : p[a].level = Reminders!reached(st, i, p[a].asOf)

ReadAtReached(r, st) ==
  \A i \in DOMAIN r.level : r.level[i] \in {0, Reminders!reached(st, i, r.asOf)}

RemindersInv ==
  /\ stages \in StageSets /\ restaged \in BOOLEAN
  /\ run \in [Workers -> HandlerRuns \cup {Nothing}]
  /\ manual \in [Users -> RunReads \cup {Nothing}]
  /\ prompts \in [Invoices -> Seq(Events)]
  /\ \A i \in Invoices : /\ Distinct(prompts[i]) /\ FeesAccrued(prompts[i], i)
                         /\ ~restaged => AtReached(prompts[i], i, stages)
  /\ ~restaged =>
       /\ \A w \in Workers : run[w] # Nothing => ReadAtReached(run[w].read, stages)
       /\ \A u \in Users : manual[u] # Nothing => ReadAtReached(manual[u], stages)

\* A run reads what it should.
LEMMA ReadsFit ==
  ASSUME stages \in StageSets, NEW d \in Int
  PROVE  Reminders!Reads(d) \in RunReads /\ ReadAtReached(Reminders!Reads(d), stages)
<1> DEFINE D == Invoices \ paid
           level == [i \in D |-> IF policy = "off" THEN 0
                                 ELSE Reminders!reached(stages, i, d)]
<1>1. Reminders!Reads(d) = [asOf |-> d, enabled |-> (policy # "off"), level |-> level]
  BY DEF Reminders!Reads
<1>2. stages \in Seq(Nat)
  BY RemindersAssumption
<1>3. \A i \in D : level[i] \in Nat /\ level[i] \in {0, Reminders!reached(stages, i, d)}
  BY <1>2, ReachedIsGreatest
<1>4. level \in ReadLevels /\ DOMAIN level = D
  <2>1. level \in [D -> Nat] /\ D \in SUBSET Invoices
    <3>1. D \in SUBSET Invoices /\ level = [i \in D |-> level[i]]
      OBVIOUS
    <3> HIDE DEF level, D
    <3>2. QED
      BY <1>3, <3>1
  <2> HIDE DEF level, D
  <2>2. QED
    BY <2>1 DEF ReadLevels
<1>5. (policy # "off") \in BOOLEAN
  OBVIOUS
<1> HIDE DEF level, D
<1>6. QED
  BY <1>1, <1>3, <1>4, <1>5 DEF RunReads, ReadAtReached

\* What Claims adds to an invoice's events.
LEMMA ClaimsAdd ==
  ASSUME prompts \in [Invoices -> Seq(Events)],
         \A i \in Invoices : Distinct(prompts[i]) /\ FeesAccrued(prompts[i], i),
         NEW r \in RunReads
  PROVE  /\ Reminders!Claims(r) \in [Invoices -> Seq(Events)]
         /\ \A i \in Invoices :
              /\ Distinct(Reminders!Claims(r)[i]) /\ FeesAccrued(Reminders!Claims(r)[i], i)
              /\ \A st : AtReached(prompts[i], i, st) /\ ReadAtReached(r, st) =>
                   AtReached(Reminders!Claims(r)[i], i, st)
<1> DEFINE q == Reminders!Claims(r)
<1>1. ASSUME NEW i \in Invoices
      PROVE  /\ q[i] \in Seq(Events) /\ Distinct(q[i]) /\ FeesAccrued(q[i], i)
             /\ \A st : AtReached(prompts[i], i, st) /\ ReadAtReached(r, st) =>
                  AtReached(q[i], i, st)
  <2> DEFINE p == prompts[i]
             e == [level |-> r.level[i], asOf |-> r.asOf,
                   fee |-> Reminders!accruedLateFeeCents(i, r.asOf - Due[i])]
             new == /\ i \in DOMAIN r.level /\ r.level[i] > 0
                    /\ r.level[i] \notin Reminders!Levels(i)
  <2>1. q[i] = IF new THEN Append(p, e) ELSE p
    BY DEF Reminders!Claims
  <2>2. p \in Seq(Events) /\ Distinct(p) /\ FeesAccrued(p, i)
    OBVIOUS
  <2>3. CASE ~new
    <3> HIDE DEF q, new
    <3>1. QED
      BY <2>1, <2>2, <2>3
  <2>4. CASE new
    <3>1. r.level[i] \in Nat /\ r.level[i] # 0 /\ r.asOf \in Int
      BY <2>4 DEF RunReads, ReadLevels
    <3>2. Reminders!accruedLateFeeCents(i, r.asOf - Due[i]) \in Int
      <4>1. Due[i] \in Int /\ Open[i] \in Nat /\ AnnualBps \in Nat /\ FlatCents \in Nat
        BY RemindersAssumption
      <4>2. PICK d \in Int : d = r.asOf - Due[i]
        BY <3>1, <4>1
      <4>3. (Open[i] * AnnualBps * d + 1825000) \div 3650000 \in Int
        BY <4>1, SMT
      <4>4. Reminders!accruedLateFeeCents(i, d) \in Int
        <5>1. \A x \in Int : FlatCents + x \in Int
          BY <4>1
        <5>2. QED
          BY <4>3, <5>1, SMT DEF Reminders!accruedLateFeeCents
      <4>5. QED
        BY <4>2, <4>4
    <3>3. e \in Events
      BY <3>1, <3>2 DEF Events
    <3>4. \A a \in DOMAIN p : p[a].level # e.level
      BY <2>4 DEF Reminders!Levels
    <3>5. q[i] = Append(p, e)
      BY <2>1, <2>4
    <3>6. /\ e.level = r.level[i] /\ e.asOf = r.asOf
          /\ e.fee = Reminders!accruedLateFeeCents(i, e.asOf - Due[i])
      OBVIOUS
    <3>7. \A st : ReadAtReached(r, st) => r.level[i] = Reminders!reached(st, i, r.asOf)
      BY <2>4, <3>1 DEF ReadAtReached
    <3> HIDE DEF p, e, q, new
    <3>8. /\ q[i] \in Seq(Events) /\ DOMAIN p = 1..Len(p) /\ Len(p) \in Nat
          /\ DOMAIN q[i] = 1..(Len(p) + 1)
          /\ q[i][Len(p) + 1] = e /\ \A a \in 1..Len(p) : q[i][a] = p[a]
      BY <2>2, <3>3, <3>5
    <3>9. \A a \in DOMAIN q[i] : a \in DOMAIN p \/ (a = Len(p) + 1 /\ a \notin DOMAIN p)
      BY <3>8
    <3>10. Distinct(q[i])
      BY <2>2, <3>4, <3>8, <3>9 DEF Distinct
    <3>11. FeesAccrued(q[i], i)
      BY <2>2, <3>6, <3>8, <3>9 DEF FeesAccrued
    <3>12. ASSUME NEW st, AtReached(p, i, st), ReadAtReached(r, st) PROVE AtReached(q[i], i, st)
      BY <3>6, <3>7, <3>8, <3>9, <3>12 DEF AtReached
    <3>13. QED
      BY <3>8, <3>10, <3>11, <3>12 DEF p
  <2>5. QED
    BY <2>3, <2>4
<1>2. q \in [Invoices -> Seq(Events)]
  <2>1. q = [i \in Invoices |-> q[i]]
    BY DEF Reminders!Claims
  <2> HIDE DEF q
  <2>2. QED
    BY <1>1, <2>1
<1>3. QED
  BY <1>1, <1>2

LEMMA RemindersKept ==
  RemindersInv /\ [Reminders!Next]_remindersVars => RemindersInv'
<1> SUFFICES ASSUME RemindersInv, [Reminders!Next]_remindersVars PROVE RemindersInv'
  OBVIOUS
<1> DEFINE Runs == [Workers -> HandlerRuns \cup {Nothing}]
           Manuals == [Users -> RunReads \cup {Nothing}]
           Prompted(pr, re, st) ==
             /\ pr \in [Invoices -> Seq(Events)]
             /\ \A i \in Invoices : /\ Distinct(pr[i]) /\ FeesAccrued(pr[i], i)
                                    /\ ~re => AtReached(pr[i], i, st)
           RunFits(c, st) == c # Nothing => ReadAtReached(c.read, st)
           ManualFits(c, st) == c # Nothing => ReadAtReached(c, st)
<1>1. /\ stages \in StageSets /\ restaged \in BOOLEAN /\ run \in Runs /\ manual \in Manuals
      /\ Prompted(prompts, restaged, stages)
      /\ ~restaged => /\ \A w \in Workers : RunFits(run[w], stages)
                      /\ \A u \in Users : ManualFits(manual[u], stages)
  BY DEF RemindersInv
<1>2. SUFFICES
        /\ stages' \in StageSets /\ restaged' \in BOOLEAN /\ run' \in Runs /\ manual' \in Manuals
        /\ Prompted(prompts', restaged', stages')
        /\ ~restaged' => /\ \A w \in Workers : RunFits(run'[w], stages')
                         /\ \A u \in Users : ManualFits(manual'[u], stages')
  BY DEF RemindersInv
<1> DEFINE Kept == /\ stages' \in StageSets /\ restaged' \in BOOLEAN
                   /\ run' \in Runs /\ manual' \in Manuals
                   /\ Prompted(prompts', restaged', stages')
                   /\ ~restaged' => /\ \A w \in Workers : RunFits(run'[w], stages')
                                    /\ \A u \in Users : ManualFits(manual'[u], stages')
\* A handler's run begins, ends or goes on.
<1>3. ASSUME NEW w \in Workers, NEW c \in HandlerRuns \cup {Nothing},
             run' = [run EXCEPT ![w] = c], ~restaged => RunFits(c, stages)
      PROVE  /\ run' \in Runs
             /\ ~restaged => \A v \in Workers : RunFits(run'[v], stages)
  <2>1. run' \in Runs /\ run'[w] = c /\ \A v \in Workers \ {w} : run'[v] = run[v]
    BY <1>1, <1>3
  <2> HIDE DEF RunFits
  <2>2. QED
    BY <1>1, <1>3, <2>1
\* A run by hand does.
<1>4. ASSUME NEW u \in Users, NEW c \in RunReads \cup {Nothing},
             manual' = [manual EXCEPT ![u] = c], ~restaged => ManualFits(c, stages)
      PROVE  /\ manual' \in Manuals
             /\ ~restaged => \A v \in Users : ManualFits(manual'[v], stages)
  <2>1. manual' \in Manuals /\ manual'[u] = c /\ \A v \in Users \ {u} : manual'[v] = manual[v]
    BY <1>1, <1>4
  <2> HIDE DEF ManualFits
  <2>2. QED
    BY <1>1, <1>4, <2>1
\* A run claims what it has read.
<1>5. ASSUME NEW r \in RunReads, ~restaged => ReadAtReached(r, stages)
      PROVE  Prompted(Reminders!Claims(r), restaged, stages)
  BY <1>1, <1>5, ClaimsAdd
<1>6. ASSUME NEW w \in Workers, Reminders!HandlerReads(w) PROVE Kept
  <2>1. PICK j \in Jobs :
          run' = [run EXCEPT ![w] = [job |-> j, phase |-> "read", read |-> Reminders!Reads(j)]]
    BY <1>6 DEF Reminders!HandlerReads
  <2>2. UNCHANGED <<stages, restaged, manual, prompts>>
    BY <1>6 DEF Reminders!HandlerReads, Reminders!OthersKeep
  <2>3. Reminders!Reads(j) \in RunReads /\ ReadAtReached(Reminders!Reads(j), stages)
    BY <1>1, ReadsFit, RemindersAssumption
  <2> DEFINE c == [job |-> j, phase |-> "read", read |-> Reminders!Reads(j)]
  <2>4. c \in HandlerRuns /\ RunFits(c, stages)
    BY <2>3 DEF HandlerRuns
  <2> HIDE DEF c, Prompted, RunFits, ManualFits, Runs, Manuals
  <2>5. run' \in Runs /\ (~restaged => \A v \in Workers : RunFits(run'[v], stages))
    BY <1>3, <2>1, <2>4 DEF c
  <2>6. QED
    BY <1>1, <2>2, <2>5
<1>7. ASSUME NEW w \in Workers, Reminders!HandlerCommits(w) PROVE Kept
  <2>1. run[w] \in HandlerRuns /\ run[w] # Nothing
    BY <1>1, <1>7 DEF Reminders!HandlerCommits, Reminders!InPhase
  <2>2. PICK r \in RunReads : r = run[w].read
    BY <2>1 DEF HandlerRuns
  <2>3. /\ prompts' = Reminders!Claims(r) /\ run' = [run EXCEPT ![w].phase = "committed"]
        /\ UNCHANGED <<stages, restaged, manual>>
    BY <1>7, <2>2 DEF Reminders!HandlerCommits, Reminders!OthersKeep
  <2> DEFINE c == [run[w] EXCEPT !.phase = "committed"]
  <2>4. c \in HandlerRuns /\ c.read = r /\ run' = [run EXCEPT ![w] = c]
    BY <2>1, <2>2, <2>3 DEF HandlerRuns
  <2>5. ~restaged => ReadAtReached(r, stages)
    BY <1>1, <2>1, <2>2
  <2>6. ~restaged => RunFits(c, stages)
    <3> HIDE DEF c
    <3>1. QED
      BY <2>4, <2>5
  <2> HIDE DEF c, Prompted, RunFits, ManualFits, Runs, Manuals
  <2>7. run' \in Runs /\ (~restaged => \A v \in Workers : RunFits(run'[v], stages))
    BY <1>3, <2>4, <2>6
  <2>8. Prompted(prompts', restaged, stages)
    BY <1>5, <2>3, <2>5
  <2>9. QED
    BY <1>1, <2>3, <2>7, <2>8
<1>8. ASSUME NEW w \in Workers,
             Reminders!Completes(w) \/ Reminders!Fails(w) \/ Reminders!Dies(w)
      PROVE  Kept
  <2>1. /\ run' = [run EXCEPT ![w] = Nothing]
        /\ UNCHANGED <<stages, restaged, manual, prompts>>
    BY <1>8 DEF Reminders!Completes, Reminders!Fails, Reminders!Dies, Reminders!OthersKeep
  <2>2. RunFits(Nothing, stages)
    OBVIOUS
  <2> HIDE DEF Prompted, RunFits, ManualFits, Runs, Manuals
  <2>3. run' \in Runs /\ (~restaged => \A v \in Workers : RunFits(run'[v], stages))
    BY <1>3, <2>1, <2>2
  <2>4. QED
    BY <1>1, <2>1, <2>3
<1>9. ASSUME NEW u \in Users, Reminders!ManualReads(u) PROVE Kept
  <2>1. PICK d \in Reminders!Days : manual' = [manual EXCEPT ![u] = Reminders!Reads(d)]
    BY <1>9 DEF Reminders!ManualReads
  <2>2. UNCHANGED <<stages, restaged, run, prompts>>
    BY <1>9 DEF Reminders!ManualReads
  <2>3. d \in Int
    BY DEF Reminders!Days
  <2>4. Reminders!Reads(d) \in RunReads /\ ReadAtReached(Reminders!Reads(d), stages)
    BY <1>1, <2>3, ReadsFit
  <2>5. ManualFits(Reminders!Reads(d), stages)
    BY <2>4
  <2> HIDE DEF Prompted, RunFits, ManualFits, Runs, Manuals
  <2>6. manual' \in Manuals /\ (~restaged => \A v \in Users : ManualFits(manual'[v], stages))
    BY <1>4, <2>1, <2>4, <2>5
  <2>7. QED
    BY <1>1, <2>2, <2>6
<1>10. ASSUME NEW u \in Users, Reminders!ManualCommits(u) PROVE Kept
  <2>1. PICK r \in RunReads : r = manual[u] /\ r # Nothing
    BY <1>1, <1>10 DEF Reminders!ManualCommits
  <2>2. /\ prompts' = Reminders!Claims(r) /\ manual' = [manual EXCEPT ![u] = Nothing]
        /\ UNCHANGED <<stages, restaged, run>>
    BY <1>10, <2>1 DEF Reminders!ManualCommits
  <2>3. ~restaged => ReadAtReached(r, stages)
    BY <1>1, <2>1
  <2>4. ManualFits(Nothing, stages)
    OBVIOUS
  <2> HIDE DEF Prompted, RunFits, ManualFits, Runs, Manuals
  <2>5. manual' \in Manuals /\ (~restaged => \A v \in Users : ManualFits(manual'[v], stages))
    BY <1>4, <2>2, <2>4
  <2>6. Prompted(prompts', restaged, stages)
    BY <1>5, <2>2, <2>3
  <2>7. QED
    BY <1>1, <2>2, <2>5, <2>6
<1>11. CASE Reminders!PutPolicy
  <2>1. /\ stages' \in StageSets /\ restaged' = (restaged \/ stages' # stages)
        /\ UNCHANGED <<run, manual, prompts>>
    BY <1>11 DEF Reminders!PutPolicy
  <2>2. restaged' \in BOOLEAN /\ (~restaged' => ~restaged /\ stages' = stages)
    BY <1>1, <2>1
  <2>3. Prompted(prompts, restaged', stages')
    BY <1>1, <2>2
  <2> HIDE DEF Prompted, RunFits, ManualFits, Runs, Manuals
  <2>4. QED
    BY <1>1, <2>1, <2>2, <2>3
<1>12. ASSUME \/ \E w \in Workers : Reminders!Claim(w)
              \/ Reminders!Reap \/ Reminders!NextDay \/ UNCHANGED remindersVars
              \/ \E i \in Invoices : Reminders!Paid(i)
       PROVE  Kept
  <2>1. UNCHANGED <<stages, restaged, run, manual, prompts>>
    BY <1>12 DEF Reminders!Claim, Reminders!Reap, Reminders!NextDay, Reminders!Paid,
      Reminders!dunningVars, remindersVars
  <2> HIDE DEF Prompted, RunFits, ManualFits, Runs, Manuals
  <2>2. QED
    BY <1>1, <2>1
<1> HIDE DEF Prompted, RunFits, ManualFits, Runs, Manuals
<1>13. QED
  BY <1>6, <1>7, <1>8, <1>9, <1>10, <1>11, <1>12 DEF Reminders!Next

(* Levels climb (runDunning): for any invoices, stages, fees, workers and   *)
(* users; however runs overlap, fail or are repeated.                       *)
THEOREM LevelsOnlyClimb == Spec => []LevelsClimb
<1>1. Init => RemindersInv
  <2> SUFFICES ASSUME Reminders!Init PROVE RemindersInv
    BY DEF Init
  <2>1. /\ stages \in StageSets /\ restaged = FALSE
        /\ run = [w \in Workers |-> Nothing] /\ manual = [u \in Users |-> Nothing]
        /\ prompts = [i \in Invoices |-> <<>>]
    BY DEF Reminders!Init
  <2>2. prompts \in [Invoices -> Seq(Events)] /\ \A i \in Invoices : DOMAIN prompts[i] = {}
    BY <2>1
  <2>3. QED
    BY <2>1, <2>2 DEF RemindersInv, Distinct, FeesAccrued, AtReached
<1>2. RemindersInv /\ [Next]_vars => RemindersInv'
  BY StepsApart, RemindersKept
<1>3. RemindersInv => LevelsClimb
  <2> SUFFICES ASSUME RemindersInv, NEW i \in Invoices,
                      NEW a \in DOMAIN prompts[i], NEW b \in DOMAIN prompts[i], a < b
               PROVE  LET p == prompts[i][a]
                          q == prompts[i][b]
                      IN  /\ p.level # q.level
                          /\ ~restaged /\ p.asOf <= q.asOf =>
                               p.level < q.level /\ p.fee <= q.fee
    BY DEF LevelsClimb, Reminders!LevelsClimb
  <2> DEFINE p == prompts[i][a]
             q == prompts[i][b]
  <2>1. p \in Events /\ q \in Events /\ a # b
    <3>1. prompts[i] \in Seq(Events) /\ a \in Int /\ b \in Int
      BY DEF RemindersInv
    <3>2. QED
      BY <3>1
  <2>2. p.level # q.level
    BY <2>1 DEF RemindersInv, Distinct
  <2>3. ASSUME ~restaged, p.asOf <= q.asOf PROVE p.level < q.level /\ p.fee <= q.fee
    <3>1. /\ p.level = Reminders!reached(stages, i, p.asOf)
          /\ q.level = Reminders!reached(stages, i, q.asOf)
          /\ p.fee = Reminders!accruedLateFeeCents(i, p.asOf - Due[i])
          /\ q.fee = Reminders!accruedLateFeeCents(i, q.asOf - Due[i])
      BY <2>3 DEF RemindersInv, AtReached, FeesAccrued
    <3>2. /\ p.asOf \in Int /\ q.asOf \in Int /\ Due[i] \in Int /\ stages \in Seq(Nat)
          /\ p.level \in Nat /\ q.level \in Nat
      BY <2>1, RemindersAssumption DEF Events, RemindersInv
    <3> HIDE DEF p, q
    <3>3. p.level <= q.level
      BY <2>3, <3>1, <3>2, ReachedGrows
    <3>4. p.asOf - Due[i] \in Int /\ q.asOf - Due[i] \in Int /\ p.asOf - Due[i] <= q.asOf - Due[i]
      BY <2>3, <3>2
    <3>5. p.fee <= q.fee
      BY <3>1, <3>4, FeeGrows
    <3>6. QED
      BY <2>2, <3>2, <3>3, <3>5
  <2>4. QED
    BY <2>2, <2>3
<1>4. QED
  BY <1>1, <1>2, <1>3, PTL DEF Spec
=============================================================================
