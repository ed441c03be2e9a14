---------------------------- MODULE MCApprovals -----------------------------
(***************************************************************************)
(* A small instance of Approvals: a bill, a credit note, a captured        *)
(* document, a recurring invoice and a task, decided by two sessions.      *)
(***************************************************************************)
EXTENDS Approvals, TLC

CONSTANTS b1, n1, d1, v1, t1, s1, s2

MCBills == {b1}
MCNotes == {n1}
MCCaptures == {d1}
MCRecurring == {v1}
MCTasks == {t1}
MCProps == {b1, n1, d1, v1, t1}
MCSessions == {s1, s2}
Alike == Permutations(MCSessions)
=============================================================================
