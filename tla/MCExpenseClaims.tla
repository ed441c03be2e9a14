-------------------------- MODULE MCExpenseClaims --------------------------
(***************************************************************************)
(* A small instance of ExpenseClaims.  A claim is submitted at most as     *)
(* often as there are proposals; totals 0 to 2 make empty claims, equal    *)
(* ones and edits that change the total.                                   *)
(***************************************************************************)
EXTENDS ExpenseClaims, TLC

CONSTANTS c1, c2, p1, p2, t1, s1, s2

MCClaims == {c1, c2}
MCProps == {p1, p2}
MCBankTxns == {t1}
MCSessions == {s1, s2}
MCTotals == 0..2
Alike == Permutations(MCClaims) \cup Permutations(MCProps) \cup Permutations(MCSessions)
=============================================================================
