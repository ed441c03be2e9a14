-------------------------- MODULE MCBankMatching ---------------------------
(***************************************************************************)
(* A small instance of BankMatching, every amount the same: two debits     *)
(* compete for a pay run, a bill that is approved late and a claim, and a  *)
(* credit for an invoice.  Two pay runs may both pay the bill.             *)
(***************************************************************************)
EXTENDS BankMatching, TLC

CONSTANTS b1, k1, i1, r1, r2, d1, d2, x1, p1, p2, s1, s2

MCBills == {b1}
MCClaims == {k1}
MCInvoices == {i1}
MCLater == {b1}
MCRuns == {r1, r2}
MCDebits == {d1, d2}
MCTxns == MCDebits \cup {x1}
MCProps == {p1, p2}
MCSessions == {s1, s2}
MCWorth == [x \in Txns \cup Items |-> 1]
Alike == Permutations(MCDebits) \cup Permutations(MCRuns)
           \cup Permutations(MCProps) \cup Permutations(MCSessions)
=============================================================================
