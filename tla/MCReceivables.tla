--------------------------- MODULE MCReceivables ---------------------------
(***************************************************************************)
(* A small instance of Receivables: amounts of one and two cents against    *)
(* invoices of two and of three, so that settlements and credit notes are  *)
(* partial, exact and too large.                                           *)
(***************************************************************************)
EXTENDS Receivables, TLC

CONSTANTS i1, i2, n1, t1, s1, s2

MCInvoices == {i1, i2}
MCNotes == {n1}
MCBankTxns == {t1}
MCSessions == {s1, s2}
MCAmounts == 1..2
MCGrand == [i \in Invoices |-> IF i = i1 THEN 3 ELSE 2]
Alike == Permutations(MCSessions)
=============================================================================
