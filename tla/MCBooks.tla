------------------------------ MODULE MCBooks -------------------------------
(* An invoice of two months and the note that corrects it, a bill with      *)
(* reverse-charge lines that round, a claim, and a captured document that   *)
(* does not add up.                                                         *)
EXTENDS Books, TLC

CONSTANTS invoice, note, bill, claim, capture, capital, s1, s2, buyer

Line(account, net, vat, rate, category, deductible) ==
  [account |-> account, net |-> net, vat |-> vat, rate |-> rate,
   category |-> category, deductible |-> deductible]

Spec_(kind, date, lines) ==
  [kind |-> kind, date |-> date, lines |-> lines, grand |-> 0,
   number |-> 0, customer |-> Nothing, corrects |-> Nothing]

MCDocSpec ==
     invoice :> [Spec_("invoice", 1,
                   <<Line("sales", 100, 21, 2100, "S", TRUE),
                     Line("sales", 60, 0, 0, "K", TRUE)>>)
                 EXCEPT !.number = 1, !.customer = buyer]
  @@ note    :> [Spec_("credit_note", 2,
                   <<Line("sales", 50, 0, 0, "K", TRUE),
                     Line("sales", 10, 2, 2100, "S", TRUE)>>)
                 EXCEPT !.corrects = 1]
  @@ bill    :> Spec_("bill", 1,
                   <<Line("expense", 50, 0, 2100, "AE", TRUE),
                     Line("fixed", 50, 0, 2100, "K", FALSE),
                     Line("expense", 100, 21, 2100, "S", TRUE)>>)
  @@ claim   :> Spec_("claim", 2,
                   <<Line("expense", 10, 2, 2100, "S", TRUE),
                     Line("expense", 10, 2, 2100, "S", FALSE)>>)
  @@ capture :> [Spec_("capture", 2, <<Line("expense", 10, 2, 2100, "S", TRUE)>>)
                 EXCEPT !.grand = 11]
  @@ capital :> Spec_("manual", 1,
                   <<Line("cash", 90, 0, 0, "O", TRUE),
                     Line("equity", -90, 0, 0, "O", TRUE)>>)

MCReported == {[from |-> 2, to |-> 2]}

MCRanges == {[from |-> 1, to |-> 1], [from |-> 2, to |-> 2]}

\* Bounds: one report at a time, since reports write nothing; statements
\* while no filing is kept; only filings that are final; one entry
\* that is a reversal or a second one, of the bill or the claim.
Bound ==
  /\ Cardinality({s \in Sessions : Reading(s)}') <= 1
  /\ filing' # Nothing => /\ filing # Nothing \/ filing'.final
                          /\ ~\E s \in Sessions : At(s, "statement")'
  /\ LET extra(d) == (journal[d].posted - 1) + journal[d].reversed
     IN  (\A d \in Docs : extra(d) <= IF d \in {bill, claim} THEN 1 ELSE 0)'
  /\ ~(\A d \in {bill, claim} : journal[d].posted + journal[d].reversed > 1)'

\* Bound: what a posting fell into, or a period was reopened under, is not
\* followed further: no property speaks of it.
Undisturbed ==
  /\ \A s \in Sessions : Reading(s) => ~call[s].disturbed
  /\ filing # Nothing => filing.final

Sym == Permutations(Sessions)

=============================================================================
