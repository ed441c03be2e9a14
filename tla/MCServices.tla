----------------------------- MODULE MCServices -----------------------------
(* A small instance of Services.                                            *)
EXTENDS Services, TLC

CONSTANTS s1, s2, w1, i1, a1, t1, m1, m2, m3, m4, v1, v2

\* One invoice due on the first day, three days, two changes of the policy
\* and one run by hand.
MCDue == i1 :> 1
MCOpen == i1 :> 100000
MCStages == {<<1>>, <<1, 2>>}

\* One account and a transaction over four days.
MCAccountOf == t1 :> a1
MCBookedOn == t1 :> 3

\* One invoice issued before a weekend, reported up to three times.
MCIssuedOn == i1 :> 4

\* Two lines whose VAT rounds down by a cent in all; a reverse charge beside a
\* charging line; and a total that does not reconcile.  One of the two
\* suppliers gives no registration number.
MCContent ==
  m1 :> [supplier |-> v1, net |-> 4, vat |-> 1, grand |-> 5,
         lines |-> <<[net |-> 2, rate |-> 2100, cat |-> "S"],
                     [net |-> 2, rate |-> 2100, cat |-> "S"]>>]
  @@ m2 :> [supplier |-> v2, net |-> 200, vat |-> 21, grand |-> 221,
            lines |-> <<[net |-> 100, rate |-> 2100, cat |-> "S"],
                        [net |-> 100, rate |-> 0, cat |-> "AE"]>>]
  @@ m3 :> [supplier |-> v1, net |-> 100, vat |-> 21, grand |-> 121,
            lines |-> <<[net |-> 100, rate |-> 2100, cat |-> "S"]>>]
  @@ m4 :> [supplier |-> v2, net |-> 100, vat |-> 21, grand |-> 120,
            lines |-> <<[net |-> 100, rate |-> 2100, cat |-> "S"]>>]

\* Bounds: a run by hand or a failure after a commit, not both; one session at
\* a time, and no more of a reset that was crossed.
Bound == runs + late <= 1 /\ Cardinality(live) <= 1 /\ ~crossed

=============================================================================
