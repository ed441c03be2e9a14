------------------------- MODULE MCRecurringBilling -------------------------
(***************************************************************************)
(* Small instances of RecurringBilling.  The keys are the run dates.       *)
(***************************************************************************)
EXTENDS RecurringBilling

CONSTANTS w1, w2, u1

MCWorkers == {w1, w2}
MCUsers == {u1}
MCDates == 0..(Horizon + Interval)
NoPatches == {}
AllPatches == {"date", "rest"}
=============================================================================
