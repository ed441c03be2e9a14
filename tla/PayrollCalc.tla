---------------------------- MODULE PayrollCalc ----------------------------
(***************************************************************************)
(* The arithmetic of payroll, with no state (src/payroll/rates.ts,         *)
(* workdays.ts, absence-pay.ts, average-earnings.ts, calc.ts, and the      *)
(* severance table of termination.ts).  Amounts are cents, rates basis     *)
(* points, days counted from the first day of month 1; a month has         *)
(* MonthDays days, and WorkDays says which days of the calendar are worked.*)
(***************************************************************************)
EXTENDS Integers, FiniteSetsExt

CONSTANTS
  MonthDays,   \* days of a month
  WorkDays,    \* the days worked
  Params,      \* the rates and thresholds of tax_rules
  Progressive  \* payroll_settings.iin_progressive_monthly

ASSUME CalcAssumption ==
  /\ MonthDays \in Nat \ {0}
  /\ WorkDays \subseteq Int
  /\ Params \in [iinBasic : Nat, iinTop : Nat, iinBand3 : Nat,
                 threshold : Nat, threshold2 : Nat, minimum : Nat,
                 pensioner : Nat, dependent : Nat, disability12 : Nat,
                 disability3 : Nat, repression : Nat, vsaoi : Nat,
                 vsaoiEmployer : Nat, riskDuty : Nat, sick23 : Nat,
                 sick49 : Nat, deductionCap : Nat]
  /\ Params.threshold <= Params.threshold2
  /\ \A r \in {"iinBasic", "iinTop", "iinBand3", "vsaoi", "deductionCap"} :
       Params[r] <= 10000
  /\ Progressive \in BOOLEAN

-----------------------------------------------------------------------------
divRound(n, d) == (2 * n + d) \div (2 * d)

applyBp(cents, bp) == divRound(cents * bp, 10000)

FirstDay(m) == (m - 1) * MonthDays + 1
LastDay(m)  == m * MonthDays
MonthOf(d)  == (d - 1) \div MonthDays + 1

DaysWorked(from, to, m) ==
  {d \in WorkDays : from <= d /\ d <= to /\ FirstDay(m) <= d /\ d <= LastDay(m)}

workDaysOverlap(from, to, m) == Cardinality(DaysWorked(from, to, m))

workDaysInMonth(m) == workDaysOverlap(FirstDay(m), LastDay(m), m)

computeVacationPay(a, m, daily) == daily * workDaysOverlap(a.from, a.to, m)

\* By the calendar day of the sickness, across months.
SickRate(day) ==
  CASE day \in 2..3 -> Params.sick23
    [] day \in 4..9 -> Params.sick49
    [] OTHER        -> 0

computeSickPayA(a, m, daily) ==
  SumFunction([d \in DaysWorked(a.from, a.to, m) |->
                 applyBp(daily, SickRate(d - a.from + 1))])

-----------------------------------------------------------------------------
(* Average earnings before an event in month m.  A history maps the months *)
(* known to gross and worked days.                                         *)

Window(end) == (end - 5)..end

Total(history, field, months) ==
  SumFunction([k \in months \cap DOMAIN history |-> history[k][field]])

Earlier(history, end) ==
  {k \in DOMAIN history : k < end - 5 /\ history[k].days > 0}

\* The last month of the window: moved back past an absence without work.
WindowEnd(history, m) ==
  IF Total(history, "days", Window(m - 1)) = 0
    THEN Max(Earlier(history, m - 1)) ELSE m - 1

\* It throws when no month known before the event has a worked day.
HasEarnings(history, m) ==
  \/ Total(history, "days", Window(m - 1)) > 0
  \/ Earlier(history, m - 1) # {}

averageDaily(history, m) ==
  LET w == Window(WindowEnd(history, m))
  IN  divRound(Total(history, "gross", w), Total(history, "days", w))

averageMonthly(history, m) ==
  LET w == Window(WindowEnd(history, m))
  IN  divRound(averageDaily(history, m) * SumFunction([k \in w |-> workDaysInMonth(k)]), 6)

severanceMonthsFor(hired, lastDay) ==
  LET years == (lastDay - hired) \div (12 * MonthDays)
  IN  CASE years < 5  -> 1
        [] years < 10 -> 2
        [] years < 20 -> 3
        [] OTHER      -> 4

-----------------------------------------------------------------------------
(* Gross to net.                                                           *)

Smaller(a, b) == IF a <= b THEN a ELSE b
AtLeast0(a)   == IF a < 0 THEN 0 ELSE a

\* The reliefs of a tax book that is active this month.
Reliefs(tax, worked, total) ==
  IF ~tax.active THEN 0 ELSE
    (IF total > 0
       THEN divRound((IF tax.pensioner THEN Params.pensioner ELSE Params.minimum)
                       * worked, total)
       ELSE 0)
    + Params.dependent * tax.dependents
    + (CASE tax.disability \in {1, 2} -> Params.disability12
         [] tax.disability = 3        -> Params.disability3
         [] OTHER                     -> 0)
    + (IF tax.repressed THEN Params.repression ELSE 0)

Iin(base) ==
  IF Progressive
    THEN LET t1 == Params.threshold
             t2 == Params.threshold2
             band1 == Smaller(base, t1)
             band2 == AtLeast0(Smaller(base, t2) - t1)
             band3 == AtLeast0(base - t2)
         IN  divRound(band1 * Params.iinBasic + band2 * Params.iinTop
                        + band3 * Params.iinBand3, 10000)
    ELSE applyBp(base, Params.iinBasic)

\* What computePayroll returns.
Pay == [gross : Int, severance : Int, vsaoi : Int, iin : Int, deducted : Int,
        net : Int, payout : Int, employer : Int, risk : Int]

computePayroll(gross, severance, requested, tax, worked, total) ==
  LET vsaoi     == applyBp(gross, Params.vsaoi)
      iin       == Iin(AtLeast0(gross - vsaoi - Reliefs(tax, worked, total)))
      payable   == gross - vsaoi - iin
      deducted  == Smaller(requested, applyBp(payable, Params.deductionCap))
      net       == payable - deducted
  IN  [gross |-> gross, severance |-> severance, vsaoi |-> vsaoi, iin |-> iin,
       deducted |-> deducted, net |-> net, payout |-> net + severance,
       employer |-> applyBp(gross, Params.vsaoiEmployer),
       risk |-> Params.riskDuty]

=============================================================================
