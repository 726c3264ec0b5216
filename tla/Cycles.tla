------------------------------- MODULE Cycles -------------------------------
(***************************************************************************)
(* The arithmetic of a subscription over several periods: the end of a     *)
(* period (billing/billing-period.util.ts) and what a change of plan in    *)
(* the middle of one costs (billing/proration.service.ts).                 *)
(*                                                                         *)
(* Days are numbered from the first of January of FirstYear.  Amounts are  *)
(* tenths of a kobo, so that rounding to kobo matters; a value in service  *)
(* is an amount times Scale, so that parts of a period stay integers.      *)
(***************************************************************************)
EXTENDS Integers

CONSTANTS
    FirstYear,
    Starts,         \* days on which a subscription may begin
    Intervals,      \* intervals of plans
    Amounts,        \* amounts of plans
    Scale,          \* bound: plans change in periods whose length divides it
    MaxRenewals,    \* bound: renewals after one start, before the last change
    MaxLate,        \* bound: days that renewals come late, altogether
    MaxChanges,     \* bound: changes of plan
    ChangeAfter     \* bound: renewals before one, with none late

ASSUME CyclesAssumption ==
    /\ FirstYear \in Nat
    /\ Starts \subseteq Nat
    /\ Amounts \subseteq Nat
    /\ Scale \in Nat \ {0}
    /\ {MaxRenewals, MaxLate, MaxChanges, ChangeAfter} \subseteq Nat

VARIABLES
    today,          \* the day of the last charge
    ends,           \* currentPeriodEnd
    interval,       \* plans.interval
    amount,         \* plans.amount
    first,          \* history: the day the plan began
    renewals,       \* history: renewals since
    late,           \* history: days they came late
    changes,        \* history: changes of plan
    lost,           \* history: credit above the price of the new plan
    surplus         \* history: value paid for, less value had and to be had

plan == <<interval, amount>>
counts == <<first, renewals, late>>
books == <<changes, lost, surplus>>
cycles == <<today, ends, plan, counts, books>>

----------------------------------------------------------------------------
(* The calendar of Date: months are counted from January of FirstYear.     *)

LeapsBefore(y) == (y - 1) \div 4 - (y - 1) \div 100 + (y - 1) \div 400
Leap(y) == LeapsBefore(y + 1) > LeapsBefore(y)

DaysBefore == <<0, 31, 59, 90, 120, 151, 181, 212, 243, 273, 304, 334>>

MonthStart(month) ==
    LET y == FirstYear + month \div 12
        m == month % 12
    IN  365 * (month \div 12) + LeapsBefore(y) - LeapsBefore(FirstYear)
        + DaysBefore[m + 1] + (IF m > 1 /\ Leap(y) THEN 1 ELSE 0)

MonthOf(day) ==
    CHOOSE month \in (day \div 31)..(day \div 28) :
        MonthStart(month) <= day /\ day < MonthStart(month + 1)

DayOfMonth(day) == day - MonthStart(MonthOf(day))      \* from 0

\* setMonth and setFullYear: a day the month does not have runs over into the
\* next one.
AddMonths(day, n) == MonthStart(MonthOf(day) + n) + DayOfMonth(day)

\* Defect for AnchorHolds: a month is thirty days.
NextPeriodEnd_ThirtyDays(i, day) ==
    CASE i = "weekly" -> day + 7
      [] i = "yearly" -> AddMonths(day, 12)
      [] OTHER -> day + 30

\* computeNextPeriodEnd, counted from the day of the charge.
NextPeriodEnd(i, day) ==
    CASE i = "weekly" -> day + 7
      [] i = "yearly" -> AddMonths(day, 12)
      [] OTHER -> AddMonths(day, 1)

----------------------------------------------------------------------------
(* calculateAdjustment.                                                    *)

\* Math.round of n / d.
Round(n, d) == (2 * n + d) \div (2 * d)

\* Defect for ChargesFit: the part that is used up is credited.
UnusedCredit_Used(current, began, end, change) ==
    LET total == end - began
        unused == end - change
    IN  IF total <= 0 \/ unused <= 0 THEN 0
        ELSE Round(current * (total - (IF unused < total THEN unused ELSE total)), 10 * total)

\* In kobo: the unused fraction of the current plan, at most all of it.
UnusedCredit(current, began, end, change) ==
    LET total == end - began
        unused == end - change
    IN  IF total <= 0 \/ unused <= 0 THEN 0
        ELSE Round(current * (IF unused < total THEN unused ELSE total), 10 * total)

\* In tenths: without credit the price as it is, else rounded to kobo.
NetCharge(current, new, began, end, change) ==
    LET credit == UnusedCredit(current, began, end, change)
        net == Round(new - 10 * credit, 10)
    IN  IF end - began <= 0 \/ end - change <= 0 THEN new
        ELSE IF net > 0 THEN 10 * net ELSE 0

----------------------------------------------------------------------------
CyclesInit ==
    /\ today \in Starts
    /\ interval \in Intervals
    /\ amount \in Amounts
    /\ ends = NextPeriodEnd(interval, today)
    /\ first = today
    /\ renewals = 0
    /\ late = 0
    /\ changes = 0
    /\ lost = 0
    /\ surplus = 0

\* The charge for the next period goes through, on the day or some days late.
Renews(delay) ==
    /\ renewals < MaxRenewals /\ changes < MaxChanges
    /\ late + delay <= MaxLate
    /\ today' = ends + delay
    /\ ends' = NextPeriodEnd(interval, ends + delay)
    /\ renewals' = renewals + 1
    /\ late' = late + delay
    /\ UNCHANGED <<plan, first, books>>

\* Another plan, on any day of the period: its cycle begins at once.  The
\* service has no caller outside the tests: this is the one its comment means.
ChangesPlan(day, i, new) ==
    LET credit == UnusedCredit(amount, today, ends, day)
        net == NetCharge(amount, new, today, ends, day)
    IN  /\ changes < MaxChanges
        /\ renewals <= ChangeAfter /\ late = 0 /\ Scale % (ends - today) = 0
        /\ today' = day
        /\ ends' = NextPeriodEnd(i, day)
        /\ interval' = i
        /\ amount' = new
        /\ first' = day
        /\ renewals' = 0
        /\ late' = 0
        /\ changes' = changes + 1
        /\ lost' = lost + (IF 10 * credit > new THEN 10 * credit - new ELSE 0)
        \* what the rest of the old period was worth, and the new one is
        /\ surplus' = surplus + Scale * (net - new)
                        + amount * (ends - day) * (Scale \div (ends - today))

CyclesNext ==
    \/ \E delay \in 0..MaxLate : Renews(delay)
    \/ \E day \in today..ends, i \in Intervals, new \in Amounts : ChangesPlan(day, i, new)

CyclesSpec == CyclesInit /\ [][CyclesNext]_cycles

----------------------------------------------------------------------------
(* Properties.                                                             *)

\* The same day so many months later, or the last day of a shorter month.
Anniversary(day, months) ==
    LET month == MonthOf(day) + months
        same == MonthStart(month) + DayOfMonth(day)
    IN  IF same < MonthStart(month + 1) THEN same ELSE MonthStart(month + 1) - 1

DueDay ==
    CASE interval = "weekly" -> first + 7 * (renewals + 1)
      [] interval = "yearly" -> Anniversary(first, 12 * (renewals + 1))
      [] OTHER -> Anniversary(first, renewals + 1)

\* However many short months and leap years a subscription runs through, its
\* periods never end before the day it is due by the calendar, and at most the
\* delays of its renewals and three days after it: the overflow of a month
\* happens once and does not add up, except that a subscription four weeks
\* behind, and every four weeks more, can overflow once again.
AnchorHolds ==
    /\ DueDay <= ends
    /\ ends <= DueDay + late + 3 * ((30 + late) \div 28)

\* Over any sequence of plan changes, what was charged is worth what was had
\* and is to be had, up to a kobo for each change, except that a credit above
\* the price of the new plan is forfeited.
ChargesFit ==
    LET error == surplus - Scale * lost
    IN  -10 * Scale * changes <= error /\ error <= 10 * Scale * changes
=============================================================================
