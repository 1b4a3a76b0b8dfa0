------------------------------ MODULE Calendar ------------------------------
(***************************************************************************)
(* Calendar arithmetic as Go's time.AddDate does it, on hours since the    *)
(* first of January of year 0.  A day of the month that the target month   *)
(* lacks runs over into the month after it: a month after 31 January is    *)
(* 3 March.  Leap days are left out.                                       *)
(***************************************************************************)
EXTENDS Integers

DayHours  == 24
YearDays  == 365

\* Days of the year before each month, January first.
DaysBefore == <<0, 31, 59, 90, 120, 151, 181, 212, 243, 273, 304, 334>>

\* The day on which month m begins, January of year 0 being month 0.
MonthStart(m) == (m \div 12) * YearDays + DaysBefore[(m % 12) + 1]

\* The day an instant falls on, and the instant that day begins.
Date(t) == t \div DayHours

Midnight(d) == d * DayHours

MonthOf(d) == CHOOSE m \in 0..d : MonthStart(m) <= d /\ d < MonthStart(m + 1)

DayOfMonth(d) == d - MonthStart(MonthOf(d)) + 1

AddDate(t, months, days) ==
  LET d == Date(t)
  IN  Midnight(MonthStart(MonthOf(d) + months) + DayOfMonth(d) - 1 + days) + (t % DayHours)
=============================================================================
