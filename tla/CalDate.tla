------------------------------- MODULE CalDate -------------------------------
(***************************************************************************)
(* Dates (internal/caldate).  A date is the number of its day, and the     *)
(* calendar is the table of the first days of its months; after the last   *)
(* of them comes the day that ends the calendar.                           *)
(***************************************************************************)
EXTENDS Integers

CONSTANTS
  Months,      \* the months of the calendar are 1 .. Months
  MonthStart   \* the first day of each month, and the day after the last

ASSUME CalendarAssumption ==
  /\ Months \in Nat \ {0}
  /\ MonthStart \in [1 .. Months + 1 -> Nat]
  /\ \A m \in 1 .. Months : MonthStart[m + 1] - MonthStart[m] \in 28 .. 31
  /\ \A m, n \in 1 .. Months : m < n => MonthStart[m + 1] <= MonthStart[n]

DaysOf(m) == MonthStart[m] .. MonthStart[m + 1] - 1

Date == UNION {DaysOf(m) : m \in 1 .. Months}

MonthLength(m) == MonthStart[m + 1] - MonthStart[m]

MonthOf(d) == CHOOSE m \in 1 .. Months : d \in DaysOf(m)

DayOf(d) == d - MonthStart[MonthOf(d)] + 1

DateOf(m, day) == MonthStart[m] + day - 1

(* A faulty variant for the mutation checks: a day that the month does not *)
(* have runs over into the next one, as time.Date normalises it.           *)
AddMonthsNormalised(d, n) == DateOf(MonthOf(d) + n, DayOf(d))

(* The same day n months later, or the last of that month.                 *)
AddMonthsClamped(d, n) ==
  LET m == MonthOf(d) + n IN
    DateOf(m, IF DayOf(d) > MonthLength(m) THEN MonthLength(m) ELSE DayOf(d))
=============================================================================
