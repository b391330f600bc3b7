------------------------------ MODULE Recurrence ------------------------------
(***************************************************************************)
(* The civil-date arithmetic of schedule/recurrence.go.                    *)
(*                                                                         *)
(* A date is a day number: 0 is Monday 1 January 2024.  A month is a month *)
(* number: 0 is January 2024, so that year y of the model is 2024 + y and  *)
(* is a leap year when y is a multiple of 4 (true until February 2100,     *)
(* which bounds the dates the model speaks of).                            *)
(***************************************************************************)
EXTENDS Integers

Units == {"day", "week", "month", "year"}

\* Weekend adjustment modes.
WeekendNone   == 0
WeekendBefore == 1
WeekendAfter  == 2
WeekendSkip   == 3
WeekendModes  == 0 .. 3

-----------------------------------------------------------------------------
(***************************************************************************)
(* The calendar of Go's time package.                                      *)
(***************************************************************************)

Leap(y) == IF y % 4 = 0 THEN 1 ELSE 0

\* Days before month m (0 = January, 12 = the next January) of a year whose
\* February has 28 + leap days.
DaysBefore(m, leap) ==
  <<0, 31, 59, 90, 120, 151, 181, 212, 243, 273, 304, 334, 365>>[m + 1]
    + (IF m >= 2 THEN leap ELSE 0)

\* The first day of year y, and of month k.
NewYear(y)  == 365 * y + ((y + 3) \div 4)
FirstDay(k) == NewYear(k \div 12) + DaysBefore(k % 12, Leap(k \div 12))

\* The year a day falls in: the first year of a cycle of four has 366 days.
YearOf(d) ==
  LET r == d % 1461
  IN  4 * (d \div 1461) + (IF r < 366 THEN 0 ELSE (r - 1) \div 365)

MonthOf(d) ==
  LET y == YearOf(d)
  IN  12 * y + (CHOOSE m \in 0 .. 11 : /\ DaysBefore(m, Leap(y)) <= d - NewYear(y)
                                       /\ d - NewYear(y) < DaysBefore(m + 1, Leap(y)))

\* How far into its month a day is: 0 on the 1st.
DayIndex(d) == d - FirstDay(MonthOf(d))

\* 0 is Monday, 5 and 6 are Saturday and Sunday.
Weekday(d)   == d % 7
IsWeekend(d) == Weekday(d) >= 5

\* time.Time.AddDate(0, n, 0): a day the target month does not have runs over
\* into the month after it (31 January plus a month is 2 or 3 March).
AddDateMonths(d, n) == FirstDay(MonthOf(d) + n) + DayIndex(d)

-----------------------------------------------------------------------------
(***************************************************************************)
(* recurrence.go                                                           *)
(***************************************************************************)

daysInMonth(k) == FirstDay(k + 1) - FirstDay(k)

\* Month steps clamp to the end of the target month.
addMonths(d, n) ==
  LET k    == MonthOf(d) + n
      last == daysInMonth(k) - 1
  IN  FirstDay(k) + (IF DayIndex(d) > last THEN last ELSE DayIndex(d))

AddInterval(d, unit, n) ==
  CASE unit = "week"  -> d + 7 * n
    [] unit = "month" -> addMonths(d, n)
    [] unit = "year"  -> addMonths(d, 12 * n)
    [] OTHER          -> d + n

\* (Mutant of AdjustWeekend: both days of the weekend move on by one.)
AdjustWeekendByOne(d, mode) ==
  CASE mode = WeekendBefore /\ IsWeekend(d) -> [date |-> d - 1, skip |-> FALSE]
    [] mode = WeekendAfter /\ IsWeekend(d)  -> [date |-> d + 1, skip |-> FALSE]
    [] OTHER -> [date |-> d, skip |-> mode = WeekendSkip /\ IsWeekend(d)]

\* The date an occurrence due on d is registered on, and whether the mode
\* leaves it out altogether.
AdjustWeekend(d, mode) ==
  CASE mode = WeekendBefore /\ IsWeekend(d) ->
         [date |-> d - (Weekday(d) - 4), skip |-> FALSE]
    [] mode = WeekendAfter /\ IsWeekend(d) ->
         [date |-> d + (7 - Weekday(d)), skip |-> FALSE]
    [] mode = WeekendSkip /\ IsWeekend(d) ->
         [date |-> d, skip |-> TRUE]
    [] OTHER -> [date |-> d, skip |-> FALSE]
=============================================================================
