----------------------------- MODULE CalendarWalk -----------------------------
(***************************************************************************)
(* Recurrence checked against a calendar that is walked one day at a time, *)
(* from 1 January 2024, with the month lengths everybody knows.  The walk  *)
(* is the reference; the operators of Recurrence compute with day numbers. *)
(***************************************************************************)
EXTENDS Recurrence

CONSTANTS LastDay, Steps

\* What the constants are.
WalkConstants == LastDay \in Nat /\ Steps \subseteq Nat \ {0}

VARIABLES day, year, month, dom   \* 0-based year and month, dom from 1

walk == <<day, year, month, dom>>

\* The length of month m of year y, both 0-based.
Length(y, m) ==
  CASE m = 1 -> (IF y % 4 = 0 THEN 29 ELSE 28)
    [] m \in {3, 5, 8, 10} -> 30
    [] OTHER -> 31

Init == day = 0 /\ year = 0 /\ month = 0 /\ dom = 1

NextDayOfMonth ==
  /\ dom < Length(year, month)
  /\ dom' = dom + 1
  /\ UNCHANGED <<year, month>>

NextMonth ==
  /\ dom = Length(year, month) /\ month < 11
  /\ dom' = 1 /\ month' = month + 1 /\ year' = year

NextYear ==
  /\ dom = Length(year, month) /\ month = 11
  /\ dom' = 1 /\ month' = 0 /\ year' = year + 1

Next ==
  /\ day < LastDay
  /\ day' = day + 1
  /\ NextDayOfMonth \/ NextMonth \/ NextYear

Spec == Init /\ [][Next]_walk

-----------------------------------------------------------------------------
\* The calendar the model computes is the one walked, week included: the first
\* of March 2024 was a Friday.
CalendarAgrees ==
  /\ YearOf(day) = year
  /\ MonthOf(day) = 12 * year + month
  /\ DayIndex(day) = dom - 1
  /\ FirstDay(12 * year + month) + dom - 1 = day
  /\ daysInMonth(12 * year + month) = Length(year, month)
  /\ (year = 0 /\ month = 2 /\ dom = 1) => Weekday(day) = 4

\* recurrence.go:32: month and year steps land in the target month, on the
\* same day when it has one and on its last day when it has not.
Lands(to, n) ==
  LET m    == (month + n) % 12
      y    == year + ((month + n) \div 12)
      last == Length(y, m)
  IN  /\ MonthOf(to) = 12 * y + m
      /\ DayIndex(to) + 1 = (IF dom > last THEN last ELSE dom)

MonthStepsClamp ==
  \A n \in Steps : /\ Lands(AddInterval(day, "month", n), n)
                   /\ Lands(AddInterval(day, "year", n), 12 * n)

\* A cadence always moves on: without it RunDue would register one occurrence
\* until the cap.
StepsAdvance ==
  \A unit \in Units, n \in Steps : AddInterval(day, unit, n) > day

\* The scheduler's "months ahead" horizon (Go's AddDate, which runs over the
\* end of a month) never falls short of the schedule's own step (which
\* clamps): an occurrence that many months away is within the horizon.
HorizonReachesStep ==
  \A n \in Steps : AddDateMonths(day, n) >= AddInterval(day, "month", n)

\* A moved occurrence is registered on a weekday, no further than the weekend
\* is long; only the skip mode leaves one out; and moving never puts an
\* occurrence before an earlier one.
WeekendRespected ==
  \A mode \in WeekendModes :
    LET a == AdjustWeekend(day, mode)
    IN  /\ mode \in {WeekendBefore, WeekendAfter} =>
             /\ ~IsWeekend(a.date)
             /\ a.date - day \in -2 .. 2
             /\ a.date # day <=> IsWeekend(day)
        /\ a.skip <=> (mode = WeekendSkip /\ IsWeekend(day))
        /\ a.date <= AdjustWeekend(day + 1, mode).date

\* The calendar of the recurrence is the one everybody knows, and its steps keep to it.
StepsKeepTheCalendar ==
  CalendarAgrees /\ MonthStepsClamp /\ StepsAdvance /\ HorizonReachesStep /\ WeekendRespected
=============================================================================
