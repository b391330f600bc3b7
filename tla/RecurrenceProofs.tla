--------------------------- MODULE RecurrenceProofs ---------------------------
(***************************************************************************)
(* For every date, unit and count: a step of a cadence moves on, a month   *)
(* step lands in the month it names, on the same day or on the last one,   *)
(* dates keep their order, the horizon reaches the step it is for, and a   *)
(* date moved off a weekend leaves it.  TLC checks the same over four      *)
(* years in MCSchedules (CalendarWalk).                                    *)
(*                                                                         *)
(* From the same lemmas, what two pages build on the calendar: the address *)
(* and the periods of the reports, the points of their balances (Reports), *)
(* and the presets of the register (RegisterView).                         *)
(***************************************************************************)
EXTENDS Recurrence, Sequences, TLAPS

\* The months of a year follow one another, each at least 28 days long.
LEMMA MonthsOfAYear ==
  ASSUME NEW leap \in {0, 1}
  PROVE  /\ DaysBefore(0, leap) = 0
         /\ DaysBefore(12, leap) = 365 + leap
         /\ \A m \in 0 .. 12 : DaysBefore(m, leap) \in 0 .. 365 + leap
         /\ \A m \in 0 .. 11 : DaysBefore(m, leap) + 28 <= DaysBefore(m + 1, leap)
<1>1. \A m \in 0 .. 12 : m = 0 \/ m = 1 \/ m = 2 \/ m = 3 \/ m = 4 \/ m = 5 \/ m = 6
          \/ m = 7 \/ m = 8 \/ m = 9 \/ m = 10 \/ m = 11 \/ m = 12
  OBVIOUS
<1>2. /\ DaysBefore(0, leap) = 0
      /\ DaysBefore(12, leap) = 365 + leap
  BY DEF DaysBefore
<1>3. \A m \in 0 .. 12 : DaysBefore(m, leap) \in 0 .. 365 + leap
  BY <1>1 DEF DaysBefore
<1>4. \A m \in 0 .. 11 : DaysBefore(m, leap) + 28 <= DaysBefore(m + 1, leap)
  BY <1>1 DEF DaysBefore
<1> QED BY <1>2, <1>3, <1>4

\* A month starts within its year.
LEMMA MonthStarts ==
  ASSUME NEW leap \in {0, 1}, NEW m \in 0 .. 12
  PROVE  DaysBefore(m, leap) \in Nat /\ DaysBefore(m, leap) <= 365 + leap
<1>1. m = 0 \/ m = 1 \/ m = 2 \/ m = 3 \/ m = 4 \/ m = 5 \/ m = 6
          \/ m = 7 \/ m = 8 \/ m = 9 \/ m = 10 \/ m = 11 \/ m = 12
  OBVIOUS
<1> QED BY <1>1 DEF DaysBefore

\* The year of a day is the one the day lies in.
LEMMA YearContains ==
  ASSUME NEW d \in Int
  PROVE  /\ YearOf(d) \in Int
         /\ NewYear(YearOf(d)) <= d
         /\ d < NewYear(YearOf(d)) + 365 + Leap(YearOf(d))
<1> DEFINE c == d \div 1461
           r == d % 1461
           q == IF r < 366 THEN 0 ELSE (r - 1) \div 365
<1>1. c \in Int /\ r \in 0 .. 1460 /\ d = 1461 * c + r
  OBVIOUS
<1>2. q \in 0 .. 3
  BY <1>1
<1>3. YearOf(d) = 4 * c + q
  BY DEF YearOf
<1>4. (4 * c + q + 3) \div 4 = c + (IF q = 0 THEN 0 ELSE 1)
  BY <1>1, <1>2
<1>5. Leap(4 * c + q) = IF q = 0 THEN 1 ELSE 0
  BY <1>1, <1>2 DEF Leap
<1>6. NewYear(4 * c + q) = 1461 * c + 365 * q + (IF q = 0 THEN 0 ELSE 1)
  BY <1>1, <1>2, <1>4 DEF NewYear
<1>7. /\ q = 0 => r < 366
      /\ q # 0 => 365 * q + 1 <= r /\ r < 365 * q + 366
  BY <1>1
<1> QED BY <1>1, <1>2, <1>3, <1>5, <1>6, <1>7

\* The month of a day is the one the day lies in.
LEMMA MonthContains ==
  ASSUME NEW d \in Int
  PROVE  /\ MonthOf(d) \in Int
         /\ FirstDay(MonthOf(d)) <= d
         /\ d < FirstDay(MonthOf(d) + 1)
         /\ MonthOf(d) \div 12 = YearOf(d)
<1> DEFINE y == YearOf(d)
           l == Leap(y)
           e == d - NewYear(y)
           In(m) == DaysBefore(m, l) <= e /\ e < DaysBefore(m + 1, l)
           k == CHOOSE m \in 0 .. 11 : In(m)
<1>1. y \in Int /\ l \in {0, 1} /\ e \in 0 .. 364 + l
  BY YearContains DEF Leap, NewYear
<1>A. \A m \in 0 .. 12 : DaysBefore(m, l) \in Nat
  <2> HIDE DEF l
  <2>1. \A m \in 0 .. 12 : DaysBefore(m, l) \in 0 .. 365 + l
    BY <1>1, MonthStarts
  <2> QED BY <1>1, <2>1
<1>2. \E m \in 0 .. 11 : In(m)
  <2>1. DaysBefore(0, l) <= e /\ e < DaysBefore(12, l)
    BY <1>1, MonthsOfAYear
  <2>2. SUFFICES ASSUME \A m \in 0 .. 11 : ~In(m)
                 PROVE  FALSE
    OBVIOUS
  <2>3. \A m \in 0 .. 12 : DaysBefore(m, l) \in Int
    BY <1>A
  <2>4. \A m \in 0 .. 11 : DaysBefore(m, l) <= e => DaysBefore(m + 1, l) <= e
    BY <1>1, <2>2, <2>3
  <2> HIDE DEF y, l, e
  <2>5. DaysBefore(1, l) <= e /\ DaysBefore(2, l) <= e /\ DaysBefore(3, l) <= e
    BY <2>1, <2>4
  <2>6. DaysBefore(4, l) <= e /\ DaysBefore(5, l) <= e /\ DaysBefore(6, l) <= e
    BY <2>5, <2>4
  <2>7. DaysBefore(7, l) <= e /\ DaysBefore(8, l) <= e /\ DaysBefore(9, l) <= e
    BY <2>6, <2>4
  <2>8. DaysBefore(10, l) <= e /\ DaysBefore(11, l) <= e /\ DaysBefore(12, l) <= e
    BY <2>7, <2>4
  <2> QED BY <1>1, <2>1, <2>3, <2>8
<1>3. k \in 0 .. 11 /\ In(k)
  BY <1>2
<1>4. MonthOf(d) = 12 * y + k
  BY DEF MonthOf
<1> HIDE DEF k
<1>5. (12 * y + k) \div 12 = y /\ (12 * y + k) % 12 = k
  BY <1>1, <1>3
<1>6. FirstDay(12 * y + k) = NewYear(y) + DaysBefore(k, l)
  BY <1>5 DEF FirstDay
<1>7. FirstDay(12 * y + k + 1) = NewYear(y) + DaysBefore(k + 1, l)
  <2>1. CASE k < 11
    <3>1. (12 * y + k + 1) \div 12 = y /\ (12 * y + k + 1) % 12 = k + 1
      BY <1>1, <1>3, <2>1
    <3> QED BY <3>1 DEF FirstDay
  <2>2. CASE k = 11
    <3>1. (12 * y + k + 1) \div 12 = y + 1 /\ (12 * y + k + 1) % 12 = 0
      BY <1>1, <2>2
    <3>2. NewYear(y + 1) = NewYear(y) + 365 + l
      BY <1>1 DEF NewYear, Leap
    <3>3. Leap(y + 1) \in {0, 1}
      BY DEF Leap
    <3>4. DaysBefore(0, Leap(y + 1)) = 0 /\ DaysBefore(12, l) = 365 + l
      BY <3>3, <1>1, MonthsOfAYear
    <3>5. FirstDay(12 * y + k + 1) = NewYear(y + 1)
      BY <1>1, <3>1, <3>4 DEF FirstDay, NewYear
    <3> QED BY <1>1, <2>2, <3>2, <3>4, <3>5 DEF NewYear
  <2> QED BY <1>3, <2>1, <2>2
<1>8. NewYear(y) \in Int /\ DaysBefore(k, l) \in Nat /\ DaysBefore(k + 1, l) \in Nat
  BY <1>1, <1>3, <1>A DEF NewYear
<1> QED BY <1>1, <1>3, <1>4, <1>5, <1>6, <1>7, <1>8

\* A later month starts later.
LEMMA MonthsInOrder ==
  ASSUME NEW j \in Int, NEW k \in Int, j < k
  PROVE  FirstDay(j) < FirstDay(k)
<1> DEFINE y == j \div 12
           m == j % 12
           z == k \div 12
           n == k % 12
           l == Leap(y)
           o == Leap(z)
<1>1. /\ y \in Int /\ z \in Int /\ m \in 0 .. 11 /\ n \in 0 .. 11
      /\ j = 12 * y + m /\ k = 12 * z + n
  OBVIOUS
<1>2. l \in {0, 1} /\ o \in {0, 1}
  BY DEF Leap
<1>3. FirstDay(j) = NewYear(y) + DaysBefore(m, l) /\ FirstDay(k) = NewYear(z) + DaysBefore(n, o)
  BY DEF FirstDay
<1>4. NewYear(y) \in Int /\ NewYear(z) \in Int
  BY <1>1 DEF NewYear
<1> HIDE DEF y, m, z, n, l, o
<1>5. /\ \A i \in 0 .. 12 : DaysBefore(i, l) \in 0 .. 365 + l
      /\ \A i \in 0 .. 12 : DaysBefore(i, o) \in 0 .. 365 + o
      /\ \A i \in 0 .. 11 : DaysBefore(i, l) + 28 <= DaysBefore(i + 1, l)
      /\ DaysBefore(12, l) = 365 + l
  <2>1. \A i \in 0 .. 12 : DaysBefore(i, l) \in 0 .. 365 + l
    BY <1>2, MonthStarts
  <2>2. \A i \in 0 .. 12 : DaysBefore(i, o) \in 0 .. 365 + o
    BY <1>2, MonthStarts
  <2>3. \A i \in 0 .. 11 : DaysBefore(i, l) + 28 <= DaysBefore(i + 1, l)
    BY <1>2, MonthsOfAYear
  <2>4. DaysBefore(12, l) = 365 + l
    BY <1>2, MonthsOfAYear
  <2> QED BY <2>1, <2>2, <2>3, <2>4
<1>6. CASE y = z
  <2>1. m < n /\ l = o
    BY <1>1, <1>6 DEF l, o
  <2>2. DaysBefore(m, l) < DaysBefore(n, l)
    BY <1>1, <1>2, <2>1 DEF DaysBefore
  <2> QED BY <1>1, <1>2, <1>3, <1>4, <1>5, <1>6, <2>1, <2>2
<1>7. CASE y < z
  <2>1. NewYear(y) + 365 + l <= NewYear(z)
    BY <1>1, <1>2, <1>7 DEF NewYear, Leap, l
  <2>2. DaysBefore(m, l) < 365 + l
    <3>1. DaysBefore(m + 1, l) \in 0 .. 365 + l /\ DaysBefore(m, l) \in 0 .. 365 + l
      BY <1>1, <1>5
    <3> QED BY <1>1, <1>2, <1>5, <3>1
  <2>3. DaysBefore(m, l) \in Int /\ DaysBefore(n, o) \in Nat
    BY <1>1, <1>2, <1>5
  <2> QED BY <1>2, <1>3, <1>4, <2>1, <2>2, <2>3
<1> QED BY <1>1, <1>6, <1>7

\* A day of the model's is in a month of the model's.
LEMMA MonthIsNat ==
  ASSUME NEW d \in Nat
  PROVE  MonthOf(d) \in Nat /\ YearOf(d) \in Nat
<1>1. YearOf(d) \in Nat
  BY DEF YearOf
<1>2. MonthOf(d) \in Int /\ MonthOf(d) \div 12 = YearOf(d)
  BY MonthContains
<1> QED BY <1>1, <1>2

\* A month step stays in the month it names, and in the model's dates.
LEMMA MonthStepLands ==
  ASSUME NEW d \in Nat, NEW n \in Nat \ {0}
  PROVE  /\ addMonths(d, n) \in Nat
         /\ FirstDay(MonthOf(d) + n) <= addMonths(d, n)
         /\ addMonths(d, n) < FirstDay(MonthOf(d) + n + 1)
<1> DEFINE k == MonthOf(d) + n
<1>1. k \in Nat /\ MonthOf(d) \in Nat
  BY MonthContains, MonthIsNat
<1>2. \A i \in Nat : FirstDay(i) \in Nat
  <2> TAKE i \in Nat
  <2>1. i \div 12 \in Nat /\ i % 12 \in 0 .. 12 /\ Leap(i \div 12) \in {0, 1}
    BY DEF Leap
  <2>2. NewYear(i \div 12) \in Nat
    BY <2>1 DEF NewYear
  <2>3. DaysBefore(i % 12, Leap(i \div 12)) \in 0 .. 365 + Leap(i \div 12)
    BY <2>1, MonthStarts
  <2> QED BY <2>1, <2>2, <2>3 DEF FirstDay
<1>3. FirstDay(k) \in Nat /\ FirstDay(k + 1) \in Nat /\ FirstDay(k) < FirstDay(k + 1)
  BY <1>1, <1>2, MonthsInOrder
<1>4. DayIndex(d) \in Nat
  BY <1>1, <1>2, MonthContains, MonthIsNat DEF DayIndex
<1> QED BY <1>3, <1>4 DEF addMonths, daysInMonth

\* recurrence.go's AddInterval: a step of any cadence is a later date.  The
\* scheduler relies on it to get past an occurrence it has registered.
THEOREM AddIntervalAdvances ==
  ASSUME NEW d \in Nat, NEW unit \in Units, NEW n \in Nat \ {0}
  PROVE  AddInterval(d, unit, n) \in Nat /\ AddInterval(d, unit, n) > d
<1>1. \A i \in Nat \ {0} : addMonths(d, i) \in Nat /\ addMonths(d, i) > d
  <2> TAKE i \in Nat \ {0}
  <2>1. MonthOf(d) \in Nat /\ d < FirstDay(MonthOf(d) + 1)
    BY MonthContains, MonthIsNat
  <2>4. \A j \in Nat : FirstDay(j) \in Int
    BY DEF FirstDay, NewYear, DaysBefore, Leap
  <2>2. FirstDay(MonthOf(d) + 1) <= FirstDay(MonthOf(d) + i)
    <3>1. CASE i = 1
      BY <2>1, <2>4, <3>1
    <3>2. CASE i # 1
      <4>1. MonthOf(d) + 1 \in Nat /\ MonthOf(d) + i \in Nat /\ MonthOf(d) + 1 < MonthOf(d) + i
        BY <2>1, <3>2
      <4> QED BY <2>4, <4>1, MonthsInOrder
    <3> QED BY <3>1, <3>2
  <2>3. FirstDay(MonthOf(d) + i) <= addMonths(d, i) /\ addMonths(d, i) \in Nat
    BY MonthStepLands
  <2> QED BY <2>1, <2>2, <2>3, <2>4
<1>2. n \in Nat \ {0} /\ 12 * n \in Nat \ {0}
  OBVIOUS
<1> QED BY <1>1, <1>2 DEF AddInterval, Units

\* The month of a day is the only one it lies in.
LEMMA MonthIsTheOne ==
  ASSUME NEW d \in Int, NEW k \in Int, FirstDay(k) <= d, d < FirstDay(k + 1)
  PROVE  MonthOf(d) = k
<1>1. MonthOf(d) \in Int /\ FirstDay(MonthOf(d)) <= d /\ d < FirstDay(MonthOf(d) + 1)
  BY MonthContains
<1>2. \A i \in Int : FirstDay(i) \in Int
  BY DEF FirstDay, NewYear, DaysBefore, Leap
<1>3. ASSUME NEW i \in Int, NEW j \in Int, i < j
      PROVE  FirstDay(i + 1) <= FirstDay(j)
  <2>1. CASE i + 1 = j
    BY <1>2, <2>1
  <2>2. CASE i + 1 # j
    <3>1. i + 1 \in Int /\ i + 1 < j
      BY <1>3, <2>2
    <3> QED BY <1>2, <3>1, MonthsInOrder
  <2> QED BY <2>1, <2>2
<1>4. ~(MonthOf(d) < k)
  BY <1>1, <1>2, <1>3
<1>5. ~(k < MonthOf(d))
  BY <1>1, <1>2, <1>3
<1> QED BY <1>1, <1>4, <1>5

\* recurrence.go:32: a month step lands in the month it names, on the same day when that month
\* has one and on its last day when it has not.
THEOREM MonthStepsLandOrClamp ==
  ASSUME NEW d \in Nat, NEW n \in Nat \ {0}
  PROVE  /\ MonthOf(addMonths(d, n)) = MonthOf(d) + n
         /\ DayIndex(addMonths(d, n)) =
              IF DayIndex(d) < daysInMonth(MonthOf(d) + n) THEN DayIndex(d)
                                                           ELSE daysInMonth(MonthOf(d) + n) - 1
<1> DEFINE k == MonthOf(d) + n
           to == addMonths(d, n)
<1>1. MonthOf(d) \in Nat /\ k \in Nat
  BY MonthContains, MonthIsNat
<1>2. to \in Nat /\ FirstDay(k) <= to /\ to < FirstDay(k + 1)
  BY <1>1, MonthStepLands
<1>3. MonthOf(to) = k
  BY <1>1, <1>2, MonthIsTheOne
<1>4. DayIndex(to) = to - FirstDay(k)
  BY <1>3 DEF DayIndex
<1>5. \A i \in Nat : FirstDay(i) \in Int
  BY DEF FirstDay, NewYear, DaysBefore, Leap
<1>6. DayIndex(d) \in Int /\ daysInMonth(k) \in Int
  BY <1>1, <1>5 DEF DayIndex, daysInMonth
<1>7. to = FirstDay(k) + (IF DayIndex(d) > daysInMonth(k) - 1 THEN daysInMonth(k) - 1 ELSE DayIndex(d))
  BY DEF addMonths
<1> HIDE DEF k, to
<1>8. DayIndex(to) = IF DayIndex(d) < daysInMonth(k) THEN DayIndex(d) ELSE daysInMonth(k) - 1
  BY <1>1, <1>4, <1>5, <1>6, <1>7
<1> QED BY <1>3, <1>8 DEF k, to

\* Two series of one cadence never change places: of two dates, the later one steps no earlier
\* (recurrence.go's AddInterval), though month steps may bring both to the end of a month.
THEOREM StepsKeepTheOrder ==
  ASSUME NEW d \in Nat, NEW e \in Nat, d <= e, NEW unit \in Units, NEW n \in Nat \ {0}
  PROVE  AddInterval(d, unit, n) <= AddInterval(e, unit, n)
<1>1. \A i \in Nat : FirstDay(i) \in Int
  BY DEF FirstDay, NewYear, DaysBefore, Leap
<1>2. ASSUME NEW i \in Nat \ {0}
      PROVE  addMonths(d, i) <= addMonths(e, i)
  <2>1. /\ MonthOf(d) \in Nat /\ FirstDay(MonthOf(d)) <= d /\ d < FirstDay(MonthOf(d) + 1)
        /\ MonthOf(e) \in Nat /\ FirstDay(MonthOf(e)) <= e /\ e < FirstDay(MonthOf(e) + 1)
    BY MonthContains, MonthIsNat
  <2>2. /\ addMonths(d, i) \in Nat /\ addMonths(d, i) < FirstDay(MonthOf(d) + i + 1)
        /\ addMonths(e, i) \in Nat /\ FirstDay(MonthOf(e) + i) <= addMonths(e, i)
    BY MonthStepLands
  <2>3. CASE MonthOf(d) = MonthOf(e)
    <3> DEFINE k == MonthOf(e) + i
    <3>1. DayIndex(d) \in Int /\ DayIndex(e) \in Int /\ DayIndex(d) <= DayIndex(e)
      BY <1>1, <2>1, <2>3 DEF DayIndex
    <3>2. k \in Nat /\ daysInMonth(k) \in Int /\ FirstDay(k) \in Int
      BY <1>1, <2>1 DEF daysInMonth
    <3>3. /\ addMonths(d, i) = FirstDay(k) + (IF DayIndex(d) > daysInMonth(k) - 1 THEN daysInMonth(k) - 1 ELSE DayIndex(d))
          /\ addMonths(e, i) = FirstDay(k) + (IF DayIndex(e) > daysInMonth(k) - 1 THEN daysInMonth(k) - 1 ELSE DayIndex(e))
      BY <2>3 DEF addMonths
    <3> HIDE DEF k
    <3> QED BY <3>1, <3>2, <3>3
  <2>4. CASE MonthOf(d) < MonthOf(e)
    <3>1. FirstDay(MonthOf(d) + i + 1) <= FirstDay(MonthOf(e) + i)
      <4>1. CASE MonthOf(d) + 1 = MonthOf(e)
        <5>1. MonthOf(d) + i + 1 = MonthOf(e) + i
          BY <2>1, <4>1
        <5> QED BY <1>1, <2>1, <5>1
      <4>2. CASE MonthOf(d) + 1 # MonthOf(e)
        <5>1. /\ MonthOf(d) + i + 1 \in Nat /\ MonthOf(e) + i \in Nat
              /\ MonthOf(d) + i + 1 < MonthOf(e) + i
          BY <2>1, <2>4, <4>2
        <5> QED BY <1>1, <5>1, MonthsInOrder
      <4> QED BY <4>1, <4>2
    <3>2. FirstDay(MonthOf(d) + i + 1) \in Int /\ FirstDay(MonthOf(e) + i) \in Int
      BY <1>1, <2>1
    <3> QED BY <2>2, <3>1, <3>2
  <2>5. ~(MonthOf(e) < MonthOf(d))
    <3> SUFFICES ASSUME MonthOf(e) < MonthOf(d) PROVE FALSE
      OBVIOUS
    <3>1. FirstDay(MonthOf(e) + 1) <= FirstDay(MonthOf(d))
      <4>1. CASE MonthOf(e) + 1 = MonthOf(d)
        BY <1>1, <2>1, <4>1
      <4>2. CASE MonthOf(e) + 1 # MonthOf(d)
        <5>1. MonthOf(e) + 1 \in Nat /\ MonthOf(e) + 1 < MonthOf(d)
          BY <2>1, <4>2
        <5> QED BY <1>1, <2>1, <5>1, MonthsInOrder
      <4> QED BY <4>1, <4>2
    <3>2. FirstDay(MonthOf(e) + 1) \in Int /\ FirstDay(MonthOf(d)) \in Int
      BY <1>1, <2>1
    <3> QED BY <2>1, <3>1, <3>2
  <2> QED BY <2>1, <2>3, <2>4, <2>5
<1>3. n \in Nat \ {0} /\ 12 * n \in Nat \ {0}
  OBVIOUS
<1>4. addMonths(d, n) <= addMonths(e, n) /\ addMonths(d, 12 * n) <= addMonths(e, 12 * n)
  BY <1>2, <1>3
<1>5. d + n <= e + n /\ d + 7 * n <= e + 7 * n
  OBVIOUS
<1> QED BY <1>4, <1>5 DEF AddInterval, Units

\* The scheduler looks months ahead with Go's AddDate, which runs over the end of a month, for
\* occurrences whose own step clamps (schedule/service.go:390): it never looks too short.
THEOREM HorizonReachesTheStep ==
  ASSUME NEW d \in Nat, NEW n \in Nat \ {0}
  PROVE  AddInterval(d, "month", n) <= AddDateMonths(d, n)
<1> DEFINE k == MonthOf(d) + n
<1>1. \A i \in Nat : FirstDay(i) \in Int
  BY DEF FirstDay, NewYear, DaysBefore, Leap
<1>2. MonthOf(d) \in Nat /\ k \in Nat
  BY MonthContains, MonthIsNat
<1>3. DayIndex(d) \in Int /\ daysInMonth(k) \in Int /\ FirstDay(k) \in Int
  BY <1>1, <1>2 DEF DayIndex, daysInMonth
<1>4. /\ AddInterval(d, "month", n) =
           FirstDay(k) + (IF DayIndex(d) > daysInMonth(k) - 1 THEN daysInMonth(k) - 1 ELSE DayIndex(d))
      /\ AddDateMonths(d, n) = FirstDay(k) + DayIndex(d)
  BY DEF AddInterval, addMonths, AddDateMonths
<1> HIDE DEF k
<1> QED BY <1>3, <1>4

\* recurrence.go's AdjustWeekend: an occurrence is registered on a weekday no further than the
\* weekend is long, left out in the skip mode only, and never put before an earlier one.
THEOREM WeekendsAreLeft ==
  ASSUME NEW d \in Nat, NEW e \in Nat, d <= e, NEW mode \in WeekendModes
  PROVE  /\ mode \in {WeekendBefore, WeekendAfter} => ~IsWeekend(AdjustWeekend(d, mode).date)
         /\ AdjustWeekend(d, mode).date - d \in -2 .. 2
         /\ ~IsWeekend(d) => AdjustWeekend(d, mode).date = d
         /\ AdjustWeekend(d, mode).skip <=> mode = WeekendSkip /\ IsWeekend(d)
         /\ AdjustWeekend(d, mode).date <= AdjustWeekend(e, mode).date
<1> DEFINE To(x) == CASE mode = WeekendBefore /\ x % 7 >= 5 -> x - ((x % 7) - 4)
                      [] mode = WeekendAfter /\ x % 7 >= 5 -> x + (7 - (x % 7))
                      [] OTHER -> x
<1>1. ASSUME NEW x \in Nat
      PROVE  /\ AdjustWeekend(x, mode).date = To(x)
             /\ AdjustWeekend(x, mode).skip <=> mode = WeekendSkip /\ IsWeekend(x)
  BY DEF AdjustWeekend, IsWeekend, Weekday, WeekendModes, WeekendNone, WeekendBefore, WeekendAfter, WeekendSkip
<1>2. ASSUME NEW x \in Nat
      PROVE  /\ To(x) \in Int /\ To(x) - x \in -2 .. 2
             /\ mode \in {WeekendBefore, WeekendAfter} => To(x) % 7 < 5
             /\ x % 7 < 5 => To(x) = x
  <2> DEFINE r == x % 7
  <2>1. r \in 0 .. 6
    OBVIOUS
  <2>2. To(x) = x \/ (mode = 1 /\ r >= 5 /\ To(x) = x - (r - 4)) \/ (mode = 2 /\ r >= 5 /\ To(x) = x + (7 - r))
    BY DEF WeekendBefore, WeekendAfter
  <2>3. mode \in {1, 2} /\ r >= 5 => To(x) # x
    BY <2>1 DEF WeekendBefore, WeekendAfter
  <2>4. r < 5 => To(x) = x
    BY <2>1 DEF WeekendBefore, WeekendAfter
  <2>5. \A y \in Int : /\ r >= 5 /\ y = x - (r - 4) => y % 7 = 4
                       /\ r >= 5 /\ y = x + (7 - r) => y % 7 = 0
    BY <2>1
  <2> HIDE DEF To, r
  <2>6. To(x) \in Int /\ To(x) - x \in -2 .. 2
    BY <2>1, <2>2
  <2>7. ASSUME mode \in {1, 2}, r >= 5
        PROVE  To(x) % 7 < 5
    BY <2>2, <2>3, <2>5, <2>6, <2>7
  <2>8. ASSUME r < 5
        PROVE  To(x) % 7 < 5
    <3>1. To(x) = x
      BY <2>4, <2>8
    <3> QED BY <2>8, <3>1 DEF r
  <2>9. mode \in {WeekendBefore, WeekendAfter} => mode \in {1, 2}
    BY DEF WeekendBefore, WeekendAfter
  <2> QED BY <2>1, <2>4, <2>6, <2>7, <2>8, <2>9 DEF r
<1>3. To(d) <= To(e)
  <2> DEFINE r == d % 7
             s == e % 7
  <2>1. r \in 0 .. 6 /\ s \in 0 .. 6 /\ e - d \in Nat
    OBVIOUS
  <2>2. e - d < 7 => s = IF r + (e - d) < 7 THEN r + (e - d) ELSE r + (e - d) - 7
    OBVIOUS
  <2>3. /\ To(d) = IF mode = 1 /\ r >= 5 THEN d - (r - 4) ELSE IF mode = 2 /\ r >= 5 THEN d + (7 - r) ELSE d
        /\ To(e) = IF mode = 1 /\ s >= 5 THEN e - (s - 4) ELSE IF mode = 2 /\ s >= 5 THEN e + (7 - s) ELSE e
    BY DEF WeekendBefore, WeekendAfter
  <2> HIDE DEF r, s, To
  <2> QED BY <2>1, <2>2, <2>3
<1> HIDE DEF To
<1>4. ~IsWeekend(d) => d % 7 < 5
  BY DEF IsWeekend, Weekday
<1>5. mode \in {WeekendBefore, WeekendAfter} => ~IsWeekend(To(d))
  BY <1>2 DEF IsWeekend, Weekday
<1> QED BY <1>1, <1>2, <1>3, <1>4, <1>5

-----------------------------------------------------------------------------
(***************************************************************************)
(* The calendar walked one day at a time (CalendarWalk), for however long.  *)
(***************************************************************************)
CONSTANTS LastDay, Steps
VARIABLES day, year, month, dom

K == INSTANCE CalendarWalk

\* The walk computes with the operators of Recurrence.
LEMMA SameDays ==
  /\ \A d : K!YearOf(d) = YearOf(d)
  /\ \A k : K!FirstDay(k) = FirstDay(k)
  /\ \A d : K!IsWeekend(d) = IsWeekend(d) /\ K!Weekday(d) = Weekday(d)
<1>1. \A d : K!YearOf(d) = YearOf(d)
  BY DEF K!YearOf, YearOf
<1>2. \A k : K!FirstDay(k) = FirstDay(k)
  BY DEF K!FirstDay, K!NewYear, K!DaysBefore, K!Leap, FirstDay, NewYear, DaysBefore, Leap
<1>3. \A d : K!IsWeekend(d) = IsWeekend(d) /\ K!Weekday(d) = Weekday(d)
  BY DEF K!IsWeekend, K!Weekday, IsWeekend, Weekday
<1> QED BY <1>1, <1>2, <1>3

LEMMA SameMonth ==
  ASSUME NEW d
  PROVE  K!MonthOf(d) = MonthOf(d) /\ K!DayIndex(d) = DayIndex(d)
<1>1. K!MonthOf(d) = MonthOf(d)
  BY DEF K!MonthOf, K!YearOf, K!DaysBefore, K!NewYear, K!Leap, MonthOf, YearOf, DaysBefore, NewYear, Leap
<1> QED BY <1>1, SameDays DEF K!DayIndex, DayIndex

LEMMA SameSteps ==
  ASSUME NEW d
  PROVE  /\ \A k : K!daysInMonth(k) = daysInMonth(k)
         /\ \A n : K!addMonths(d, n) = addMonths(d, n) /\ K!AddDateMonths(d, n) = AddDateMonths(d, n)
         /\ \A unit, n : K!AddInterval(d, unit, n) = AddInterval(d, unit, n)
         /\ \A mode : K!AdjustWeekend(d, mode) = AdjustWeekend(d, mode)
<1>1. \A k : K!daysInMonth(k) = daysInMonth(k)
  BY SameDays DEF K!daysInMonth, daysInMonth
<1>2. \A n : K!addMonths(d, n) = addMonths(d, n) /\ K!AddDateMonths(d, n) = AddDateMonths(d, n)
  BY <1>1, SameDays, SameMonth DEF K!addMonths, addMonths, K!AddDateMonths, AddDateMonths
<1>3. \A unit, n : K!AddInterval(d, unit, n) = AddInterval(d, unit, n)
  BY <1>2 DEF K!AddInterval, AddInterval
<1>4. \A mode : K!AdjustWeekend(d, mode) = AdjustWeekend(d, mode)
  BY SameDays DEF K!AdjustWeekend, AdjustWeekend, K!WeekendBefore, K!WeekendAfter, K!WeekendSkip,
                  WeekendBefore, WeekendAfter, WeekendSkip
<1> QED BY <1>1, <1>2, <1>3, <1>4

\* Months are as long as everybody knows, February of a leap year included.
LEMMA MonthLengths ==
  ASSUME NEW y \in Nat, NEW m \in 0 .. 11
  PROVE  /\ FirstDay(12 * y + m) = NewYear(y) + DaysBefore(m, Leap(y))
         /\ daysInMonth(12 * y + m) = K!Length(y, m)
         /\ K!Length(y, m) \in 28 .. 31
<1>1. (12 * y + m) \div 12 = y /\ (12 * y + m) % 12 = m
  OBVIOUS
<1>2. FirstDay(12 * y + m) = NewYear(y) + DaysBefore(m, Leap(y))
  BY <1>1 DEF FirstDay
<1>3. Leap(y) \in {0, 1} /\ NewYear(y) \in Int /\ (y % 4 = 0 <=> Leap(y) = 1)
  BY DEF Leap, NewYear
<1>4. K!Length(y, m) = (CASE m = 1 -> 28 + Leap(y) [] m \in {3, 5, 8, 10} -> 30 [] OTHER -> 31)
  BY DEF K!Length, Leap
<1>5. PICK l \in {0, 1} : l = Leap(y)
  BY <1>3
<1>6. m = 0 \/ m = 1 \/ m = 2 \/ m = 3 \/ m = 4 \/ m = 5 \/ m = 6 \/ m = 7 \/ m = 8 \/ m = 9 \/ m = 10 \/ m = 11
  OBVIOUS
<1>7. DaysBefore(m + 1, l) - DaysBefore(m, l) = K!Length(y, m)
  BY <1>4, <1>5, <1>6 DEF DaysBefore
<1>8. FirstDay(12 * y + m + 1) = NewYear(y) + DaysBefore(m + 1, l)
  <2>1. CASE m < 11
    <3>1. (12 * y + m + 1) \div 12 = y /\ (12 * y + m + 1) % 12 = m + 1
      BY <2>1
    <3> QED BY <1>5, <3>1 DEF FirstDay
  <2>2. CASE m = 11
    <3>1. (12 * y + m + 1) \div 12 = y + 1 /\ (12 * y + m + 1) % 12 = 0
      BY <2>2
    <3>2. NewYear(y + 1) = NewYear(y) + 365 + Leap(y)
      BY DEF NewYear, Leap
    <3>3. DaysBefore(12, l) = 365 + l /\ DaysBefore(0, Leap(y + 1)) = 0
      BY <1>5 DEF DaysBefore
    <3> QED BY <1>3, <1>5, <2>2, <3>1, <3>2, <3>3 DEF FirstDay
  <2> QED BY <2>1, <2>2
<1>9. DaysBefore(m, l) \in Nat /\ DaysBefore(m + 1, l) \in Nat
  BY <1>5, MonthStarts
<1>10. daysInMonth(12 * y + m) = DaysBefore(m + 1, l) - DaysBefore(m, l)
  BY <1>2, <1>3, <1>5, <1>8, <1>9 DEF daysInMonth
<1>11. K!Length(y, m) \in 28 .. 31
  BY <1>3, <1>4
<1> QED BY <1>2, <1>7, <1>10, <1>11

\* Where the walk is: in its month, on its day of it.
WalkInv == /\ day \in Nat /\ year \in Nat /\ month \in 0 .. 11
           /\ dom \in 1 .. K!Length(year, month)
           /\ FirstDay(12 * year + month) + dom - 1 = day

LEMMA WalkStep ==
  ASSUME WalkInv, [K!Next]_(K!walk)
  PROVE  WalkInv'
<1>1. CASE UNCHANGED K!walk
  BY <1>1 DEF K!walk, WalkInv
<1>2. /\ day \in Nat /\ year \in Nat /\ month \in 0 .. 11 /\ dom \in Nat
      /\ FirstDay(12 * year + month) \in Int /\ FirstDay(12 * year + month + 1) \in Int
      /\ K!Length(year, month) \in 28 .. 31
      /\ FirstDay(12 * year + month + 1) - FirstDay(12 * year + month) = K!Length(year, month)
  <2>1. \A i \in Nat : FirstDay(i) \in Int
    BY DEF FirstDay, NewYear, DaysBefore, Leap
  <2>2. year \in Nat /\ month \in 0 .. 11
    BY DEF WalkInv
  <2>3. 12 * year + month \in Nat /\ 12 * year + month + 1 \in Nat
    BY <2>2
  <2>4. K!Length(year, month) \in 28 .. 31
    BY <2>2, MonthLengths
  <2>5. daysInMonth(12 * year + month) = K!Length(year, month)
    BY <2>2, MonthLengths
  <2> QED BY <2>1, <2>2, <2>3, <2>4, <2>5 DEF WalkInv, daysInMonth
<1>3. CASE K!Next /\ K!NextDayOfMonth
  BY <1>2, <1>3 DEF K!Next, K!NextDayOfMonth, WalkInv
<1>4. ASSUME K!Next, dom = K!Length(year, month), dom' = 1, year' \in Nat, month' \in 0 .. 11,
             12 * year' + month' = 12 * year + month + 1
      PROVE  WalkInv'
  <2>1. K!Length(year', month') \in 28 .. 31
    BY <1>4, MonthLengths
  <2>2. day' = day + 1 /\ day = FirstDay(12 * year + month) + dom - 1
    BY <1>4 DEF K!Next, WalkInv
  <2>3. FirstDay(12 * year' + month') = day'
    <3>1. FirstDay(12 * year + month + 1) = day'
      BY <1>2, <1>4, <2>2
    <3> QED BY <1>4, <3>1
  <2>4. day' \in Nat /\ FirstDay(12 * year' + month') + dom' - 1 = day'
    BY <1>2, <1>4, <2>2, <2>3
  <2>5. dom' \in 1 .. K!Length(year', month')
    BY <1>4, <2>1
  <2> QED BY <1>4, <2>4, <2>5 DEF WalkInv
<1>5. CASE K!Next /\ K!NextMonth
  <2>1. dom = K!Length(year, month) /\ month < 11 /\ dom' = 1 /\ month' = month + 1 /\ year' = year
    BY <1>5 DEF K!NextMonth
  <2>2. year' \in Nat /\ month' \in 0 .. 11 /\ 12 * year' + month' = 12 * year + month + 1
    BY <1>2, <2>1
  <2> QED BY <1>4, <1>5, <2>1, <2>2
<1>6. CASE K!Next /\ K!NextYear
  <2>1. dom = K!Length(year, month) /\ month = 11 /\ dom' = 1 /\ month' = 0 /\ year' = year + 1
    BY <1>6 DEF K!NextYear
  <2>2. year' \in Nat /\ month' \in 0 .. 11 /\ 12 * year' + month' = 12 * year + month + 1
    BY <1>2, <2>1
  <2> QED BY <1>4, <1>6, <2>1, <2>2
<1> QED BY <1>1, <1>3, <1>5, <1>6 DEF K!Next

\* Where the walk is, is where the recurrence says it is.
LEMMA WalkAgrees ==
  ASSUME WalkInv
  PROVE  /\ MonthOf(day) = 12 * year + month /\ YearOf(day) = year /\ DayIndex(day) = dom - 1
         /\ daysInMonth(12 * year + month) = K!Length(year, month)
<1>1. /\ day \in Nat /\ year \in Nat /\ month \in 0 .. 11 /\ dom \in Nat
      /\ 1 <= dom /\ dom <= K!Length(year, month)
      /\ FirstDay(12 * year + month) + dom - 1 = day
  BY MonthLengths DEF WalkInv
<1>2. \A i \in Nat : FirstDay(i) \in Int
  BY DEF FirstDay, NewYear, DaysBefore, Leap
<1>3. daysInMonth(12 * year + month) = K!Length(year, month) /\ K!Length(year, month) \in Int
  <2>1. daysInMonth(12 * year + month) = K!Length(year, month) /\ K!Length(year, month) \in 28 .. 31
    BY <1>1, MonthLengths
  <2> QED BY <2>1
<1>4. PICK k \in Nat : k = 12 * year + month
  BY <1>1
<1>5. FirstDay(k) <= day /\ day < FirstDay(k + 1)
  <2>1. FirstDay(k) \in Int /\ FirstDay(k + 1) \in Int
    BY <1>2, <1>4
  <2>2. FirstDay(k + 1) - FirstDay(k) = K!Length(year, month)
    BY <1>3, <1>4 DEF daysInMonth
  <2> QED BY <1>1, <1>3, <1>4, <2>1, <2>2
<1>6. MonthOf(day) = k
  BY <1>1, <1>4, <1>5, MonthIsTheOne
<1>7. DayIndex(day) = dom - 1
  BY <1>1, <1>2, <1>4, <1>6 DEF DayIndex
<1>8. YearOf(day) = year
  <2>1. MonthOf(day) \div 12 = YearOf(day)
    BY <1>1, MonthContains, MonthIsNat
  <2> QED BY <1>1, <1>4, <1>6, <2>1
<1> QED BY <1>3, <1>4, <1>6, <1>7, <1>8

\* A step of months from where the walk is lands as the code's comment says.
LEMMA WalkLands ==
  ASSUME WalkInv, NEW n \in Nat \ {0}
  PROVE  K!Lands(addMonths(day, n), n)
<1> DEFINE m == (month + n) % 12
           y == year + ((month + n) \div 12)
           last == K!Length(y, m)
           to == addMonths(day, n)
<1>1. year \in Nat /\ month \in 0 .. 11 /\ day \in Nat /\ dom \in Nat
  BY MonthLengths DEF WalkInv
<1>2. m \in 0 .. 11 /\ y \in Nat /\ 12 * y + m = 12 * year + month + n
  BY <1>1
<1>3. daysInMonth(12 * y + m) = last /\ last \in 28 .. 31
  BY <1>2, MonthLengths
<1> HIDE DEF m, y, last
<1>4. MonthOf(day) = 12 * year + month /\ DayIndex(day) = dom - 1
  BY WalkAgrees
<1>5. /\ MonthOf(to) = 12 * y + m
      /\ DayIndex(to) = IF dom - 1 < last THEN dom - 1 ELSE last - 1
  BY <1>1, <1>2, <1>3, <1>4, MonthStepsLandOrClamp
<1>6. DayIndex(to) + 1 = (IF dom > last THEN last ELSE dom)
  BY <1>1, <1>3, <1>5
<1>7. K!MonthOf(to) = 12 * y + m /\ K!DayIndex(to) + 1 = (IF dom > last THEN last ELSE dom)
  BY <1>5, <1>6, SameMonth
<1> QED BY <1>7 DEF K!Lands, m, y, last

\* recurrence.go, over a calendar walked one day at a time for however long: the calendar computed
\* is the one everybody knows, month steps clamp in it, every step moves on, the scheduler's
\* horizon reaches every step, and what is moved off a weekend lands on a weekday, in order.
THEOREM TheCalendarIsKept ==
  ASSUME K!WalkConstants
  PROVE  K!Spec => []K!StepsKeepTheCalendar
<1>1. K!Init => WalkInv
  <2>1. FirstDay(0) = 0
    BY DEF FirstDay, NewYear, DaysBefore, Leap
  <2>2. K!Length(0, 0) \in 28 .. 31
    BY MonthLengths
  <2> QED BY <2>1, <2>2 DEF K!Init, WalkInv
<1>2. WalkInv /\ [K!Next]_(K!walk) => WalkInv'
  BY WalkStep
<1>3. ASSUME WalkInv PROVE K!StepsKeepTheCalendar
  <2>1. day \in Nat /\ Steps \subseteq Nat \ {0}
    BY <1>3 DEF WalkInv, K!WalkConstants
  <2>2. K!CalendarAgrees
    <3>1. year = 0 /\ month = 2 /\ dom = 1 => Weekday(day) = 4
      <4>1. FirstDay(2) = 60
        BY DEF FirstDay, NewYear, DaysBefore, Leap
      <4> QED BY <1>3, <4>1 DEF WalkInv, Weekday
    <3> QED BY <1>3, <3>1, WalkAgrees, SameDays, SameMonth, SameSteps DEF K!CalendarAgrees, WalkInv
  <2>3. K!MonthStepsClamp
    <3>1. ASSUME NEW n \in Steps
          PROVE  /\ K!Lands(K!AddInterval(day, "month", n), n)
                 /\ K!Lands(K!AddInterval(day, "year", n), 12 * n)
      <4>1. n \in Nat \ {0} /\ 12 * n \in Nat \ {0}
        BY <2>1, <3>1
      <4>2. K!Lands(addMonths(day, n), n) /\ K!Lands(addMonths(day, 12 * n), 12 * n)
        BY <1>3, <4>1, WalkLands
      <4>3. /\ K!AddInterval(day, "month", n) = addMonths(day, n)
            /\ K!AddInterval(day, "year", n) = addMonths(day, 12 * n)
        BY SameSteps DEF AddInterval
      <4> QED BY <4>2, <4>3
    <3> QED BY <3>1 DEF K!MonthStepsClamp
  <2>4. K!StepsAdvance
    <3>1. ASSUME NEW unit \in Units, NEW n \in Steps
          PROVE  K!AddInterval(day, unit, n) > day
      <4>1. n \in Nat \ {0} /\ K!AddInterval(day, unit, n) = AddInterval(day, unit, n)
        BY <2>1, SameSteps
      <4> QED BY <2>1, <4>1, AddIntervalAdvances
    <3> QED BY <3>1 DEF K!StepsAdvance, K!Units, Units
  <2>5. K!HorizonReachesStep
    <3>1. ASSUME NEW n \in Steps
          PROVE  AddInterval(day, "month", n) <= AddDateMonths(day, n) /\ AddInterval(day, "month", n) \in Nat
                 /\ AddDateMonths(day, n) \in Int
      <4>1. n \in Nat \ {0}
        BY <2>1, <3>1
      <4>2. AddDateMonths(day, n) \in Int
        <5>1. \A i \in Nat : FirstDay(i) \in Int
          BY DEF FirstDay, NewYear, DaysBefore, Leap
        <5>2. MonthOf(day) \in Nat /\ MonthOf(day) + n \in Nat
          BY <2>1, <4>1, MonthContains, MonthIsNat
        <5> QED BY <2>1, <5>1, <5>2 DEF AddDateMonths, DayIndex
      <4> QED BY <2>1, <4>1, <4>2, HorizonReachesTheStep, AddIntervalAdvances DEF Units
    <3> QED BY <3>1, SameSteps DEF K!HorizonReachesStep
  <2>6. K!WeekendRespected
    <3>1. ASSUME NEW mode \in WeekendModes
          PROVE  /\ mode \in {WeekendBefore, WeekendAfter} =>
                      /\ ~IsWeekend(AdjustWeekend(day, mode).date)
                      /\ AdjustWeekend(day, mode).date - day \in -2 .. 2
                      /\ AdjustWeekend(day, mode).date # day <=> IsWeekend(day)
                 /\ AdjustWeekend(day, mode).skip <=> (mode = WeekendSkip /\ IsWeekend(day))
                 /\ AdjustWeekend(day, mode).date <= AdjustWeekend(day + 1, mode).date
      <4>1. day + 1 \in Nat /\ day <= day + 1
        BY <2>1
      <4> QED BY <2>1, <4>1, WeekendsAreLeft
    <3> QED BY <3>1, SameDays, SameSteps
            DEF K!WeekendRespected, K!WeekendModes, K!WeekendBefore, K!WeekendAfter, K!WeekendSkip,
                WeekendModes, WeekendBefore, WeekendAfter, WeekendSkip
  <2> QED BY <2>2, <2>3, <2>4, <2>5, <2>6 DEF K!StepsKeepTheCalendar
<1> QED BY <1>1, <1>2, <1>3, PTL DEF K!Spec

----------------------------------------------------------------------------
(* Reports: its address and its periods. *)

CONSTANTS Movements, ParentOf, Offered, Accounts, Vehicles, Names, AtFirst, TopRows,
          FirstToday, LastToday, MaxSteps, None
VARIABLES url, views, civilDay, phone, picked, expanded, picking, steps

Q == INSTANCE Reports WITH today <- civilDay

\* The reports compute with the operators of Recurrence.
LEMMA SameInReports ==
  /\ \A k : Q!FirstDay(k) = FirstDay(k)
  /\ \A d : Q!MonthOf(d) = MonthOf(d)
  /\ \A d : Q!Weekday(d) = Weekday(d)
<1>1. \A k : Q!FirstDay(k) = FirstDay(k)
  BY DEF Q!FirstDay, Q!NewYear, Q!DaysBefore, Q!Leap, FirstDay, NewYear, DaysBefore, Leap
<1>2. \A d : Q!MonthOf(d) = MonthOf(d)
  BY DEF Q!MonthOf, Q!YearOf, Q!DaysBefore, Q!NewYear, Q!Leap, MonthOf, YearOf, DaysBefore, NewYear, Leap
<1>3. \A d : Q!Weekday(d) = Weekday(d)
  BY DEF Q!Weekday, Weekday
<1> QED BY <1>1, <1>2, <1>3

\* A month's first day is in it, and the months before a later one end before it.
LEMMA MonthsAreApart ==
  /\ \A k \in Int : FirstDay(k) \in Int /\ MonthOf(FirstDay(k)) = k
  /\ \A j, k \in Int : j <= k <=> FirstDay(j) <= FirstDay(k)
<1>1. \A k \in Int : FirstDay(k) \in Int
  BY DEF FirstDay, NewYear, DaysBefore, Leap
<1>2. \A k \in Int : FirstDay(k) < FirstDay(k + 1)
  BY MonthsInOrder
<1>3. \A k \in Int : MonthOf(FirstDay(k)) = k
  BY <1>1, <1>2, MonthIsTheOne
<1>4. ASSUME NEW j \in Int, NEW k \in Int
      PROVE  j <= k <=> FirstDay(j) <= FirstDay(k)
  <2>1. CASE j = k
    BY <1>1, <2>1
  <2>2. CASE j < k
    BY <1>1, <2>2, MonthsInOrder
  <2>3. CASE k < j
    BY <1>1, <2>3, MonthsInOrder
  <2> QED BY <2>1, <2>2, <2>3
<1> QED BY <1>1, <1>3, <1>4

\* The days from the first of month k to the last of the n-th from it.
LEMMA DaysOfMonths ==
  ASSUME NEW d \in Int, NEW k \in Int, NEW n \in Nat \ {0}
  PROVE  (FirstDay(k) <= d /\ d <= FirstDay(k + n) - 1) <=> (k <= MonthOf(d) /\ MonthOf(d) < k + n)
<1> DEFINE m == MonthOf(d)
<1>1. m \in Int /\ FirstDay(m) <= d /\ d < FirstDay(m + 1)
  BY MonthContains
<1> HIDE DEF m
<1>2. \A i \in Int : FirstDay(i) \in Int
  BY MonthsAreApart
<1>3. /\ k <= m => FirstDay(k) <= FirstDay(m)
      /\ m + 1 <= k => FirstDay(m + 1) <= FirstDay(k)
      /\ m + 1 <= k + n => FirstDay(m + 1) <= FirstDay(k + n)
      /\ k + n <= m => FirstDay(k + n) <= FirstDay(m)
  BY <1>1, MonthsAreApart
<1>4. FirstDay(k) \in Int /\ FirstDay(k + n) \in Int /\ FirstDay(m) \in Int /\ FirstDay(m + 1) \in Int
  BY <1>1, <1>2
<1>5. (FirstDay(k) <= d /\ d <= FirstDay(k + n) - 1) <=> (k <= m /\ m < k + n)
  BY <1>1, <1>3, <1>4
<1> QED BY <1>5 DEF m

\* Of the months whose number n divides, the last before a month.
LEMMA WholePeriods ==
  ASSUME NEW m \in Int, NEW n \in {1, 3, 6, 12}
  PROVE  /\ m - (m % n) \in Int /\ (m - (m % n)) % n = 0
         /\ m - (m % n) <= m /\ m < m - (m % n) + n
         /\ \A j \in Int : j % n = 0 /\ j <= m /\ m < j + n => m - (m % n) = j
         /\ \A j \in Int : j % n = 0 => (j + n) % n = 0 /\ (j - n) % n = 0
<1>1. CASE n = 1
  BY <1>1
<1>2. CASE n = 3
  BY <1>2
<1>3. CASE n = 6
  BY <1>3
<1>4. CASE n = 12
  BY <1>4
<1> QED BY <1>1, <1>2, <1>3, <1>4

Sized == {"month", "quarter", "half", "year"}

LEMMA PeriodSizes ==
  /\ Sized = Q!PERIOD_KINDS \ {"all"}
  /\ \A kind \in Sized : Q!MonthsOf(kind) \in {1, 3, 6, 12}
BY DEF Sized, Q!PERIOD_KINDS, Q!MonthsOf

\* A period is the whole one its day lies in.
LEMMA PeriodOfADay ==
  ASSUME NEW kind \in Sized, NEW at, NEW now, (IF at = None THEN now ELSE at) \in Int
  PROVE  \E k \in Int :
           /\ k % Q!MonthsOf(kind) = 0
           /\ Q!periodOf(kind, at, now) = [kind |-> kind, from |-> FirstDay(k),
                                           to |-> FirstDay(k + Q!MonthsOf(kind)) - 1]
           /\ k <= MonthOf(IF at = None THEN now ELSE at)
           /\ MonthOf(IF at = None THEN now ELSE at) < k + Q!MonthsOf(kind)
<1> DEFINE d == IF at = None THEN now ELSE at
           m == MonthOf(d)
           n == Q!MonthsOf(kind)
           k == m - (m % n)
<1>1. m \in Int
  BY MonthContains
<1>2. n \in {1, 3, 6, 12} /\ kind # "all"
  BY PeriodSizes DEF Sized
<1>3. Q!periodOf(kind, at, now) = [kind |-> kind, from |-> FirstDay(k), to |-> FirstDay(k + n) - 1]
  BY <1>2, SameInReports DEF Q!periodOf, Q!From
<1> HIDE DEF n, m
<1>4. k \in Int /\ k % n = 0 /\ k <= m /\ m < k + n
  BY <1>1, <1>2, WholePeriods
<1> HIDE DEF k
<1>5. \E j \in Int : /\ j % n = 0
                     /\ Q!periodOf(kind, at, now) = [kind |-> kind, from |-> FirstDay(j), to |-> FirstDay(j + n) - 1]
                     /\ j <= m /\ m < j + n
  BY <1>3, <1>4
<1> QED BY <1>5 DEF n, m

\* The arrows of the period, from any day.
LEMMA ArrowsGoNextDoor ==
  ASSUME None \notin Int, NEW kind \in Sized, NEW at \in Int \cup {None}, NEW now \in Int, NEW dir \in {-1, 1}
  PROVE  LET p == Q!periodOf(kind, at, now)
             to == Q!shiftPeriod(kind, at, dir, now)
             q == Q!periodOf(kind, to, now)
         IN  /\ to \in Int \cup {None}
             /\ IF dir = 1 THEN q.from = p.to + 1 ELSE q.to + 1 = p.from
             /\ (to = None) <=> Q!isCurrentPeriod(q, now)
<1> DEFINE n == Q!MonthsOf(kind)
           p == Q!periodOf(kind, at, now)
           to == Q!shiftPeriod(kind, at, dir, now)
           q == Q!periodOf(kind, to, now)
<1>1. n \in {1, 3, 6, 12} /\ kind # "all"
  BY PeriodSizes DEF Sized
<1>2. PICK k \in Int : k % n = 0 /\ p = [kind |-> kind, from |-> FirstDay(k), to |-> FirstDay(k + n) - 1]
  <2>1. (IF at = None THEN now ELSE at) \in Int
    OBVIOUS
  <2> QED BY <2>1, PeriodOfADay
<1> DEFINE j == k + dir * n
           to1 == FirstDay(j)
           next == [kind |-> kind, from |-> FirstDay(j), to |-> FirstDay(j + n) - 1]
<1>3. j \in Int /\ j % n = 0 /\ n \in Nat \ {0}
  BY <1>1, <1>2, WholePeriods
<1>4. to1 \in Int /\ MonthOf(to1) = j /\ MonthOf(FirstDay(k)) = k
  BY <1>3, MonthsAreApart
<1> HIDE DEF j
<1>5. ASSUME NEW x, NEW d \in Int, d = (IF x = None THEN now ELSE x), j <= MonthOf(d), MonthOf(d) < j + n
      PROVE  Q!periodOf(kind, x, now) = next
  <2>1. MonthOf(d) \in Int
    BY MonthContains
  <2>2. MonthOf(d) - (MonthOf(d) % n) = j
    <3> DEFINE m == MonthOf(d)
    <3> HIDE DEF m, n
    <3>1. \A i \in Int : i % n = 0 /\ i <= m /\ m < i + n => m - (m % n) = i
      BY <1>1, <2>1, WholePeriods DEF m
    <3>2. m - (m % n) = j
      BY <1>3, <1>5, <3>1 DEF m
    <3> QED BY <3>2 DEF m
  <2> QED BY <1>1, <1>5, <2>2, SameInReports DEF Q!periodOf, Q!From
<1>6. Q!periodOf(kind, to1, now) = next
  <2>1. to1 # None
    BY <1>4
  <2> QED BY <1>1, <1>3, <1>4, <1>5, <2>1
<1>7. to = IF Q!isCurrentPeriod(next, now) THEN None ELSE to1
  <2>1. Q!FirstDay(Q!MonthOf(p.from) + dir * n) = to1
    BY <1>2, <1>4, SameInReports DEF j
  <2> QED BY <1>1, <1>6, <2>1 DEF Q!shiftPeriod
<1>8. q = next
  <2>1. CASE to = to1
    BY <1>6, <2>1
  <2>2. CASE to # to1
    <3>1. to = None /\ Q!isCurrentPeriod(next, now)
      BY <1>7, <2>2
    <3>2. FirstDay(j) # None
      BY <1>4
    <3>3. FirstDay(j) <= now /\ now <= FirstDay(j + n) - 1
      BY <3>1, <3>2 DEF Q!isCurrentPeriod
    <3>4. j <= MonthOf(now) /\ MonthOf(now) < j + n
      BY <1>3, <3>3, DaysOfMonths
    <3> QED BY <1>5, <3>1, <3>4
  <2> QED BY <2>1, <2>2
<1>9. (to = None) <=> Q!isCurrentPeriod(next, now)
  BY <1>4, <1>7
<1>10. to \in Int \cup {None}
  BY <1>4, <1>7
<1>11. IF dir = 1 THEN next.from = p.to + 1 ELSE next.to + 1 = p.from
  <2>1. FirstDay(k) \in Int /\ FirstDay(k + n) \in Int
    BY <1>2, <1>3, MonthsAreApart
  <2>2. CASE dir = 1
    <3>1. j = k + n
      BY <1>2, <1>3, <2>2 DEF j
    <3> QED BY <1>2, <2>1, <2>2, <3>1
  <2>3. CASE dir = -1
    <3>1. j + n = k
      BY <1>2, <1>3, <2>3 DEF j
    <3> QED BY <1>2, <2>1, <2>3, <3>1
  <2> QED BY <2>2, <2>3
<1> QED BY <1>8, <1>9, <1>10, <1>11

ReportFacets == {"transfers", "categoryId", "tags", "amountMax", "hideFuture"}

\* The state of the reports, whatever was chosen in it.
IsReport(s) ==
  /\ s = [tab |-> s.tab, period |-> s.period, at |-> s.at, filters |-> s.filters, type |-> s.type,
          by |-> s.by, bucket |-> s.bucket, accounts |-> s.accounts, vehicle |-> s.vehicle]
  /\ s.filters = [x \in ReportFacets |-> s.filters[x]]
  /\ s.period \in Q!PERIOD_KINDS \cup {None}
  /\ s.at \in Int \cup {None}

\* Of a saved view, what opening it will show.
ViewIsRead(v) ==
  IF v.tab = "reports" THEN v.was = Q!parseReportState(v.search) /\ IsReport(v.was)
                       ELSE "transfers" \in DOMAIN v.filters

ReportInv ==
  /\ civilDay \in Int
  /\ IsReport(Q!state)
  /\ \A v \in views : ViewIsRead(v)

\* What is written of a state is read back.
LEMMA ReportReadsBack ==
  ASSUME NEW s, IsReport(s)
  PROVE  Q!parseReportState(Q!reportStateToParams(s)) = s
<1> DEFINE full == [tab |-> s.tab, p |-> s.period, at |-> s.at, xf |-> s.filters.transfers,
                    fc |-> s.filters.categoryId, ft |-> s.filters.tags, amax |-> s.filters.amountMax,
                    hf |-> s.filters.hideFuture, ty |-> s.type, by |-> s.by, b |-> s.bucket,
                    acc |-> s.accounts, v |-> s.vehicle]
           written == Q!reportStateToParams(s)
           names == {"tab", "p", "at", "xf", "fc", "ft", "amax", "hf", "ty", "by", "b", "acc", "v"}
<1>1. written = [k \in {x \in DOMAIN full : full[x] # Q!Absent[x]} |-> full[k]]
  BY DEF Q!reportStateToParams
<1>2. DOMAIN full = names
  OBVIOUS
<1> HIDE DEF written
<1>3. \A k \in names : Q!Get(written, k, Q!Absent[k]) = full[k]
  BY <1>1, <1>2 DEF Q!Get
<1>4. /\ Q!Get(written, "tab", "spending") = s.tab /\ Q!Get(written, "p", None) = s.period
      /\ Q!Get(written, "at", None) = s.at /\ Q!Get(written, "xf", Q!REPORT_TRANSFERS) = s.filters.transfers
      /\ Q!Get(written, "fc", None) = s.filters.categoryId /\ Q!Get(written, "ft", {}) = s.filters.tags
      /\ Q!Get(written, "amax", None) = s.filters.amountMax /\ Q!Get(written, "hf", FALSE) = s.filters.hideFuture
      /\ Q!Get(written, "ty", "expense") = s.type /\ Q!Get(written, "by", "category") = s.by
      /\ Q!Get(written, "b", None) = s.bucket /\ Q!Get(written, "acc", {}) = s.accounts
      /\ Q!Get(written, "v", None) = s.vehicle
  BY <1>3 DEF Q!Absent
<1> HIDE DEF full
<1>5. s.filters = [transfers |-> s.filters.transfers, categoryId |-> s.filters.categoryId,
                   tags |-> s.filters.tags, amountMax |-> s.filters.amountMax,
                   hideFuture |-> s.filters.hideFuture]
  BY DEF IsReport, ReportFacets
<1>6. Q!parseReportState(written)
        = [tab |-> s.tab, period |-> s.period, at |-> s.at, filters |-> s.filters, type |-> s.type,
           by |-> s.by, bucket |-> s.bucket, accounts |-> s.accounts, vehicle |-> s.vehicle]
  BY <1>4, <1>5 DEF Q!parseReportState
<1> QED BY <1>6 DEF IsReport, written

LEMMA InitialIsReport ==
  /\ IsReport(Q!initialReportState)
  /\ Q!parseReportState(<< >>) = Q!initialReportState
<1>1. IsReport(Q!initialReportState)
  BY DEF IsReport, Q!initialReportState, Q!initialFilters, ReportFacets
<1>2. Q!parseReportState(<< >>) = Q!initialReportState
  BY DEF Q!parseReportState, Q!Get, Q!initialReportState, Q!initialFilters
<1> QED BY <1>1, <1>2

\* The period on screen.
LEMMA PeriodShown ==
  ASSUME Q!ReportConstants, civilDay \in Int, IsReport(Q!state)
  PROVE  /\ Q!effectivePeriod(Q!state) \in Q!PERIOD_KINDS
         /\ Q!period.kind = Q!effectivePeriod(Q!state)
<1>1. Q!effectivePeriod(Q!state) \in Q!PERIOD_KINDS
  BY DEF Q!effectivePeriod, Q!defaultPeriod, Q!PERIOD_KINDS, IsReport
<1>2. Q!period.kind = Q!effectivePeriod(Q!state)
  BY DEF Q!period, Q!periodOf, Q!From
<1> QED BY <1>1, <1>2

\* Every control leads to a state of the reports.
LEMMA OffersAreReports ==
  ASSUME Q!ReportConstants, civilDay \in Int, IsReport(Q!state), NEW s \in Q!Offers
  PROVE  IsReport(s)
<1> DEFINE c == Q!state
<1>1. /\ c = [tab |-> c.tab, period |-> c.period, at |-> c.at, filters |-> c.filters, type |-> c.type,
              by |-> c.by, bucket |-> c.bucket, accounts |-> c.accounts, vehicle |-> c.vehicle]
      /\ c.filters = [x \in ReportFacets |-> c.filters[x]]
      /\ c.period \in Q!PERIOD_KINDS \cup {None} /\ c.at \in Int \cup {None}
  BY DEF IsReport
<1>2. CASE s \in Q!PeriodBar
  <2>1. CASE \E k \in Q!PERIOD_KINDS : s = [Q!state EXCEPT !.period = k]
    <3>1. PICK k \in Q!PERIOD_KINDS : s = [c EXCEPT !.period = k]
      BY <2>1
    <3> HIDE DEF c
    <3> QED BY <1>1, <3>1 DEF IsReport
  <2>2. CASE \E dir \in {-1, 1} : /\ Q!period.kind # "all"
                                  /\ s = [Q!state EXCEPT !.at = Q!shiftPeriod(Q!period.kind, Q!state.at, dir, civilDay)]
    <3>1. PICK dir \in {-1, 1} : /\ Q!period.kind # "all"
                                 /\ s = [c EXCEPT !.at = Q!shiftPeriod(Q!period.kind, c.at, dir, civilDay)]
      BY <2>2
    <3>2. Q!period.kind \in Sized /\ None \notin Int
      BY <3>1, PeriodShown, PeriodSizes DEF Q!ReportConstants
    <3>3. Q!shiftPeriod(Q!period.kind, c.at, dir, civilDay) \in Int \cup {None}
      <4> HIDE DEF c
      <4> QED BY <1>1, <3>2, ArrowsGoNextDoor
    <3> HIDE DEF c
    <3> QED BY <1>1, <3>1, <3>3 DEF IsReport
  <2> QED BY <1>2, <2>1, <2>2 DEF Q!PeriodBar
<1>3. CASE \E facet \in ReportFacets : \E v : s = [Q!state EXCEPT !.filters[facet] = v]
  <2>0. PICK facet \in ReportFacets : \E v : s = [c EXCEPT !.filters[facet] = v]
    BY <1>3
  <2>1. PICK v : s = [c EXCEPT !.filters[facet] = v]
    BY <2>0
  <2> HIDE DEF c
  <2>2. s.filters = [c.filters EXCEPT ![facet] = v]
    BY <1>1, <2>1
  <2>3. s.filters = [x \in ReportFacets |-> s.filters[x]]
    BY <1>1, <2>2
  <2> QED BY <1>1, <2>1, <2>3 DEF IsReport
<1>4. s \in Q!FilterPanel \cup Q!reportChips => \E facet \in ReportFacets : \E v : s = [Q!state EXCEPT !.filters[facet] = v]
  <2>1. DOMAIN Q!initialFilters = ReportFacets
    BY DEF Q!initialFilters, ReportFacets
  <2>2. ASSUME s \in Q!FilterPanel
        PROVE  \E facet \in ReportFacets : \E v : s = [Q!state EXCEPT !.filters[facet] = v]
    <3>1. PICK facet \in DOMAIN Offered : s \in {[Q!state EXCEPT !.filters[facet] = v] : v \in Offered[facet]}
      BY <2>2 DEF Q!FilterPanel
    <3>2. PICK v \in Offered[facet] : s = [Q!state EXCEPT !.filters[facet] = v]
      BY <3>1
    <3>3. facet \in ReportFacets
      BY <2>1 DEF Q!ReportConstants
    <3> QED BY <3>2, <3>3
  <2>3. ASSUME s \in Q!reportChips
        PROVE  \E facet \in ReportFacets : \E v : s = [Q!state EXCEPT !.filters[facet] = v]
    <3>1. PICK facet \in ReportFacets : s = [Q!state EXCEPT !.filters[facet] = Q!initialFilters[facet]]
      BY <2>1, <2>3 DEF Q!reportChips
    <3> QED BY <3>1
  <2> QED BY <2>2, <2>3
<1>5. CASE s \in Q!TabsBar \cup Q!SpendingControls \cup Q!FlowControls \cup Q!AccountPicker \cup Q!VehiclePicker
  <2>1. \E v : \/ s = [c EXCEPT !.tab = v] \/ s = [c EXCEPT !.type = v] \/ s = [c EXCEPT !.by = v]
               \/ s = [c EXCEPT !.bucket = v] \/ s = [c EXCEPT !.accounts = v] \/ s = [c EXCEPT !.vehicle = v]
    BY <1>5 DEF Q!TabsBar, Q!SpendingControls, Q!FlowControls, Q!AccountPicker, Q!VehiclePicker
  <2> HIDE DEF c
  <2> QED BY <1>1, <2>1 DEF IsReport
<1> QED BY <1>2, <1>3, <1>4, <1>5 DEF Q!Offers

\* What a saved view opens on, of this version or an earlier one.
LEMMA ViewsOpen ==
  ASSUME NEW v, ViewIsRead(v)
  PROVE  /\ IsReport(Q!parseReportState(Q!viewToSearch(v)))
         /\ IF v.tab = "reports" THEN Q!parseReportState(Q!viewToSearch(v)) = v.was
            ELSE Q!parseReportState(Q!viewToSearch(v)).filters.transfers = v.filters.transfers
<1>1. CASE v.tab = "reports"
  BY <1>1 DEF ViewIsRead, Q!viewToSearch
<1>2. CASE v.tab # "reports"
  <2>1. PICK tab, by : Q!viewToSearch(v) = Q!reportStateToParams(
                         [Q!initialReportState EXCEPT !.tab = tab, !.filters = Q!OverInitial(v.filters), !.by = by])
    BY <1>2 DEF Q!viewToSearch
  <2> DEFINE s == [Q!initialReportState EXCEPT !.tab = tab, !.filters = Q!OverInitial(v.filters), !.by = by]
  <2>2. DOMAIN Q!initialFilters = ReportFacets
    BY DEF Q!initialFilters, ReportFacets
  <2>3. Q!OverInitial(v.filters) = [x \in ReportFacets |-> Q!OverInitial(v.filters)[x]]
    BY <2>2 DEF Q!OverInitial
  <2>4. IsReport(s) /\ s.filters = Q!OverInitial(v.filters)
    <3> DEFINE f == Q!OverInitial(v.filters)
    <3>1. s = [tab |-> tab, period |-> None, at |-> None, filters |-> f, type |-> "expense", by |-> by,
               bucket |-> None, accounts |-> {}, vehicle |-> None]
      <4> HIDE DEF f
      <4>1. s = [Q!initialReportState EXCEPT !.tab = tab, !.filters = f, !.by = by]
        BY DEF f
      <4> HIDE DEF s
      <4> QED BY <4>1 DEF Q!initialReportState
    <3> HIDE DEF f, s
    <3>2. s.filters = f
      BY <3>1
    <3>3. s.filters = [x \in ReportFacets |-> s.filters[x]]
      BY <2>3, <3>2 DEF f
    <3>4. IsReport(s)
      BY <3>1, <3>3 DEF IsReport
    <3> QED BY <3>2, <3>4 DEF f
  <2>5. Q!OverInitial(v.filters).transfers = v.filters.transfers
    BY <1>2, <2>2 DEF Q!OverInitial, ViewIsRead, ReportFacets
  <2> HIDE DEF s
  <2>6. Q!parseReportState(Q!viewToSearch(v)) = s
    BY <2>1, <2>4, ReportReadsBack DEF s
  <2> QED BY <1>2, <2>4, <2>5, <2>6
<1> QED BY <1>1, <1>2

LEMMA ReportStarts ==
  ASSUME Q!ReportConstants
  PROVE  Q!Init => ReportInv
BY InitialIsReport DEF Q!Init, Q!ReportConstants, ReportInv, ViewIsRead, Q!state

LEMMA ReportSteps ==
  ASSUME Q!ReportConstants
  PROVE  ReportInv /\ [Q!Next]_(Q!reportVars) => ReportInv'
<1> SUFFICES ASSUME ReportInv, [Q!Next]_(Q!reportVars)
             PROVE  ReportInv'
  OBVIOUS
<1>1. civilDay \in Int /\ IsReport(Q!state) /\ \A v \in views : ViewIsRead(v)
  BY DEF ReportInv
<1>2. ASSUME UNCHANGED <<views, civilDay>>, NEW s, IsReport(s), url' = Q!reportStateToParams(s)
      PROVE  ReportInv'
  <2>1. Q!state' = s
    BY <1>2, ReportReadsBack DEF Q!state
  <2> QED BY <1>1, <1>2, <2>1 DEF ReportInv
<1>3. ASSUME UNCHANGED <<url, views, civilDay>>
      PROVE  ReportInv'
  BY <1>1, <1>3 DEF ReportInv, Q!state
<1>4. ASSUME NEW s \in Q!Offers, Q!Choose(s)
      PROVE  ReportInv'
  <2>1. IsReport(s)
    BY <1>1, OffersAreReports
  <2> QED BY <1>2, <1>4, <2>1 DEF Q!Choose
<1>5. ASSUME NEW pick \in BOOLEAN, Q!WhichAccounts(pick)
      PROVE  ReportInv'
  <2>1. CASE pick
    BY <1>3, <1>5, <2>1 DEF Q!WhichAccounts
  <2>2. CASE ~pick
    <3> DEFINE s == [Q!state EXCEPT !.accounts = {}]
    <3>1. IsReport(s)
      <4> DEFINE c == Q!state
      <4>1. /\ c = [tab |-> c.tab, period |-> c.period, at |-> c.at, filters |-> c.filters, type |-> c.type,
                    by |-> c.by, bucket |-> c.bucket, accounts |-> c.accounts, vehicle |-> c.vehicle]
            /\ c.filters = [x \in ReportFacets |-> c.filters[x]]
            /\ c.period \in Q!PERIOD_KINDS \cup {None} /\ c.at \in Int \cup {None}
        BY <1>1 DEF IsReport
      <4>2. s = [c EXCEPT !.accounts = {}]
        OBVIOUS
      <4> HIDE DEF c, s
      <4> QED BY <4>1, <4>2 DEF IsReport
    <3> QED BY <1>2, <1>5, <2>2, <3>1 DEF Q!WhichAccounts
  <2> QED BY <2>1, <2>2
<1>6. ASSUME NEW n \in Names, Q!SaveView(n)
      PROVE  ReportInv'
  <2> DEFINE new == [tab |-> "reports", name |-> n, search |-> url, was |-> Q!state]
  <2>1. url' = url /\ civilDay' = civilDay /\ views' \subseteq views \cup {new}
    BY <1>6 DEF Q!SaveView
  <2>2. ViewIsRead(new)
    BY <1>1 DEF ViewIsRead, Q!state
  <2> HIDE DEF new
  <2> QED BY <1>1, <2>1, <2>2 DEF ReportInv, Q!state
<1>7. ASSUME NEW v \in views, Q!DeleteView(v)
      PROVE  ReportInv'
  BY <1>1, <1>7 DEF Q!DeleteView, ReportInv, Q!state
<1>8. ASSUME NEW v \in views, Q!OpenView(v)
      PROVE  ReportInv'
  <2>1. url' = Q!viewToSearch(v) /\ UNCHANGED <<views, civilDay>>
    BY <1>8 DEF Q!OpenView
  <2>2. IsReport(Q!state')
    BY <1>1, <2>1, ViewsOpen DEF Q!state
  <2> QED BY <1>1, <2>1, <2>2 DEF ReportInv
<1>9. CASE Q!NextDay
  BY <1>1, <1>9 DEF Q!NextDay, ReportInv, Q!state
<1>10. CASE \/ \E r \in Q!Range(Q!rows) : Q!PickRow(r.key)
            \/ Q!PickRow(None) \/ Q!Expand \/ Q!Reload \/ Q!Turn \/ UNCHANGED Q!reportVars
  BY <1>3, <1>10 DEF Q!PickRow, Q!Expand, Q!Reload, Q!Turn, Q!reportVars
<1> QED BY <1>4, <1>5, <1>6, <1>7, <1>8, <1>9, <1>10 DEF Q!Next

LEMMA ReportsHold ==
  ASSUME Q!ReportConstants
  PROVE  Q!Spec => []ReportInv
<1>1. Q!Init => ReportInv
  BY ReportStarts
<1>2. ReportInv /\ [Q!Next]_(Q!reportVars) => ReportInv'
  BY ReportSteps
<1> QED BY <1>1, <1>2, PTL DEF Q!Spec

\* The reports (reportState.ts, SavedViewsModal.tsx): every control leads to an address that shows
\* what was chosen, a saved view shows what it was saved of, and one of an earlier version keeps
\* its transfers.
THEOREM ReportsComeBack ==
  ASSUME Q!ReportConstants
  PROVE  Q!Spec => []Q!ReopeningShowsTheSame
<1>1. ReportInv => Q!ReopeningShowsTheSame
  BY OffersAreReports, ReportReadsBack, ViewsOpen DEF ReportInv, Q!ReopeningShowsTheSame
<1> QED BY <1>1, ReportsHold, PTL

\* The arrows of a report's period (reportState.ts, shiftPeriod) lead to the period next door, from
\* any day in any year, and the period today is in is named by no day.
THEOREM PeriodsGoNextDoor ==
  ASSUME Q!ReportConstants
  PROVE  Q!Spec => []Q!StepsGoNextDoor
<1>1. ReportInv => Q!StepsGoNextDoor
  <2> SUFFICES ASSUME ReportInv, Q!period.kind # "all", NEW dir \in {-1, 1}
               PROVE  LET at == Q!shiftPeriod(Q!period.kind, Q!state.at, dir, civilDay)
                          p  == Q!periodOf(Q!period.kind, at, civilDay)
                      IN  /\ IF dir = 1 THEN p.from = Q!period.to + 1 ELSE p.to + 1 = Q!period.from
                          /\ (at = None) <=> Q!isCurrentPeriod(p, civilDay)
    BY DEF Q!StepsGoNextDoor
  <2>1. civilDay \in Int /\ Q!state.at \in Int \cup {None} /\ None \notin Int
    BY DEF ReportInv, IsReport, Q!ReportConstants
  <2>2. Q!period.kind \in Sized /\ Q!period.kind = Q!effectivePeriod(Q!state)
    BY PeriodShown, PeriodSizes DEF ReportInv
  <2>3. Q!period = Q!periodOf(Q!period.kind, Q!state.at, civilDay)
    BY <2>2 DEF Q!period
  <2> DEFINE kind == Q!period.kind
  <2>4. kind \in Sized /\ Q!period = Q!periodOf(kind, Q!state.at, civilDay)
    BY <2>2, <2>3
  <2> HIDE DEF kind
  <2>5. LET at == Q!shiftPeriod(kind, Q!state.at, dir, civilDay)
            p  == Q!periodOf(kind, at, civilDay)
        IN  /\ IF dir = 1 THEN p.from = Q!period.to + 1 ELSE p.to + 1 = Q!period.from
            /\ (at = None) <=> Q!isCurrentPeriod(p, civilDay)
    BY <2>1, <2>4, ArrowsGoNextDoor
  <2> QED BY <2>5 DEF kind
<1> QED BY <1>1, ReportsHold, PTL

\* Bars start no later for an earlier day, and by the day.
LEMMA BarsStartInOrder ==
  ASSUME NEW bar \in {"day", "week", "month"}, NEW d \in Int, NEW e \in Int, d <= e
  PROVE  /\ Q!bucketStart(d, bar) \in Int /\ Q!bucketStart(e, bar) \in Int
         /\ Q!bucketStart(d, bar) <= Q!bucketStart(e, bar)
<1>1. CASE bar = "day"
  BY <1>1 DEF Q!bucketStart
<1>2. CASE bar = "week"
  BY <1>2 DEF Q!bucketStart, Q!Weekday
<1>3. CASE bar = "month"
  <2>1. /\ MonthOf(d) \in Int /\ FirstDay(MonthOf(d)) <= d
        /\ MonthOf(e) \in Int /\ e < FirstDay(MonthOf(e) + 1)
    BY MonthContains
  <2>2. FirstDay(MonthOf(d)) \in Int /\ FirstDay(MonthOf(e)) \in Int /\ FirstDay(MonthOf(e) + 1) \in Int
    BY <2>1, MonthsAreApart
  <2>3. MonthOf(d) <= MonthOf(e)
    <3>1. FirstDay(MonthOf(d)) < FirstDay(MonthOf(e) + 1)
      BY <2>1, <2>2
    <3>2. ~(MonthOf(e) + 1 <= MonthOf(d))
      BY <2>1, <2>2, <3>1, MonthsAreApart
    <3> QED BY <2>1, <3>2
  <2>4. FirstDay(MonthOf(d)) <= FirstDay(MonthOf(e))
    BY <2>1, <2>3, MonthsAreApart
  <2> QED BY <1>3, <2>2, <2>4, SameInReports DEF Q!bucketStart
<1> QED BY <1>1, <1>2, <1>3

\* An axis holds, in order and each once, the bars of the days of a span, the last day's last.
Spans(axis, from, to, bar) ==
  \E n \in Nat \ {0} :
    /\ axis \in [1 .. n -> Int]
    /\ \A i, j \in 1 .. n : i < j => axis[i] < axis[j]
    /\ axis[n] = Q!bucketStart(to, bar)
    /\ \A d \in from .. to : \E i \in 1 .. n : axis[i] = Q!bucketStart(d, bar)

\* The bars of a span: one after another, one for each of its days, the last for its last.
LEMMA BarsOfASpan ==
  ASSUME NEW bar \in {"day", "week", "month"}, NEW from \in Int, NEW to \in Int, from <= to
  PROVE  Spans(Q!GenerateBuckets(from, to, bar), from, to, bar)
<1> DEFINE first == Q!bucketStart(from, bar)
           n == Q!BarsTo(first, to, bar)
           axis == Q!GenerateBuckets(from, to, bar)
<1>1. axis = [i \in 1 .. n |-> Q!nextBucket(first, bar, i - 1)]
  BY DEF Q!GenerateBuckets
<1>2. CASE bar = "day"
  <2>1. first = from /\ n = to - from + 1
    BY <1>2 DEF Q!bucketStart, Q!BarsTo
  <2>2. axis = [i \in 1 .. n |-> from + (i - 1)]
    BY <1>1, <1>2, <2>1 DEF Q!nextBucket
  <2> HIDE DEF n, axis
  <2>3. n \in Nat \ {0} /\ axis \in [1 .. n -> Int] /\ axis[n] = to
    BY <2>1, <2>2
  <2>4. \A i, j \in 1 .. n : i < j => axis[i] < axis[j]
    BY <2>1, <2>2
  <2>5. \A d \in from .. to : d - from + 1 \in 1 .. n /\ axis[d - from + 1] = d
    BY <2>1, <2>2
  <2>6. \A d : Q!bucketStart(d, bar) = d
    BY <1>2 DEF Q!bucketStart
  <2>7. \A d \in from .. to : \E i \in 1 .. n : axis[i] = Q!bucketStart(d, bar)
    BY <2>5, <2>6
  <2>8. Spans(axis, from, to, bar)
    BY <2>3, <2>4, <2>6, <2>7 DEF Spans
  <2> QED BY <2>8 DEF axis
<1>3. CASE bar = "week"
  <2>1. first = from - (from % 7) /\ n = ((to - first) \div 7) + 1
    BY <1>3 DEF Q!bucketStart, Q!BarsTo, Q!Weekday
  <2>2. axis = [i \in 1 .. n |-> first + 7 * (i - 1)]
    BY <1>1, <1>3 DEF Q!nextBucket
  <2>3. \A d : Q!bucketStart(d, bar) = d - (d % 7)
    BY <1>3 DEF Q!bucketStart, Q!Weekday
  <2> HIDE DEF first, n, axis
  <2>4. first \in Int /\ first % 7 = 0 /\ first <= from
    BY <2>1
  <2>5. n \in Nat \ {0}
    BY <2>1, <2>4
  <2>6. axis \in [1 .. n -> Int]
    BY <2>2, <2>4, <2>5
  <2>7. \A i, j \in 1 .. n : i < j => axis[i] < axis[j]
    BY <2>2, <2>4, <2>5
  <2>8. ASSUME NEW d \in Int, first <= d, d <= to
        PROVE  /\ ((d - first) \div 7) + 1 \in 1 .. n
               /\ first + 7 * ((d - first) \div 7) = d - (d % 7)
    BY <2>1, <2>4, <2>8
  <2>9. first + 7 * (n - 1) = to - (to % 7)
    BY <2>1, <2>4, <2>8
  <2>10. axis[n] = Q!bucketStart(to, bar)
    BY <2>2, <2>3, <2>5, <2>9
  <2>11. ASSUME NEW d \in from .. to
         PROVE  \E i \in 1 .. n : axis[i] = Q!bucketStart(d, bar)
    <3> DEFINE i == ((d - first) \div 7) + 1
    <3>1. d \in Int /\ first <= d /\ d <= to
      BY <2>4
    <3>2. i \in 1 .. n /\ first + 7 * (i - 1) = d - (d % 7)
      BY <2>4, <2>8, <3>1
    <3> HIDE DEF i
    <3>3. axis[i] = d - (d % 7)
      BY <2>2, <3>2
    <3> QED BY <2>3, <3>2, <3>3
  <2>12. Spans(axis, from, to, bar)
    BY <2>5, <2>6, <2>7, <2>10, <2>11 DEF Spans
  <2> QED BY <2>12 DEF axis
<1>4. CASE bar = "month"
  <2> DEFINE k == MonthOf(from)
             l == MonthOf(to)
  <2>1. k \in Int /\ l \in Int
    BY MonthContains
  <2>2. first = FirstDay(k) /\ MonthOf(first) = k
    BY <1>4, <2>1, SameInReports, MonthsAreApart DEF Q!bucketStart
  <2>3. n = l - k + 1
    BY <1>4, <2>2, SameInReports DEF Q!BarsTo
  <2>4. axis = [i \in 1 .. n |-> FirstDay(k + (i - 1))]
    BY <1>1, <1>4, <2>2, SameInReports DEF Q!nextBucket
  <2>5. \A d : Q!bucketStart(d, bar) = FirstDay(MonthOf(d))
    BY <1>4, SameInReports DEF Q!bucketStart
  <2>6. ASSUME NEW d \in from .. to
        PROVE  MonthOf(d) \in Int /\ k <= MonthOf(d) /\ MonthOf(d) <= l
    <3>1. d \in Int /\ from <= d /\ d <= to
      OBVIOUS
    <3>2. FirstDay(k) <= FirstDay(MonthOf(d)) /\ FirstDay(MonthOf(d)) <= FirstDay(l)
      BY <1>4, <2>5, <3>1, BarsStartInOrder
    <3>3. MonthOf(d) \in Int
      BY <3>1, MonthContains
    <3> QED BY <2>1, <3>2, <3>3, MonthsAreApart
  <2> HIDE DEF first, n, axis, k, l
  <2>7. k <= l
    <3>1. from \in from .. to
      OBVIOUS
    <3> QED BY <2>6, <3>1 DEF k, l
  <2>8. n \in Nat \ {0}
    BY <2>1, <2>3, <2>7
  <2>9. axis \in [1 .. n -> Int]
    BY <2>1, <2>4, <2>8, MonthsAreApart
  <2>10. ASSUME NEW i \in 1 .. n, NEW j \in 1 .. n, i < j
         PROVE  axis[i] < axis[j]
    <3>1. k + (i - 1) \in Int /\ k + (j - 1) \in Int /\ k + (i - 1) < k + (j - 1)
      BY <2>1, <2>8, <2>10
    <3> QED BY <2>4, <2>8, <3>1, MonthsInOrder
  <2>11. axis[n] = Q!bucketStart(to, bar)
    <3>1. k + (n - 1) = l
      BY <2>1, <2>3
    <3> QED BY <2>4, <2>5, <2>8, <3>1 DEF l
  <2>12. ASSUME NEW d \in from .. to
         PROVE  \E i \in 1 .. n : axis[i] = Q!bucketStart(d, bar)
    <3> DEFINE i == MonthOf(d) - k + 1
    <3>1. i \in 1 .. n /\ k + (i - 1) = MonthOf(d)
      BY <2>1, <2>3, <2>6
    <3> HIDE DEF i
    <3>2. axis[i] = FirstDay(MonthOf(d))
      BY <2>4, <3>1
    <3> QED BY <2>5, <3>1, <3>2
  <2>13. Spans(axis, from, to, bar)
    BY <2>8, <2>9, <2>10, <2>11, <2>12 DEF Spans
  <2> QED BY <2>13 DEF axis
<1> QED BY <1>2, <1>3, <1>4

\* The balances (BalancesTab.tsx): the solid line ends at today's point, whatever the period and
\* the day; a period to come has none, even when its first week has begun.
THEOREM SolidEndsToday ==
  ASSUME Q!ReportConstants
  PROVE  Q!Spec => [](Q!period.kind # "all" => Q!SolidIsPast(Q!BalanceLine))
<1>1. ReportInv => (Q!period.kind # "all" => Q!SolidIsPast(Q!BalanceLine))
  <2> SUFFICES ASSUME ReportInv, Q!period.kind # "all"
               PROVE  Q!SolidIsPast(Q!BalanceLine)
    OBVIOUS
  <2> DEFINE kind == Q!period.kind
             bar == Q!BUCKET(kind)
             size == Q!MonthsOf(kind)
  <2>1. civilDay \in Int /\ Q!state.at \in Int \cup {None} /\ None \notin Int
    BY DEF ReportInv, IsReport, Q!ReportConstants
  <2>2. kind \in Sized /\ kind = Q!effectivePeriod(Q!state)
    BY PeriodShown, PeriodSizes DEF ReportInv
  <2>3. PICK k \in Int : Q!period = [kind |-> kind, from |-> FirstDay(k), to |-> FirstDay(k + size) - 1]
    <3>1. (IF Q!state.at = None THEN civilDay ELSE Q!state.at) \in Int
      BY <2>1
    <3> HIDE DEF kind
    <3>2. Q!period = Q!periodOf(kind, Q!state.at, civilDay)
      BY <2>2 DEF Q!period
    <3> QED BY <2>2, <3>1, <3>2, PeriodOfADay
  <2> DEFINE from == FirstDay(k)
             to == FirstDay(k + size) - 1
             axis == Q!GenerateBuckets(from, to, bar)
             now == Q!bucketStart(civilDay, bar)
  <2>4. from \in Int /\ to \in Int /\ from <= to
    <3>1. size \in {1, 3, 6, 12}
      BY <2>2, PeriodSizes
    <3> HIDE DEF size
    <3>2. k + size \in Int /\ k < k + size
      BY <3>1
    <3> QED BY <3>2, MonthsAreApart, MonthsInOrder
  <2>5. bar \in {"day", "week", "month"}
    BY DEF Q!BUCKET
  <2>6. /\ Q!past <=> to < civilDay
        /\ Q!future <=> from > civilDay
        /\ Q!balanceAxis = axis
    <3>1. Q!period.from = from /\ Q!period.to = to /\ from # None /\ to # None
      BY <2>1, <2>3, <2>4
    <3> HIDE DEF from, to
    <3> QED BY <3>1 DEF Q!past, Q!future, Q!balanceAxis, Q!dateRange
  <2>7. PICK n \in Nat \ {0} :
          /\ axis \in [1 .. n -> Int]
          /\ \A i, j \in 1 .. n : i < j => axis[i] < axis[j]
          /\ axis[n] = Q!bucketStart(to, bar)
          /\ \A d \in from .. to : \E i \in 1 .. n : axis[i] = Q!bucketStart(d, bar)
    <3> HIDE DEF from, to, bar
    <3>1. Spans(axis, from, to, bar)
      BY <2>4, <2>5, BarsOfASpan
    <3> HIDE DEF axis
    <3> QED BY <3>1 DEF Spans
  <2>8. Q!todayIdx(axis) = IF to < civilDay THEN Len(axis) ELSE IF from > civilDay THEN 0 ELSE Q!IndexOf(axis, now)
    BY <2>6 DEF Q!todayIdx
  <2>9. /\ Q!BalanceLine.axis = axis
        /\ Q!BalanceLine.solid = {i \in DOMAIN axis : i <= Q!todayIdx(axis)}
        /\ Q!BalanceLine.dashed \subseteq DOMAIN axis
    BY <2>6 DEF Q!BalanceLine
  <2>10. now \in Int
    <3> HIDE DEF bar
    <3> QED BY <2>1, <2>5, BarsStartInOrder
  <2> HIDE DEF axis, from, to, bar, now
  <2>11. ASSUME NEW i \in 1 .. n
         PROVE  i <= Q!todayIdx(axis) <=> ~Q!future /\ axis[i] <= now
    <3>1. DOMAIN axis = 1 .. n /\ Len(axis) = n /\ \A j \in 1 .. n : axis[j] \in Int
      BY <2>7
    <3>2. CASE to < civilDay
      <4>1. axis[n] <= now
        <5>1. to <= civilDay
          BY <2>1, <2>4, <3>2
        <5>2. Q!bucketStart(to, bar) <= Q!bucketStart(civilDay, bar)
          BY <2>1, <2>4, <2>5, <5>1, BarsStartInOrder
        <5> QED BY <2>7, <5>2 DEF now
      <4>2. axis[i] <= axis[n]
        BY <2>7, <3>1
      <4>3. axis[i] <= now
        BY <2>10, <3>1, <4>1, <4>2
      <4> QED BY <2>1, <2>4, <2>6, <2>8, <3>1, <3>2, <4>3
    <3>3. CASE from > civilDay
      BY <2>1, <2>4, <2>6, <2>8, <3>3
    <3>4. CASE from <= civilDay /\ civilDay <= to
      <4>1. PICK j \in 1 .. n : axis[j] = now
        BY <2>1, <2>4, <2>7, <3>4 DEF now
      <4>2. \A m \in 1 .. n : axis[m] = now => m = j
        <5> SUFFICES ASSUME NEW m \in 1 .. n, axis[m] = now, m # j
                     PROVE  FALSE
          OBVIOUS
        <5>1. m < j \/ j < m
          OBVIOUS
        <5> QED BY <2>7, <2>10, <4>1, <5>1
      <4>3. Q!IndexOf(axis, now) = j
        BY <3>1, <4>1, <4>2 DEF Q!IndexOf
      <4>4. Q!todayIdx(axis) = j
        BY <2>1, <2>4, <2>8, <3>4, <4>3
      <4>5. i <= j <=> axis[i] <= now
        <5>1. CASE i = j
          BY <2>10, <4>1, <5>1
        <5>2. CASE i < j
          BY <2>7, <2>10, <3>1, <4>1, <5>2
        <5>3. CASE j < i
          BY <2>7, <2>10, <3>1, <4>1, <5>3
        <5> QED BY <5>1, <5>2, <5>3
      <4> QED BY <2>1, <2>4, <2>6, <3>4, <4>4, <4>5
    <3> QED BY <2>1, <2>4, <3>2, <3>3, <3>4
  <2>12. DOMAIN axis = 1 .. n
    BY <2>7
  <2> QED BY <2>9, <2>11, <2>12 DEF Q!SolidIsPast, now, bar
<1> QED BY <1>1, ReportsHold, PTL

----------------------------------------------------------------------------
(* RegisterView: its presets, of which neither the address nor what is offered counts. *)

CONSTANTS Ledger, Children, Today, Trim, Links, OtherKeys, Columns
VARIABLES saved, sort, chosen

V == INSTANCE RegisterView

\* The register computes with the operators of Recurrence.
LEMMA SameInRegister ==
  /\ \A k : V!FirstDay(k) = FirstDay(k)
  /\ \A d : V!MonthOf(d) = MonthOf(d)
BY DEF V!FirstDay, V!NewYear, V!DaysBefore, V!Leap, V!MonthOf, V!YearOf,
       FirstDay, NewYear, DaysBefore, Leap, MonthOf, YearOf

\* A preset of whole months holds the day, and lies in any longer one.
LEMMA PresetsOfMonths ==
  ASSUME NEW d \in Int, NEW n \in {1, 3, 6, 12}
  PROVE  LET k == MonthOf(d) - (MonthOf(d) % n) IN
         /\ FirstDay(k) <= d /\ d <= FirstDay(k + n) - 1
         /\ \A j \in {1, 3, 6, 12} :
              LET l == MonthOf(d) - (MonthOf(d) % j) IN
              j >= n => FirstDay(l) <= FirstDay(k) /\ FirstDay(k + n) <= FirstDay(l + j)
<1> DEFINE m == MonthOf(d)
           k == m - (m % n)
<1>1. m \in Int
  BY MonthContains
<1> HIDE DEF m
<1>2. k \in Int /\ k <= m /\ m < k + n
  BY <1>1, WholePeriods
<1>3. FirstDay(k) <= d /\ d <= FirstDay(k + n) - 1
  BY <1>1, <1>2, DaysOfMonths DEF m
<1>4. ASSUME NEW j \in {1, 3, 6, 12}, j >= n
      PROVE  FirstDay(m - (m % j)) <= FirstDay(k) /\ FirstDay(k + n) <= FirstDay(m - (m % j) + j)
  <2> DEFINE l == m - (m % j)
  <2>1. l \in Int /\ l <= m /\ m < l + j
    BY <1>1, WholePeriods
  <2>2. l <= k /\ k + n <= l + j
    BY <1>1, <1>4
  <2> HIDE DEF k, l
  <2>3. l \in Int /\ k \in Int /\ k + n \in Int /\ l + j \in Int
    BY <1>2, <2>1
  <2> QED BY <2>2, <2>3, MonthsAreApart DEF l
<1> QED BY <1>3, <1>4 DEF m

\* The register's presets (registerFilterModel.ts, dateBounds) hold today and nest, whatever
\* the day and the other filters.
THEOREM PresetsHoldToday ==
  ASSUME Today \in Int, None \notin Int
  PROVE  V!Spec => []V!PresetsHoldToday
<1> DEFINE B(p) == V!dateBounds([V!filters EXCEPT !.preset = p], Today)
           m == MonthOf(Today)
           first(n) == FirstDay(m - (m % n))
           last(n) == FirstDay(m - (m % n) + n) - 1
<1>1. \A p : [V!filters EXCEPT !.preset = p].preset = p
  BY DEF V!filters, V!parseFilters
<1>2. /\ B("thisMonth") = [from |-> first(1), to |-> last(1)]
      /\ B("thisQuarter") = [from |-> first(3), to |-> last(3)]
      /\ B("thisHalf") = [from |-> first(6), to |-> last(6)]
      /\ B("thisYear") = [from |-> first(12), to |-> last(12)]
      /\ B("last30") = [from |-> Today - 29, to |-> Today]
      /\ B("last90") = [from |-> Today - 89, to |-> Today]
  <2>1. m \in Int /\ m % 1 = 0 /\ m - 0 = m
    BY MonthContains
  <2> HIDE DEF m
  <2> QED BY <1>1, <2>1, SameInRegister DEF m, V!dateBounds, V!MonthsInto, V!Span
<1>3. \A n \in {1, 3, 6, 12} :
        /\ first(n) <= Today /\ Today <= last(n)
        /\ \A j \in {1, 3, 6, 12} : j >= n => first(j) <= first(n) /\ last(n) <= last(j)
  <2>1. ASSUME NEW n \in {1, 3, 6, 12}
        PROVE  /\ first(n) <= Today /\ Today <= last(n)
               /\ \A j \in {1, 3, 6, 12} :
                    j >= n => first(j) <= first(n) /\ FirstDay(m - (m % n) + n) <= FirstDay(m - (m % j) + j)
    BY PresetsOfMonths
  <2>2. \A n \in {1, 3, 6, 12} : FirstDay(m - (m % n) + n) \in Int
    <3>1. m \in Int
      BY MonthContains
    <3> HIDE DEF m
    <3> SUFFICES ASSUME NEW n \in {1, 3, 6, 12}
                 PROVE  FirstDay(m - (m % n) + n) \in Int
      OBVIOUS
    <3>2. m - (m % n) + n \in Int
      BY <3>1, WholePeriods
    <3> QED BY <3>2, MonthsAreApart
  <2> HIDE DEF m, first
  <2> QED BY <2>1, <2>2
<1> HIDE DEF B, first, last, m
<1>4. \A p \in V!Presets \ {"all", "custom"} : B(p).from <= Today /\ Today <= B(p).to
  BY <1>2, <1>3 DEF V!Presets
<1>5. V!PresetsHoldToday
  BY <1>2, <1>3, <1>4 DEF V!PresetsHoldToday, B
<1> QED BY <1>5, PTL
=============================================================================
