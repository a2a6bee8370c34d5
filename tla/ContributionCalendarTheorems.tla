---------------------- MODULE ContributionCalendarTheorems ----------------------
(***************************************************************************)
(* The date arithmetic for every date, plan and year, where                *)
(* MCContributionCalendar checks a few years: dates have months, a period  *)
(* is never empty, the next one begins the day after it, and a due date    *)
(* lies in its period.                                                     *)
(*                                                                         *)
(* And what the loops find: each runs towards a later day, which the       *)
(* module models by a recursive function on days.  A day from which every  *)
(* day stops the loop gives the function its values (RecursionEnds); what  *)
(* it returns is then proved of the least day that would make a difference.*)
(***************************************************************************)
EXTENDS ContributionCalendar, SequenceTheorems, WellFoundedInduction, TLAPS

(* Days, as all natural numbers, have a least one of each kind. *)
LEMMA LeastOf ==
  ASSUME NEW T \in SUBSET Nat, T # {}
  PROVE  \E m \in T : \A n \in T : m <= n
<1>1. PICK m \in T : \A n \in T : ~ (<<n, m>> \in OpToRel(<, Nat))
  BY NatLessThanWellFounded, WFMin
<1>2. \A n \in T : ~ (n < m)
  BY <1>1 DEF OpToRel
<1> QED
  BY <1>2

(* The days of a year before month k + 1 grow by the length of a month. *)
LEMMA DaysBeforeGrow ==
  /\ \A k \in 0 .. 11 : DaysBefore[k + 1] \in Nat
  /\ \A k \in 0 .. 11 : 28 * k <= DaysBefore[k + 1] /\ DaysBefore[k + 1] + 1 <= 31 * k + 1
  /\ \A k \in 0 .. 10 : k # 1 =>
       DaysBefore[k + 2] - DaysBefore[k + 1] \in 30 .. 31
  /\ DaysBefore[1] = 0 /\ DaysBefore[2] = 31 /\ DaysBefore[3] = 59 /\ DaysBefore[12] = 334
<1>1. \A k \in 0 .. 11 : k \in {0, 1, 2, 3, 4, 5, 6, 7, 8, 9, 10, 11}
  OBVIOUS
<1> QED
  BY <1>1 DEF DaysBefore

(* A month is one of the twelve of its year. *)
LEMMA YearAndMonth ==
  ASSUME NEW month \in Nat
  PROVE  \E y \in Nat, k \in 0 .. 11 : month = 12 * y + k
<1>1. /\ month \div 12 \in Nat /\ month % 12 \in 0 .. 11
      /\ month = 12 * (month \div 12) + (month % 12)
  OBVIOUS
<1> QED
  BY <1>1

(* The months follow one another: each is 28 to 31 days long. *)
LEMMA MonthsFollow ==
  ASSUME NEW month \in Nat
  PROVE  /\ MonthStart(month) \in Nat
         /\ MonthStart(month + 1) - MonthStart(month) \in 28 .. 31
<1>1. PICK y \in Nat, k \in 0 .. 11 : month = 12 * y + k
  BY YearAndMonth
<1>2. month \div 12 = y /\ month % 12 = k
  BY <1>1
<1> DEFINE YearStart(n) == 365 * n + (n + 3) \div 4 - (n + 99) \div 100 + (n + 399) \div 400
           Extra(j) == IF j > 1 /\ IsLeap(y) THEN 1 ELSE 0
<1>3. YearStart(y) \in Nat
  OBVIOUS
<1>4. YearStart(y + 1) - YearStart(y) = IF IsLeap(y) THEN 366 ELSE 365
  BY DEF IsLeap
<1>5. MonthStart(month) = YearStart(y) + DaysBefore[k + 1] + Extra(k)
  BY <1>2 DEF MonthStart
<1>6. CASE k < 11
  <2>1. (month + 1) \div 12 = y /\ (month + 1) % 12 = k + 1
    BY <1>1, <1>6
  <2>2. MonthStart(month + 1) = YearStart(y) + DaysBefore[k + 2] + Extra(k + 1)
    BY <2>1 DEF MonthStart
  <2> HIDE DEF YearStart
  <2> QED
    BY <1>3, <1>5, <1>6, <2>2, DaysBeforeGrow
<1>7. CASE k = 11
  <2>1. (month + 1) \div 12 = y + 1 /\ (month + 1) % 12 = 0
    BY <1>1, <1>7
  <2>2. MonthStart(month + 1) = YearStart(y + 1) + DaysBefore[1]
    BY <2>1, DaysBeforeGrow DEF MonthStart
  <2>3. YearStart(y + 1) \in Nat
    OBVIOUS
  <2> HIDE DEF YearStart
  <2> QED
    BY <1>3, <1>4, <1>5, <1>7, <2>2, <2>3, DaysBeforeGrow
<1> QED
  BY <1>6, <1>7

(* A month begins between 28 and 31 days for each month before it. *)
LEMMA MonthStartBounds ==
  ASSUME NEW month \in Nat
  PROVE  28 * month <= MonthStart(month) /\ MonthStart(month) <= 31 * month
<1>1. PICK y \in Nat, k \in 0 .. 11 : month = 12 * y + k
  BY YearAndMonth
<1>2. month \div 12 = y /\ month % 12 = k
  BY <1>1
<1>3. PICK leaps \in 0 .. y :
        leaps = (y + 3) \div 4 - (y + 99) \div 100 + (y + 399) \div 400
  OBVIOUS
<1>4. PICK extra \in {0, 1} : /\ MonthStart(month) = 365 * y + leaps + DaysBefore[k + 1] + extra
                              /\ k <= 1 => extra = 0
  BY <1>2, <1>3, DaysBeforeGrow DEF MonthStart
<1> QED
  BY <1>1, <1>4, DaysBeforeGrow

(* Every date is in a month: what MonthOf chooses exists. *)
THEOREM EveryDateHasAMonth ==
  ASSUME NEW d \in Nat
  PROVE  /\ MonthOf(d) \in Nat
         /\ MonthStart(MonthOf(d)) <= d /\ d < MonthStart(MonthOf(d) + 1)
         /\ DayOfMonth(d) \in 1 .. 31
<1> DEFINE T == {month \in Nat : d < MonthStart(month + 1)}
<1>1. d \div 28 \in T
  <2>1. d \div 28 \in Nat /\ d < 28 * ((d \div 28) + 1)
    OBVIOUS
  <2> QED
    BY <2>1, MonthStartBounds, MonthsFollow
<1>2. PICK m \in T : \A n \in T : m <= n
  BY <1>1, LeastOf
<1>3. \A n \in T : ~ (n < m)
  BY <1>2
<1>4. MonthStart(m) <= d
  <2>1. CASE m = 0
    <3>1. MonthStart(0) <= 31 * 0 /\ MonthStart(0) \in Nat
      BY MonthStartBounds, MonthsFollow
    <3> QED
      BY <2>1, <3>1
  <2>2. CASE m # 0
    <3>1. m - 1 \in Nat /\ m - 1 \notin T
      BY <1>3, <2>2
    <3> QED
      BY <3>1, MonthsFollow
  <2> QED
    BY <2>1, <2>2
<1>5. m \in (d \div 31) .. (d \div 28)
  <2>1. d < 31 * (m + 1)
    BY MonthStartBounds, MonthsFollow, m + 1 \in Nat
  <2>2. m <= d \div 28
    BY <1>1, <1>3
  <2> QED
    BY <2>1, <2>2
<1>6. /\ MonthOf(d) \in (d \div 31) .. (d \div 28)
      /\ MonthStart(MonthOf(d)) <= d /\ d < MonthStart(MonthOf(d) + 1)
  BY <1>4, <1>5 DEF MonthOf
<1>7. MonthOf(d) \in Nat
  BY <1>6
<1>8. /\ MonthStart(MonthOf(d)) \in Nat
      /\ MonthStart(MonthOf(d) + 1) - MonthStart(MonthOf(d)) \in 28 .. 31
  BY <1>7, MonthsFollow
<1>9. MonthStart(MonthOf(d) + 1) \in Nat
  BY <1>7, MonthsFollow
<1> HIDE DEF T
<1> QED
  BY <1>6, <1>7, <1>8, <1>9 DEF DayOfMonth

(* Later months begin later. *)
LEMMA MonthsInOrder ==
  ASSUME NEW m \in Nat, NEW k \in Nat \ {0}
  PROVE  MonthStart(m + k) \in Nat /\ MonthStart(m + k) > MonthStart(m)
<1> DEFINE T == {j \in Nat \ {0} : ~ (MonthStart(m + j) > MonthStart(m))}
<1>1. ASSUME NEW j \in Nat
      PROVE  MonthStart(m + j) \in Nat /\ MonthStart(m + j) < MonthStart(m + (j + 1))
  <2>1. m + j \in Nat /\ (m + j) + 1 = m + (j + 1)
    OBVIOUS
  <2>2. MonthStart(m + j) \in Nat /\ MonthStart((m + j) + 1) - MonthStart(m + j) \in 28 .. 31
    BY <2>1, MonthsFollow
  <2>3. MonthStart((m + j) + 1) \in Nat
    BY MonthsFollow
  <2> QED
    BY <2>1, <2>2, <2>3
<1>2. ASSUME T # {} PROVE FALSE
  <2>1. T \in SUBSET Nat
    OBVIOUS
  <2> HIDE DEF T
  <2>2. PICK j \in T : \A i \in T : j <= i
    BY <1>2, <2>1, LeastOf
  <2>3. j \in Nat \ {0} /\ ~ (MonthStart(m + j) > MonthStart(m))
    BY <2>2 DEF T
  <2>4. j - 1 \in Nat /\ (j - 1) + 1 = j /\ ~ (j <= j - 1)
    BY <2>3
  <2>5. MonthStart(m + (j - 1)) \in Nat /\ MonthStart(m + (j - 1)) < MonthStart(m + j)
    BY <1>1, <2>4
  <2>6. MonthStart(m + j) \in Nat /\ MonthStart(m) \in Nat
    BY <1>1, <2>3, MonthsFollow
  <2>7. CASE j = 1
    <3>1. m + (j - 1) = m
      BY <2>7
    <3> QED
      BY <2>3, <2>5, <2>6, <3>1
  <2>8. CASE j # 1
    <3>1. j - 1 \in Nat \ {0} /\ j - 1 \notin T
      BY <2>2, <2>3, <2>4, <2>8
    <3>2. MonthStart(m + (j - 1)) > MonthStart(m)
      BY <3>1 DEF T
    <3> QED
      BY <2>3, <2>5, <2>6, <3>2
  <2> QED
    BY <2>7, <2>8
<1> QED
  BY <1>1, <1>2

(* Months later is later: addMonths never stands still, whatever the end of
   the month does to the day. *)
LEMMA AddMonthsIsLater ==
  ASSUME NEW d \in Nat, NEW months \in Nat \ {0}
  PROVE  AddMonths(d, months) \in Nat /\ AddMonths(d, months) > d
<1>1. PICK m \in Nat : m = MonthOf(d) /\ MonthStart(m) <= d /\ MonthStart(m) \in Nat
  BY EveryDateHasAMonth, MonthsFollow
<1>2. AddMonths(d, months) = MonthStart(m + months) + (d - MonthStart(m) + 1) - 1
  BY <1>1 DEF AddMonths, DayOfMonth
<1>3. MonthStart(m + months) \in Nat /\ MonthStart(m + months) > MonthStart(m)
  BY MonthsInOrder
<1> QED
  BY <1>1, <1>2, <1>3

(* nextPeriodStart is later for every frequency, so the loops of
   contributionPeriodSpecs end: each turn of them passes a day. *)
THEOREM PeriodsAdvance ==
  ASSUME NEW d \in Nat, NEW frequency \in Frequency
  PROVE  NextPeriodStart(d, frequency) \in Nat /\ NextPeriodStart(d, frequency) > d
<1>1. /\ AddMonths(d, 3) \in Nat /\ AddMonths(d, 3) > d
      /\ AddMonths(d, 1) \in Nat /\ AddMonths(d, 1) > d
  BY AddMonthsIsLater
<1> QED
  BY <1>1 DEF NextPeriodStart, Frequency

(* clampDate keeps a date within bounds that are in order. *)
LEMMA ClampKeepsWithin ==
  ASSUME NEW d \in Int, NEW s \in Int, NEW e \in Int, s <= e
  PROVE  ClampDate(d, s, e) \in s .. e
BY DEF ClampDate, Earlier

(* weekdayDate finds the asked weekday within a week, Sunday as 7 included. *)
THEOREM WeekdayIsNext ==
  ASSUME NEW s \in Nat, NEW dueDay \in 1 .. 7
  PROVE  /\ WeekdayDate(s, dueDay) \in s .. (s + 6)
         /\ Weekday(WeekdayDate(s, dueDay)) = dueDay
<1>1. PICK k \in Nat, j \in 0 .. 6 : s = 7 * k + j
  <2>1. s \div 7 \in Nat /\ s % 7 \in 0 .. 6 /\ s = 7 * (s \div 7) + (s % 7)
    OBVIOUS
  <2> QED
    BY <2>1
<1>2. Weekday(s) = IF j <= 1 THEN j + 6 ELSE j - 1
  BY <1>1 DEF Weekday
<1>3. dueDay % 7 = IF dueDay = 7 THEN 0 ELSE dueDay
  OBVIOUS
<1>4. PICK o \in 0 .. 6 : o = ((dueDay % 7) - Weekday(s) + 7) % 7
  BY <1>2, <1>3
<1>5. WeekdayDate(s, dueDay) = s + o
  BY <1>4 DEF WeekdayDate
<1>6. Weekday(s + o) = dueDay
  BY <1>1, <1>2, <1>3, <1>4 DEF Weekday
<1> QED
  BY <1>5, <1>6

(* A day of a month, and the date an asked day of it falls on. *)
LEMMA MonthDayIsDate ==
  ASSUME NEW s \in Nat, NEW dueDay \in 1 .. 31
  PROVE  MonthDayDate(s, dueDay) \in Int
<1>1. PICK m \in Nat : m = MonthOf(s)
  BY EveryDateHasAMonth
<1>2. MonthStart(m) \in Nat /\ MonthStart(m + 1) \in Nat
  BY MonthsFollow
<1> QED
  BY <1>1, <1>2 DEF MonthDayDate, Earlier

(* periodDueDate: a due falls due in its own period, whatever day was asked
   for and however short the period is. *)
THEOREM DueDateInPeriod ==
  ASSUME NEW plan \in Plan, NEW s \in Nat, NEW e \in Nat, s <= e
  PROVE  PeriodDueDate(plan, s, e) \in s .. e
<1>1. CASE plan.frequency = "DAILY"
  BY <1>1 DEF PeriodDueDate
<1>2. CASE plan.frequency = "WEEKLY"
  <2>1. PICK w \in 1 .. 7 : w = Given(plan.dueDayOfWeek, 1)
    BY DEF Given, Plan, Unset
  <2>2. WeekdayDate(s, w) \in s .. (s + 6)
    BY WeekdayIsNext
  <2>3. PICK date \in Int : date = WeekdayDate(s, w)
    BY <2>2
  <2>4. ClampDate(date, s, e) \in s .. e
    BY ClampKeepsWithin
  <2> QED
    BY <1>2, <2>1, <2>3, <2>4 DEF PeriodDueDate
<1>3. CASE plan.frequency \notin {"DAILY", "WEEKLY"}
  <2>1. PICK n \in 1 .. 31 : n = Given(plan.dueDayOfMonth, DayOfMonth(s))
    BY EveryDateHasAMonth DEF Given, Plan, Unset
  <2>2. PICK date \in Int : date = MonthDayDate(s, n)
    BY MonthDayIsDate
  <2>3. ClampDate(date, s, e) \in s .. e
    BY ClampKeepsWithin
  <2> QED
    BY <1>3, <2>1, <2>2, <2>3 DEF PeriodDueDate
<1> QED
  BY <1>1, <1>2, <1>3

(* One turn of the loop of contributionPeriodSpecs, at a cursor that is not
   past the year and whose period is not over before it: the period lies in
   the year, has a day, holds its due date, and unless it ends the year the
   next one begins the day after it. *)
THEOREM PeriodsFollow ==
  ASSUME NEW plan \in Plan, NEW year \in [startsAt : Nat, endsAt : Nat],
         year.startsAt <= year.endsAt, NEW cursor \in Nat, cursor <= year.endsAt,
         NextPeriodStart(cursor, plan.frequency) > year.startsAt
  PROVE  LET period == PeriodAt(plan, year, cursor)
             next == PeriodAt(plan, year, NextPeriodStart(cursor, plan.frequency))
         IN  /\ year.startsAt <= period.startsAt /\ period.startsAt <= period.endsAt
             /\ period.endsAt <= year.endsAt
             /\ period.dueAt \in period.startsAt .. period.endsAt
             /\ period.endsAt # year.endsAt => next.startsAt = period.endsAt + 1
<1>1. PICK n \in Nat : n = NextPeriodStart(cursor, plan.frequency) /\ n > cursor
  BY PeriodsAdvance DEF Plan
<1> DEFINE s == IF cursor < year.startsAt THEN year.startsAt ELSE cursor
           e == Earlier(n - 1, year.endsAt)
<1>2. s \in Nat /\ e \in Nat /\ s <= e /\ year.startsAt <= s /\ e <= year.endsAt
  BY <1>1 DEF Earlier
<1>3. PeriodDueDate(plan, s, e) \in s .. e
  BY <1>2, DueDateInPeriod
<1>4. PeriodAt(plan, year, cursor) =
        [startsAt |-> s, endsAt |-> e, dueAt |-> PeriodDueDate(plan, s, e)]
  BY <1>1 DEF PeriodAt
<1>5. e # year.endsAt => PeriodAt(plan, year, n).startsAt = e + 1
  BY <1>1 DEF PeriodAt, Earlier
<1> HIDE DEF s, e
<1> QED
  BY <1>1, <1>2, <1>3, <1>4, <1>5

-----------------------------------------------------------------------------
(* What a function defined by recursion on a later day is, and when there is
   one: where every day from a limit on stops it. *)
Recurses(f, stop, next, base, step) ==
  \A d \in Nat : f[d] = IF d \in stop THEN base[d] ELSE step[<<d, f[next[d]]>>]

Ends(limit, stop, next) == \A d \in Nat : next[d] > d /\ (d >= limit => d \in stop)

(* The values up to the limit are found from it down. *)
LEMMA RecursionEnds ==
  ASSUME NEW X, NEW limit \in Nat, NEW stop \in SUBSET Nat, NEW next \in [Nat -> Nat],
         NEW base \in [Nat -> X], NEW step \in [Nat \X X -> X],
         Ends(limit, stop, next)
  PROVE  \E f \in [Nat -> X] : Recurses(f, stop, next, base, step)
<1> DEFINE Solves(f, d) == f[d] = IF d \in stop THEN base[d] ELSE step[<<d, f[next[d]]>>]
           T == {n \in Nat : ~ \E f \in [Nat -> X] : \A d \in Nat : d + n >= limit => Solves(f, d)}
<1>0. \A d \in Nat : next[d] > d /\ (d >= limit => d \in stop)
  BY DEF Ends
<1>1. ASSUME T # {} PROVE FALSE
  <2>1. T \subseteq Nat
    OBVIOUS
  <2> HIDE DEF T
  <2>2. PICK m \in T : \A n \in T : m <= n
    BY <1>1, <2>1, LeastOf
  <2>0. m \in Nat /\ (m # 0 => m - 1 \in Nat /\ m - 1 \notin T)
    BY <2>1, <2>2
  <2> USE DEF T
  <2>3. m # 0
    <3>1. \A d \in Nat : d + 0 >= limit => Solves(base, d)
      BY <1>0
    <3> QED
      BY <3>1
  <2>4. PICK f \in [Nat -> X] : \A d \in Nat : d + (m - 1) >= limit => Solves(f, d)
    <3>1. m - 1 \in Nat /\ m - 1 \notin T
      BY <2>0, <2>3
    <3> QED
      BY <3>1
  <2>5. CASE m > limit
    <3>1. \A d \in Nat : d + m >= limit => Solves(f, d)
      BY <2>0, <2>3, <2>4, <2>5
    <3> QED
      BY <3>1
  <2>6. CASE m <= limit
    <3> DEFINE c == limit - m
               v == IF c \in stop THEN base[c] ELSE step[<<c, f[next[c]]>>]
               g == [f EXCEPT ![c] = v]
    <3>1. c \in Nat /\ v \in X
      BY <2>0, <2>6
    <3>2. g \in [Nat -> X] /\ g[c] = v /\ \A d \in Nat : d # c => g[d] = f[d]
      BY <3>1
    <3>3. ASSUME NEW d \in Nat, d + m >= limit PROVE Solves(g, d)
      <4>1. next[d] \in Nat /\ next[d] > c /\ g[next[d]] = f[next[d]]
        BY <1>0, <3>1, <3>2, <3>3
      <4>2. CASE d = c
        BY <3>2, <4>1, <4>2
      <4>3. CASE d # c
        <5>1. Solves(f, d)
          BY <2>4, <3>1, <3>3, <4>3
        <5> QED
          BY <3>2, <4>1, <4>3, <5>1
      <4> QED
        BY <4>2, <4>3
    <3> HIDE DEF g, Solves
    <3> QED
      BY <3>2, <3>3
  <2> QED
    BY <2>0, <2>5, <2>6
<1>2. PICK f \in [Nat -> X] : \A d \in Nat : d + limit >= limit => Solves(f, d)
  BY <1>1
<1> QED
  BY <1>2 DEF Recurses

(* A year as the code stores it. *)
Year == [startsAt : Nat, endsAt : Nat]

(* The loop that looks for the first period ends, for every plan and year. *)
LEMMA FirstIsDefined ==
  ASSUME NEW plan \in Plan, NEW year \in Year, NEW d \in Nat
  PROVE  FirstFrom(plan, year)[d] =
           IF d >= year.startsAt \/ NextPeriodStart(d, plan.frequency) > year.startsAt THEN d
           ELSE FirstFrom(plan, year)[NextPeriodStart(d, plan.frequency)]
<1> DEFINE next == [c \in Nat |-> NextPeriodStart(c, plan.frequency)]
           stop == {c \in Nat : c >= year.startsAt \/ next[c] > year.startsAt}
           Loop(f) == [c \in Nat |-> LET n == NextPeriodStart(c, plan.frequency)
                                     IN  IF c >= year.startsAt \/ n > year.startsAt THEN c ELSE f[n]]
<1>1. next \in [Nat -> Nat] /\ \A c \in Nat : next[c] > c
  BY PeriodsAdvance DEF Plan
<1>2. \E f : f = Loop(f)
  <2> DEFINE base == [c \in Nat |-> c]
             step == [p \in Nat \X Nat |-> p[2]]
  <2>1. base \in [Nat -> Nat] /\ step \in [Nat \X Nat -> Nat]
    OBVIOUS
  <2>2. /\ year.startsAt \in Nat /\ stop \in SUBSET Nat
        /\ Ends(year.startsAt, stop, next)
    BY <1>1 DEF Year, Ends
  <2> HIDE DEF base, step, next, stop
  <2>3. PICK f \in [Nat -> Nat] : Recurses(f, stop, next, base, step)
    BY <1>1, <2>1, <2>2, RecursionEnds
  <2>4. ASSUME NEW c \in Nat
        PROVE  f[c] = IF c \in stop THEN c ELSE f[next[c]]
    <3>1. next[c] \in Nat /\ f[next[c]] \in Nat
      BY <1>1
    <3>2. base[c] = c /\ step[<<c, f[next[c]]>>] = f[next[c]]
      BY <3>1 DEF base, step
    <3> QED
      BY <2>3, <3>2 DEF Recurses
  <2>5. f = [c \in Nat |-> f[c]]
    OBVIOUS
  <2>6. f = Loop(f)
    BY <2>4, <2>5 DEF next, stop
  <2> QED
    BY <2>6
<1>3. FirstFrom(plan, year) = CHOOSE f : f = Loop(f)
  BY DEF FirstFrom
<1> HIDE DEF Loop
<1>4. FirstFrom(plan, year) = Loop(FirstFrom(plan, year))
  BY <1>2, <1>3
<1> QED
  BY <1>4 DEF Loop

(* The days a plan's periods may begin on, from a day on: every set that holds
   the day and, with each day in it, the next period's first. *)
Schedules(plan, d) ==
  {A \in SUBSET Nat : d \in A /\ \A c \in A : NextPeriodStart(c, plan.frequency) \in A}

(* What the loop that looks for the first period should find. *)
FirstOf(plan, year, d, s) ==
  /\ s \in Nat /\ NextPeriodStart(s, plan.frequency) > year.startsAt
  /\ IF d >= year.startsAt THEN s = d ELSE s <= year.startsAt
  /\ \A A \in Schedules(plan, d) : s \in A

(* contributionPeriodSpecs starts with the period the year begins in, or at a
   later anchor, and gets there from the anchor by whole periods. *)
THEOREM FirstPeriodIsFound ==
  ASSUME NEW plan \in Plan, NEW year \in Year, NEW d \in Nat
  PROVE  FirstOf(plan, year, d, FirstFrom(plan, year)[d])
<1> DEFINE first(c) == FirstFrom(plan, year)[c]
           next(c) == NextPeriodStart(c, plan.frequency)
           T == {n \in Nat : \E c \in Nat : c + n = year.startsAt /\ ~ FirstOf(plan, year, c, first(c))}
<1>1. year.startsAt \in Nat
  BY DEF Year
<1>2. ASSUME NEW c \in Nat
      PROVE  /\ next(c) \in Nat /\ next(c) > c
             /\ first(c) = IF c >= year.startsAt \/ next(c) > year.startsAt THEN c ELSE first(next(c))
  BY PeriodsAdvance, FirstIsDefined DEF Plan
<1>3. ASSUME NEW c \in Nat, c >= year.startsAt \/ next(c) > year.startsAt
      PROVE  FirstOf(plan, year, c, first(c))
  <2>1. first(c) = c /\ next(c) > year.startsAt
    BY <1>1, <1>2, <1>3
  <2> QED
    BY <1>1, <2>1 DEF FirstOf, Schedules
<1>4. ASSUME NEW c \in Nat, c < year.startsAt, next(c) <= year.startsAt,
             FirstOf(plan, year, next(c), first(next(c)))
      PROVE  FirstOf(plan, year, c, first(c))
  <2>1. first(c) = first(next(c)) /\ next(c) \in Nat
    BY <1>1, <1>2, <1>4
  <2>2. \A A \in Schedules(plan, c) : A \in Schedules(plan, next(c))
    BY DEF Schedules
  <2>3. first(c) <= year.startsAt
    BY <1>1, <1>4, <2>1 DEF FirstOf
  <2> QED
    BY <1>1, <1>4, <2>1, <2>2, <2>3 DEF FirstOf
<1>5. ASSUME T # {} PROVE FALSE
  <2>1. T \subseteq Nat
    OBVIOUS
  <2> HIDE DEF T
  <2>2. PICK m \in T : \A n \in T : m <= n
    BY <1>5, <2>1, LeastOf
  <2>3. PICK c \in Nat : c + m = year.startsAt /\ ~ FirstOf(plan, year, c, first(c)) /\ m \in Nat
    BY <2>2 DEF T
  <2>4. c < year.startsAt /\ next(c) <= year.startsAt /\ next(c) \in Nat /\ next(c) > c
    BY <1>1, <1>2, <1>3, <2>3
  <2>5. year.startsAt - next(c) \in Nat /\ ~ (m <= year.startsAt - next(c))
    BY <1>1, <2>3, <2>4
  <2>6. year.startsAt - next(c) \notin T
    BY <2>2, <2>5
  <2>7. FirstOf(plan, year, next(c), first(next(c)))
    BY <1>1, <2>4, <2>5, <2>6 DEF T
  <2> QED
    BY <1>4, <2>3, <2>4, <2>7
<1>6. CASE d < year.startsAt
  <2>1. year.startsAt - d \in Nat /\ d + (year.startsAt - d) = year.startsAt
    BY <1>1, <1>6
  <2> QED
    BY <1>5, <2>1
<1> QED
  BY <1>1, <1>3, <1>6

(* The loop that lists the periods ends, for every plan and year. *)
LEMMA PeriodsAreDefined ==
  ASSUME NEW plan \in Plan, NEW year \in Year, NEW d \in Nat
  PROVE  PeriodsFrom(plan, year)[d] =
           IF d > year.endsAt THEN <<>>
           ELSE <<PeriodAt(plan, year, d)>> \o PeriodsFrom(plan, year)[NextPeriodStart(d, plan.frequency)]
<1> DEFINE next == [c \in Nat |-> NextPeriodStart(c, plan.frequency)]
           stop == {c \in Nat : c > year.endsAt}
           List == Seq({PeriodAt(plan, year, c) : c \in Nat})
           Loop(f) == [c \in Nat |->
                         IF c > year.endsAt THEN <<>>
                         ELSE <<PeriodAt(plan, year, c)>> \o f[NextPeriodStart(c, plan.frequency)]]
<1>1. next \in [Nat -> Nat] /\ \A c \in Nat : next[c] > c
  BY PeriodsAdvance DEF Plan
<1>2. \E f : f = Loop(f)
  <2> DEFINE base == [c \in Nat |-> <<>>]
             step == [p \in Nat \X List |-> <<PeriodAt(plan, year, p[1])>> \o p[2]]
  <2>1. base \in [Nat -> List] /\ step \in [Nat \X List -> List]
    OBVIOUS
  <2>2. /\ year.endsAt + 1 \in Nat /\ stop \in SUBSET Nat
        /\ Ends(year.endsAt + 1, stop, next)
    BY <1>1 DEF Year, Ends
  <2> HIDE DEF base, step, next, stop, List
  <2>3. PICK f \in [Nat -> List] : Recurses(f, stop, next, base, step)
    BY <1>1, <2>1, <2>2, RecursionEnds
  <2>4. ASSUME NEW c \in Nat
        PROVE  f[c] = IF c \in stop THEN <<>> ELSE <<PeriodAt(plan, year, c)>> \o f[next[c]]
    <3>1. next[c] \in Nat /\ f[next[c]] \in List
      BY <1>1
    <3>2. base[c] = <<>> /\ step[<<c, f[next[c]]>>] = <<PeriodAt(plan, year, c)>> \o f[next[c]]
      BY <3>1 DEF base, step
    <3> QED
      BY <2>3, <3>2 DEF Recurses
  <2>5. f = [c \in Nat |-> f[c]]
    OBVIOUS
  <2>6. f = Loop(f)
    BY <2>4, <2>5 DEF next, stop
  <2> QED
    BY <2>6
<1>3. PeriodsFrom(plan, year) = CHOOSE f : f = Loop(f)
  BY DEF PeriodsFrom
<1> HIDE DEF Loop
<1>4. PeriodsFrom(plan, year) = Loop(PeriodsFrom(plan, year))
  BY <1>2, <1>3
<1> QED
  BY <1>4 DEF Loop

(* A period, its due date, and periods that follow one another without gap or
   overlap from a first day to a last, each of a day at least. *)
Period == [startsAt : Nat, endsAt : Nat, dueAt : Nat]

(* The due date is in the period, where periodDueDate puts it; a joining fee
   falls due when the year begins. *)
DueIn(plan, p) ==
  /\ p.dueAt \in p.startsAt .. p.endsAt
  /\ plan.type = "JOINING_FEE" \/ p.dueAt = PeriodDueDate(plan, p.startsAt, p.endsAt)

Tiles(plan, periods, first, last) ==
  /\ periods \in Seq(Period)
  /\ periods = <<>> <=> first > last
  /\ periods # <<>> => /\ periods[1].startsAt = first
                       /\ periods[Len(periods)].endsAt = last
                       /\ Len(periods) <= last - first + 1
  /\ \A i \in 1 .. Len(periods) : DueIn(plan, periods[i])
  /\ \A i \in 1 .. Len(periods) - 1 : periods[i + 1].startsAt = periods[i].endsAt + 1

(* One period more before others. *)
LEMMA TilesExtend ==
  ASSUME NEW plan, NEW p \in Period, NEW rest, NEW last \in Nat, Tiles(plan, rest, p.endsAt + 1, last),
         DueIn(plan, p), p.endsAt <= last
  PROVE  Tiles(plan, <<p>> \o rest, p.startsAt, last)
<1> DEFINE all == <<p>> \o rest
<1>1. rest \in Seq(Period) /\ Len(rest) \in Nat
  BY DEF Tiles
<1>2. all \in Seq(Period) /\ Len(all) = Len(rest) + 1 /\ all[1] = p /\ all # <<>>
  BY <1>1
<1>3. \A i \in 1 .. Len(rest) : all[i + 1] = rest[i]
  BY <1>1
<1>0. p.startsAt \in Nat /\ p.endsAt \in Nat /\ p.startsAt <= p.endsAt
  BY DEF Period, DueIn
<1> HIDE DEF all
<1>4. rest = <<>> <=> Len(rest) = 0
  BY <1>1
<1>5. all[Len(all)].endsAt = last /\ Len(all) <= last - p.startsAt + 1
  <2>1. CASE rest = <<>>
    <3>1. p.endsAt = last /\ Len(all) = 1
      BY <1>0, <1>2, <1>4, <2>1 DEF Tiles
    <3>2. all[Len(all)] = p /\ p.startsAt <= last
      BY <1>0, <1>2, <3>1
    <3> QED
      BY <1>0, <3>1, <3>2
  <2>2. CASE rest # <<>>
    <3>1. /\ Len(rest) \in 1 .. Len(rest) /\ rest[Len(rest)].endsAt = last
          /\ Len(rest) <= last - (p.endsAt + 1) + 1
      BY <1>1, <1>4, <2>2 DEF Tiles
    <3> QED
      BY <1>0, <1>1, <1>2, <1>3, <3>1
  <2> QED
    BY <2>1, <2>2
<1>6. ASSUME NEW i \in 1 .. Len(all) PROVE DueIn(plan, all[i])
  <2>1. CASE i = 1
    BY <1>2, <2>1
  <2>2. CASE i # 1
    <3>1. i - 1 \in 1 .. Len(rest) /\ (i - 1) + 1 = i
      BY <1>1, <1>2, <2>2
    <3>2. all[i] = rest[i - 1]
      BY <1>3, <3>1
    <3> QED
      BY <3>1, <3>2 DEF Tiles
  <2> QED
    BY <2>1, <2>2
<1>7. ASSUME NEW i \in 1 .. Len(all) - 1 PROVE all[i + 1].startsAt = all[i].endsAt + 1
  <2>1. i \in 1 .. Len(rest) /\ all[i + 1] = rest[i]
    BY <1>1, <1>2, <1>3
  <2>2. CASE i = 1
    BY <1>2, <1>4, <2>1, <2>2 DEF Tiles
  <2>3. CASE i # 1
    <3>1. i - 1 \in 1 .. Len(rest) - 1 /\ (i - 1) + 1 = i /\ i - 1 \in 1 .. Len(rest)
      BY <1>1, <2>1, <2>3
    <3>2. all[i] = rest[i - 1] /\ rest[i].startsAt = rest[i - 1].endsAt + 1
      BY <1>3, <3>1 DEF Tiles
    <3> QED
      BY <2>1, <3>2
  <2> QED
    BY <2>2, <2>3
<1>8. p.startsAt <= last /\ all[1].startsAt = p.startsAt
  BY <1>0, <1>2
<1>9. Tiles(plan, all, p.startsAt, last)
  BY <1>0, <1>2, <1>5, <1>6, <1>7, <1>8 DEF Tiles
<1> QED
  BY <1>9 DEF all

(* contributionPeriodSpecs from a cursor whose period is not over before the
   year: its periods tile the rest of the year. *)
LEMMA PeriodsTile ==
  ASSUME NEW plan \in Plan, NEW year \in Year, year.startsAt <= year.endsAt, NEW d \in Nat,
         NextPeriodStart(d, plan.frequency) > year.startsAt
  PROVE  Tiles(plan, PeriodsFrom(plan, year)[d], IF d < year.startsAt THEN year.startsAt ELSE d, year.endsAt)
<1> DEFINE list(c) == PeriodsFrom(plan, year)[c]
           next(c) == NextPeriodStart(c, plan.frequency)
           start(c) == IF c < year.startsAt THEN year.startsAt ELSE c
           Tiled(c) == next(c) > year.startsAt => Tiles(plan, list(c), start(c), year.endsAt)
           T == {n \in Nat : \E c \in Nat : c + n = year.endsAt /\ ~ Tiled(c)}
<1>1. year.startsAt \in Nat /\ year.endsAt \in Nat
  BY DEF Year
<1>2. ASSUME NEW c \in Nat
      PROVE  next(c) \in Nat /\ next(c) > c
  BY PeriodsAdvance DEF Plan
<1>7. ASSUME NEW c \in Nat, c > year.endsAt
      PROVE  list(c) = <<>>
  BY <1>7, PeriodsAreDefined
<1>8. ASSUME NEW c \in Nat, ~ (c > year.endsAt)
      PROVE  list(c) = <<PeriodAt(plan, year, c)>> \o list(next(c))
  BY <1>8, PeriodsAreDefined
<1> HIDE DEF next, list
<1>3. ASSUME NEW c \in Nat, c > year.endsAt
      PROVE  Tiled(c)
  <2>1. list(c) = <<>>
    BY <1>3, <1>7
  <2>3. start(c) \in Nat /\ start(c) > year.endsAt
    BY <1>1, <1>3
  <2>2. Tiles(plan, <<>>, start(c), year.endsAt)
    BY <1>1, <2>3 DEF Tiles
  <2> QED
    BY <2>1, <2>2
<1>4. ASSUME NEW c \in Nat, c <= year.endsAt, Tiled(next(c))
      PROVE  Tiled(c)
  <2> SUFFICES ASSUME next(c) > year.startsAt PROVE Tiles(plan, list(c), start(c), year.endsAt)
    OBVIOUS
  <2> DEFINE p == PeriodAt(plan, year, c)
  <2>1. /\ year.startsAt <= p.startsAt /\ p.startsAt <= p.endsAt /\ p.endsAt <= year.endsAt
        /\ p.dueAt \in p.startsAt .. p.endsAt
    BY <1>1, <1>4, PeriodsFollow DEF Year, next
  <2>8. DueIn(plan, p)
    BY <2>1 DEF PeriodAt, DueIn
  <2>2. p.startsAt = start(c) /\ p.endsAt = Earlier(next(c) - 1, year.endsAt)
        /\ p = [startsAt |-> p.startsAt, endsAt |-> p.endsAt, dueAt |-> p.dueAt]
    BY DEF PeriodAt, next
  <2>3. p.startsAt \in Nat /\ p.endsAt \in Nat
    BY <1>1, <1>2, <2>2 DEF Earlier
  <2>4. p \in Period
    BY <2>1, <2>2, <2>3 DEF Period
  <2>5. Tiles(plan, list(next(c)), p.endsAt + 1, year.endsAt)
    <3>1. CASE next(c) <= year.endsAt
      <4>1. p.endsAt + 1 = next(c) /\ next(next(c)) > year.startsAt /\ start(next(c)) = next(c)
        BY <1>1, <1>2, <2>2, <3>1 DEF Earlier
      <4> QED
        BY <1>4, <4>1
    <3>2. CASE next(c) > year.endsAt
      <4>1. p.endsAt + 1 > year.endsAt
        BY <1>1, <1>2, <2>2, <3>2 DEF Earlier
      <4>2. list(next(c)) = <<>>
        BY <1>2, <1>7, <3>2
      <4> QED
        BY <1>1, <2>3, <4>1, <4>2 DEF Tiles
    <3> QED
      BY <1>1, <1>2, <3>1, <3>2
  <2>6. list(c) = <<p>> \o list(next(c))
    BY <1>1, <1>4, <1>8
  <2> HIDE DEF p
  <2>7. Tiles(plan, <<p>> \o list(next(c)), p.startsAt, year.endsAt)
    BY <1>1, <2>1, <2>4, <2>5, <2>8, TilesExtend
  <2> QED
    BY <2>2, <2>6, <2>7
<1> HIDE DEF Tiled
<1>5. ASSUME T # {} PROVE FALSE
  <2>1. T \subseteq Nat
    OBVIOUS
  <2> HIDE DEF T
  <2>2. PICK m \in T : \A n \in T : m <= n
    BY <1>5, <2>1, LeastOf
  <2>3. PICK c \in Nat : c + m = year.endsAt /\ ~ Tiled(c) /\ m \in Nat
    BY <2>2 DEF T
  <2>4. ~ Tiled(next(c)) /\ next(c) \in Nat /\ next(c) > c
    BY <1>1, <1>2, <1>4, <2>3
  <2>5. next(c) <= year.endsAt
    BY <1>1, <1>3, <2>4
  <2>6. year.endsAt - next(c) \in Nat /\ ~ (m <= year.endsAt - next(c))
    BY <1>1, <2>3, <2>4, <2>5
  <2>7. year.endsAt - next(c) \in T
    BY <1>1, <2>4, <2>6 DEF T
  <2> QED
    BY <2>2, <2>6, <2>7
<1>6. Tiled(d)
  <2>1. CASE d <= year.endsAt
    <3>1. year.endsAt - d \in Nat /\ d + (year.endsAt - d) = year.endsAt
      BY <1>1, <2>1
    <3> QED
      BY <1>5, <3>1
  <2> QED
    BY <1>1, <1>3, <2>1
<1> QED
  BY <1>6 DEF Tiled, next, list

(* Plans that have one period, the year. *)
HasOnePeriod(plan) == plan.type = "JOINING_FEE" \/ plan.frequency \in {"ANNUAL", "ONCE"}

(* contributionPeriodSpecs: the periods of a plan follow one another without
   gap or overlap, from the first day of the year, or from a later anchor, to
   its last; each has its due date in it. *)
THEOREM PeriodsTileTheYear ==
  ASSUME NEW plan \in Plan, NEW year \in Year, year.startsAt <= year.endsAt
  PROVE  Tiles(plan, PeriodSpecs(plan, year),
               IF HasOnePeriod(plan) \/ plan.anchor < year.startsAt THEN year.startsAt ELSE plan.anchor,
               year.endsAt)
<1>1. year.startsAt \in Nat /\ year.endsAt \in Nat
  BY DEF Year
<1>2. CASE HasOnePeriod(plan)
  <2> DEFINE due == IF plan.type = "JOINING_FEE" THEN year.startsAt
                    ELSE PeriodDueDate(plan, year.startsAt, year.endsAt)
             p == [startsAt |-> year.startsAt, endsAt |-> year.endsAt, dueAt |-> due]
  <2>1. due \in year.startsAt .. year.endsAt
    BY <1>1, DueDateInPeriod
  <2>2. PeriodSpecs(plan, year) = <<p>>
    BY <1>2 DEF PeriodSpecs, HasOnePeriod
  <2> HIDE DEF due
  <2>3. p \in Period /\ due \in Nat
    BY <1>1, <2>1 DEF Period
  <2>5. DueIn(plan, p)
    BY <2>1 DEF DueIn, due
  <2>4. Tiles(plan, <<p>>, year.startsAt, year.endsAt)
    BY <1>1, <2>3, <2>5 DEF Tiles
  <2> QED
    BY <1>2, <2>2, <2>4
<1>3. CASE ~ HasOnePeriod(plan)
  <2>1. PICK a \in Nat : a = Given(plan.anchor, year.startsAt)
    BY <1>1 DEF Plan, Given
  <2>2. PICK s : s = FirstStart(plan, year) /\ FirstOf(plan, year, a, s)
    BY <2>1, FirstPeriodIsFound DEF FirstStart
  <2>3. PeriodSpecs(plan, year) = PeriodsFrom(plan, year)[s]
    BY <1>3, <2>2 DEF PeriodSpecs, HasOnePeriod
  <2>4. s \in Nat /\ NextPeriodStart(s, plan.frequency) > year.startsAt
    BY <2>2 DEF FirstOf
  <2>5. Tiles(plan, PeriodSpecs(plan, year), IF s < year.startsAt THEN year.startsAt ELSE s, year.endsAt)
    BY <2>3, <2>4, PeriodsTile
  <2>6. (IF s < year.startsAt THEN year.startsAt ELSE s)
          = IF plan.anchor < year.startsAt THEN year.startsAt ELSE plan.anchor
    BY <1>1, <2>1, <2>2 DEF FirstOf, Given, Plan, Unset
  <2> QED
    BY <1>3, <2>5, <2>6
<1> QED
  BY <1>2, <1>3

(* A day is in one of the periods that are asked about, and in one only. *)
Holds(p, day) == day \in p.startsAt .. p.endsAt

HoldOnce(periods, asked, day) ==
  /\ \E i \in asked : Holds(periods[i], day)
  /\ \A i, j \in asked : Holds(periods[i], day) /\ Holds(periods[j], day) => i = j

(* Periods that tile hold each day once. *)
LEMMA TilesCover ==
  ASSUME NEW plan, NEW periods, NEW first \in Nat, NEW last \in Nat, Tiles(plan, periods, first, last),
         NEW day \in first .. last
  PROVE  HoldOnce(periods, 1 .. Len(periods), day)
<1> DEFINE n == Len(periods)
           T == {i \in 1 .. n : periods[i].endsAt >= day}
<1>1. periods \in Seq(Period) /\ n \in Nat /\ periods # <<>> /\ n > 0
  BY EmptySeq DEF Tiles
<1>2. ASSUME NEW i \in 1 .. n
      PROVE  periods[i].startsAt \in Nat /\ periods[i].endsAt \in Nat
             /\ periods[i].startsAt <= periods[i].endsAt
  <2>1. periods[i] \in Period
    BY <1>1, ElementOfSeq
  <2>2. periods[i].dueAt \in periods[i].startsAt .. periods[i].endsAt
    BY DEF Tiles, DueIn
  <2> QED
    BY <2>1, <2>2 DEF Period
<1>3. \A i \in 1 .. n - 1 : periods[i + 1].startsAt = periods[i].endsAt + 1
  BY DEF Tiles
<1>4. periods[1].startsAt = first /\ periods[n].endsAt = last
  BY <1>1 DEF Tiles
<1> HIDE DEF n
<1>5. T \in SUBSET Nat /\ n \in T
  BY <1>1, <1>4
<1> HIDE DEF T
<1>6. PICK m \in T : \A i \in T : m <= i
  BY <1>5, LeastOf
<1>7. m \in 1 .. n /\ periods[m].endsAt >= day
  BY <1>6 DEF T
<1>8. periods[m].startsAt <= day
  <2>1. CASE m = 1
    BY <1>4, <2>1
  <2>2. CASE m # 1
    <3>1. m - 1 \in 1 .. n - 1 /\ m - 1 \in 1 .. n /\ (m - 1) + 1 = m /\ ~ (m <= m - 1)
      BY <1>1, <1>7, <2>2
    <3>2. ~ (periods[m - 1].endsAt >= day)
      BY <1>6, <3>1 DEF T
    <3>3. periods[m].startsAt = periods[m - 1].endsAt + 1
      BY <1>3, <3>1
    <3> QED
      BY <1>2, <3>1, <3>2, <3>3
  <2> QED
    BY <2>1, <2>2
<1>9. Holds(periods[m], day)
  BY <1>2, <1>7, <1>8 DEF Holds
<1>10. ASSUME NEW i \in 1 .. n, NEW j \in 1 .. n, i < j
       PROVE  periods[i].endsAt < periods[j].startsAt
  <2> DEFINE U == {k \in 1 .. n : i < k /\ ~ (periods[i].endsAt < periods[k].startsAt)}
  <2>1. ASSUME U # {} PROVE FALSE
    <3>1. U \in SUBSET Nat
      BY <1>1
    <3> HIDE DEF U
    <3>2. PICK k \in U : \A l \in U : k <= l
      BY <2>1, <3>1, LeastOf
    <3>3. k \in 1 .. n /\ i < k /\ ~ (periods[i].endsAt < periods[k].startsAt)
      BY <3>2 DEF U
    <3>4. k - 1 \in 1 .. n - 1 /\ k - 1 \in 1 .. n /\ (k - 1) + 1 = k /\ ~ (k <= k - 1)
      BY <1>1, <3>3
    <3>5. periods[k].startsAt = periods[k - 1].endsAt + 1
      BY <1>3, <3>4
    <3>6. i # k - 1
      BY <1>2, <3>3, <3>5
    <3>7. periods[i].endsAt < periods[k - 1].startsAt
      <4>1. i < k - 1
        BY <1>1, <3>3, <3>4, <3>6
      <4> QED
        BY <3>2, <3>4, <4>1 DEF U
    <3> QED
      BY <1>2, <3>3, <3>4, <3>5, <3>7
  <2> QED
    BY <2>1, <1>10
<1>11. ASSUME NEW i \in 1 .. n, NEW j \in 1 .. n,
              Holds(periods[i], day), Holds(periods[j], day)
       PROVE  i = j
  <2>1. ~ (i < j) /\ ~ (j < i)
    BY <1>2, <1>10, <1>11 DEF Holds
  <2> QED
    BY <1>1, <2>1
<1> QED
  BY <1>7, <1>9, <1>11 DEF n, HoldOnce

(* generateContributionSchedule: whoever joins gets dues that are not before
   the joining and lie in their periods, and one of them for each day of the
   schedule that is left. *)
THEOREM JoinersOweWhatIsLeft ==
  ASSUME NEW plan \in Plan, NEW year \in Year, year.startsAt <= year.endsAt, NEW joinedAt \in Nat
  PROVE  LET periods == PeriodSpecs(plan, year)
             dues == DueDates(periods, joinedAt)
             first == IF HasOnePeriod(plan) \/ plan.anchor < year.startsAt THEN year.startsAt
                      ELSE plan.anchor
         IN  /\ \A i \in DOMAIN dues : dues[i] >= joinedAt /\ Holds(periods[i], dues[i])
             /\ \A day \in first .. year.endsAt :
                  day >= joinedAt => HoldOnce(periods, DOMAIN dues, day)
<1> DEFINE periods == PeriodSpecs(plan, year)
           dues == DueDates(periods, joinedAt)
           first == IF HasOnePeriod(plan) \/ plan.anchor < year.startsAt THEN year.startsAt
                    ELSE plan.anchor
           n == Len(periods)
<1>1. first \in Nat /\ year.endsAt \in Nat /\ Tiles(plan, periods, first, year.endsAt)
  BY PeriodsTileTheYear DEF Year, Plan, Unset
<1>2. periods \in Seq(Period) /\ n \in Nat /\ DOMAIN periods = 1 .. n
  BY <1>1, LenProperties DEF Tiles
<1> HIDE DEF periods, first
<1>3. ASSUME NEW i \in 1 .. n
      PROVE  /\ periods[i].startsAt \in Nat /\ periods[i].endsAt \in Nat /\ periods[i].dueAt \in Nat
             /\ periods[i].dueAt \in periods[i].startsAt .. periods[i].endsAt
  <2>1. periods[i] \in Period
    BY <1>2, ElementOfSeq
  <2> QED
    BY <1>1, <2>1 DEF Period, Tiles, DueIn
<1>4. /\ DOMAIN dues = {i \in 1 .. n : periods[i].endsAt >= joinedAt}
      /\ \A i \in DOMAIN dues :
           dues[i] = IF periods[i].dueAt < joinedAt THEN joinedAt ELSE periods[i].dueAt
  BY <1>2 DEF DueDates
<1> HIDE DEF dues, n
<1>5. ASSUME NEW i \in DOMAIN dues
      PROVE  dues[i] >= joinedAt /\ Holds(periods[i], dues[i])
  BY <1>3, <1>4 DEF Holds
<1>6. ASSUME NEW day \in first .. year.endsAt, day >= joinedAt
      PROVE  HoldOnce(periods, DOMAIN dues, day)
  <2>1. HoldOnce(periods, 1 .. n, day)
    BY <1>1, TilesCover DEF n
  <2>2. PICK k \in 1 .. n : Holds(periods[k], day)
    BY <2>1 DEF HoldOnce
  <2>3. k \in DOMAIN dues
    BY <1>1, <1>3, <1>4, <1>6, <2>2 DEF Holds
  <2> QED
    BY <1>4, <2>1, <2>2, <2>3 DEF HoldOnce
<1> QED
  BY <1>5, <1>6 DEF periods, dues, first

(* A year that is accepted has no more periods than contributionPeriodSpecs
   allows, so its limit never cuts a schedule off. *)
COROLLARY PeriodsAreFewEnough ==
  ASSUME NEW plan \in Plan, NEW year \in Year, ValidYear(year)
  PROVE  Len(PeriodSpecs(plan, year)) < 370
<1> DEFINE first == IF HasOnePeriod(plan) \/ plan.anchor < year.startsAt THEN year.startsAt
                    ELSE plan.anchor
           periods == PeriodSpecs(plan, year)
<1>1. /\ year.startsAt \in Nat /\ year.endsAt \in Nat /\ first \in Nat
      /\ year.startsAt < year.endsAt /\ year.endsAt - year.startsAt <= 367
      /\ year.startsAt <= first
  BY DEF Year, ValidYear, Plan, Unset
<1>2. Tiles(plan, periods, first, year.endsAt)
  BY <1>1, PeriodsTileTheYear
<1> HIDE DEF first, periods
<1>3. periods = <<>> \/ Len(periods) <= year.endsAt - first + 1
  BY <1>2 DEF Tiles
<1>4. periods \in Seq(Period) /\ Len(periods) \in Nat
  BY <1>2, LenProperties DEF Tiles
<1>5. Len(periods) < 370
  BY <1>1, <1>3, <1>4
<1> QED
  BY <1>5 DEF periods

-----------------------------------------------------------------------------
(* The year after a day ends after it, and begins the day after. *)
LEMMA YearsAdvance ==
  ASSUME NEW d \in Nat
  PROVE  /\ YearAfter(d) \in Year
         /\ YearAfter(d).startsAt = d + 1 /\ YearAfter(d).endsAt > d
<1>1. AddMonths(d + 1, 12) \in Nat /\ AddMonths(d + 1, 12) > d + 1
  BY AddMonthsIsLater
<1> QED
  BY <1>1 DEF YearAfter, Year

(* The loop of the rollover ends, for every day it runs on. *)
LEMMA YearIsDefined ==
  ASSUME NEW today \in Nat, NEW d \in Nat
  PROVE  YearFrom(today)[d] =
           IF YearAfter(d).endsAt >= today THEN YearAfter(d) ELSE YearFrom(today)[YearAfter(d).endsAt]
<1> DEFINE next == [c \in Nat |-> YearAfter(c).endsAt]
           stop == {c \in Nat : next[c] >= today}
           Loop(f) == [c \in Nat |-> LET year == YearAfter(c)
                                     IN  IF year.endsAt >= today THEN year ELSE f[year.endsAt]]
<1>1. next \in [Nat -> Nat] /\ \A c \in Nat : next[c] > c /\ YearAfter(c) \in Year
  BY YearsAdvance DEF Year
<1>2. \E f : f = Loop(f)
  <2> DEFINE base == [c \in Nat |-> YearAfter(c)]
             step == [p \in Nat \X Year |-> p[2]]
  <2>1. base \in [Nat -> Year] /\ step \in [Nat \X Year -> Year]
    BY <1>1
  <2>2. stop \in SUBSET Nat /\ Ends(today, stop, next)
    BY <1>1 DEF Ends
  <2> HIDE DEF base, step, next, stop
  <2>3. PICK f \in [Nat -> Year] : Recurses(f, stop, next, base, step)
    BY <1>1, <2>1, <2>2, RecursionEnds
  <2>4. ASSUME NEW c \in Nat
        PROVE  f[c] = IF c \in stop THEN YearAfter(c) ELSE f[next[c]]
    <3>1. next[c] \in Nat /\ f[next[c]] \in Year
      BY <1>1
    <3>2. base[c] = YearAfter(c) /\ step[<<c, f[next[c]]>>] = f[next[c]]
      BY <3>1 DEF base, step
    <3> QED
      BY <2>3, <3>2 DEF Recurses
  <2>5. f = [c \in Nat |-> f[c]]
    OBVIOUS
  <2>6. f = Loop(f)
    BY <2>4, <2>5 DEF next, stop
  <2> QED
    BY <2>6
<1>3. YearFrom(today) = CHOOSE f : f = Loop(f)
  BY DEF YearFrom
<1> HIDE DEF Loop
<1>4. YearFrom(today) = Loop(YearFrom(today))
  BY <1>2, <1>3
<1> QED
  BY <1>4 DEF Loop

(* The days years may end on that follow one another from a day on. *)
YearEnds(d) == {A \in SUBSET Nat : d \in A /\ \A c \in A : YearAfter(c).endsAt \in A}

(* What the loop of the rollover should find: the first year that ends today or
   later, among those that follow one another. *)
NextYear(r, d, today) ==
  /\ r \in Year /\ r.startsAt > d
  /\ r.startsAt = d + 1 \/ r.startsAt <= today
  /\ r.endsAt >= today
  /\ r = YearAfter(r.startsAt - 1) /\ \A A \in YearEnds(d) : r.startsAt - 1 \in A

LEMMA NextYearIsFound ==
  ASSUME NEW today \in Nat, NEW d \in Nat
  PROVE  NextYear(YearFrom(today)[d], d, today)
<1> DEFINE found(c) == YearFrom(today)[c]
           next(c) == YearAfter(c).endsAt
           T == {n \in Nat : \E c \in Nat : c + n = today /\ ~ NextYear(found(c), c, today)}
<1>1. ASSUME NEW c \in Nat
      PROVE  /\ next(c) \in Nat /\ next(c) > c
             /\ YearAfter(c) \in Year /\ YearAfter(c).startsAt = c + 1
  BY YearsAdvance DEF Year
<1>2. ASSUME NEW c \in Nat, next(c) >= today PROVE found(c) = YearAfter(c)
  BY <1>2, YearIsDefined
<1>3. ASSUME NEW c \in Nat, ~ (next(c) >= today) PROVE found(c) = found(next(c))
  BY <1>3, YearIsDefined
<1>4. ASSUME NEW c \in Nat, next(c) >= today PROVE NextYear(found(c), c, today)
  <2>1. found(c) = YearAfter(c) /\ found(c).startsAt - 1 = c
    BY <1>1, <1>2, <1>4
  <2> QED
    BY <1>1, <1>4, <2>1 DEF NextYear, YearEnds
<1>5. ASSUME NEW c \in Nat, ~ (next(c) >= today), NextYear(found(next(c)), next(c), today)
      PROVE  NextYear(found(c), c, today)
  <2>1. found(c) = found(next(c)) /\ next(c) \in Nat /\ next(c) > c
    BY <1>1, <1>3, <1>5
  <2>2. \A A \in YearEnds(c) : A \in YearEnds(next(c))
    BY DEF YearEnds
  <2> HIDE DEF found, next
  <2>3. found(c).startsAt \in Nat
    BY <1>5, <2>1 DEF NextYear, Year
  <2>4. found(c).startsAt <= today /\ found(c).startsAt > c
    BY <1>5, <2>1, <2>3 DEF NextYear
  <2> QED
    BY <1>5, <2>1, <2>2, <2>4 DEF NextYear
<1> HIDE DEF found, next
<1>6. ASSUME T # {} PROVE FALSE
  <2>1. T \in SUBSET Nat
    OBVIOUS
  <2> HIDE DEF T
  <2>2. PICK m \in T : \A n \in T : m <= n
    BY <1>6, <2>1, LeastOf
  <2>3. PICK c \in Nat : c + m = today /\ ~ NextYear(found(c), c, today) /\ m \in Nat
    BY <2>2 DEF T
  <2>4. ~ (next(c) >= today) /\ next(c) \in Nat /\ next(c) > c
    BY <1>1, <1>4, <2>3
  <2>5. today - next(c) \in Nat /\ ~ (m <= today - next(c))
    BY <2>3, <2>4
  <2>6. today - next(c) \notin T
    BY <2>2, <2>5
  <2>7. NextYear(found(next(c)), next(c), today)
    BY <2>4, <2>5, <2>6 DEF T
  <2> QED
    BY <1>5, <2>3, <2>4, <2>7
<1>7. CASE d <= today
  <2>1. today - d \in Nat /\ d + (today - d) = today
    BY <1>7
  <2> QED
    BY <1>6, <2>1 DEF found
<1>8. CASE d > today
  <2>1. next(d) >= today
    BY <1>1, <1>8
  <2> QED
    BY <1>4, <2>1 DEF found
<1> QED
  BY <1>7, <1>8

(* generateContributionSchedule: a year that is not over, or not to be rolled
   over, stays; otherwise the year in force is one that follows it by whole
   years and holds the day, except on the last day of the old one, when it is
   the next already. *)
THEOREM YearInForceHoldsToday ==
  ASSUME NEW year \in Year, NEW rollover \in BOOLEAN, NEW today \in Nat
  PROVE  LET r == YearInForce(year, rollover, today)
         IN  /\ ~ rollover \/ today < year.endsAt => r = year
             /\ rollover /\ today = year.endsAt => r = YearAfter(today)
             /\ rollover /\ today > year.endsAt =>
                  /\ today \in r.startsAt .. r.endsAt
                  /\ r = YearAfter(r.startsAt - 1) /\ \A A \in YearEnds(year.endsAt) : r.startsAt - 1 \in A
<1> DEFINE e == year.endsAt
           r == YearInForce(year, rollover, today)
<1>1. e \in Nat
  BY DEF Year
<1>2. ASSUME ~ rollover \/ today < e PROVE r = year
  BY <1>1, <1>2 DEF YearInForce
<1>3. ASSUME rollover, today >= e PROVE r = YearFrom(today)[e] /\ NextYear(r, e, today)
  BY <1>1, <1>3, NextYearIsFound DEF YearInForce
<1>4. ASSUME rollover, today = e PROVE r = YearAfter(today)
  <2>1. YearAfter(e).endsAt >= today
    BY <1>1, <1>4, YearsAdvance DEF Year
  <2>2. today >= e
    BY <1>1, <1>4
  <2>3. r = YearFrom(today)[e]
    BY <1>3, <1>4, <2>2
  <2> QED
    BY <1>1, <1>4, <2>1, <2>3, YearIsDefined
<1>5. ASSUME rollover, today > e
      PROVE  /\ today \in r.startsAt .. r.endsAt
             /\ r = YearAfter(r.startsAt - 1) /\ \A A \in YearEnds(e) : r.startsAt - 1 \in A
  <2>0. today >= e
    BY <1>1, <1>5
  <2>1. NextYear(r, e, today)
    BY <1>3, <1>5, <2>0
  <2> HIDE DEF r
  <2>2. r.startsAt \in Nat /\ r.endsAt \in Nat
    BY <2>1 DEF NextYear, Year
  <2>3. r.startsAt <= today /\ today <= r.endsAt
    BY <1>1, <1>5, <2>1, <2>2 DEF NextYear
  <2> QED
    BY <2>1, <2>2, <2>3 DEF NextYear
<1> HIDE DEF r
<1> QED
  BY <1>2, <1>4, <1>5 DEF r

-----------------------------------------------------------------------------
(* A date between the starts of a month and of the next is in that month. *)
LEMMA MonthOfIs ==
  ASSUME NEW m \in Nat, NEW d \in Nat, MonthStart(m) <= d, d < MonthStart(m + 1)
  PROVE  MonthOf(d) = m
<1>1. PICK n \in Nat : n = MonthOf(d) /\ MonthStart(n) <= d /\ d < MonthStart(n + 1)
  BY EveryDateHasAMonth
<1>2. /\ MonthStart(m) \in Nat /\ MonthStart(m + 1) \in Nat
      /\ MonthStart(n) \in Nat /\ MonthStart(n + 1) \in Nat
  BY MonthsFollow
<1>3. ASSUME NEW a \in Nat, NEW b \in Nat, a < b PROVE MonthStart(a + 1) <= MonthStart(b)
  <2>1. CASE b = a + 1
    <3>1. MonthStart(a + 1) \in Nat
      BY MonthsFollow
    <3> QED
      BY <2>1, <3>1
  <2>2. CASE b # a + 1
    <3>1. a + 1 \in Nat /\ b - (a + 1) \in Nat \ {0} /\ (a + 1) + (b - (a + 1)) = b
      BY <1>3, <2>2
    <3>2. MonthStart(a + 1) \in Nat /\ MonthStart(b) \in Nat /\ MonthStart(b) > MonthStart(a + 1)
      BY <3>1, MonthsInOrder, MonthsFollow
    <3> QED
      BY <3>2
  <2> QED
    BY <2>1, <2>2
<1>4. ~ (n < m)
  <2>1. n < m => MonthStart(n + 1) <= MonthStart(m)
    BY <1>3
  <2> QED
    BY <1>1, <1>2, <2>1
<1>5. ~ (m < n)
  <2>1. m < n => MonthStart(m + 1) <= MonthStart(n)
    BY <1>3
  <2> QED
    BY <1>1, <1>2, <2>1
<1> QED
  BY <1>1, <1>4, <1>5

(* Where a month's first day is, and that of the next. *)
LEMMA FirstsOfMonths ==
  ASSUME NEW m \in Nat
  PROVE  /\ MonthOf(MonthStart(m)) = m /\ DayOfMonth(MonthStart(m)) = 1
         /\ AddMonths(MonthStart(m), 1) = MonthStart(m + 1)
<1>1. /\ MonthStart(m) \in Nat /\ MonthStart(m) < MonthStart(m + 1) /\ MonthStart(m + 1) \in Nat
  BY MonthsFollow
<1>2. MonthOf(MonthStart(m)) = m
  BY <1>1, MonthOfIs
<1>3. DayOfMonth(MonthStart(m)) = 1
  BY <1>1, <1>2 DEF DayOfMonth
<1> QED
  BY <1>1, <1>2, <1>3 DEF AddMonths

(* The asked day of a month, or its last where there is no such day. *)
OnAskedDay(d, day) == DayOfMonth(d) = day \/ (DayOfMonth(d) < day /\ DayOfMonth(d + 1) = 1)

(* In a whole month periodDueDate finds the asked day, or the last. *)
LEMMA MonthDayIsAsked ==
  ASSUME NEW m \in Nat, NEW day \in 1 .. 31
  PROVE  /\ OnAskedDay(MonthDayDate(MonthStart(m), day), day)
         /\ MonthDayDate(MonthStart(m), day) \in MonthStart(m) .. MonthStart(m + 1) - 1
<1> DEFINE d == MonthDayDate(MonthStart(m), day)
<1>1. /\ MonthStart(m) \in Nat /\ MonthStart(m + 1) \in Nat
      /\ MonthStart(m + 1) - MonthStart(m) \in 28 .. 31
  BY MonthsFollow
<1>2. d = Earlier(MonthStart(m) + day - 1, MonthStart(m + 1) - 1)
  BY FirstsOfMonths DEF MonthDayDate
<1> HIDE DEF d
<1>3. d \in Nat /\ MonthStart(m) <= d /\ d < MonthStart(m + 1)
  BY <1>1, <1>2 DEF Earlier
<1>4. DayOfMonth(d) = d - MonthStart(m) + 1
  BY <1>3, MonthOfIs DEF DayOfMonth
<1>5. CASE d = MonthStart(m) + day - 1
  <2>1. DayOfMonth(d) = day
    BY <1>1, <1>4, <1>5
  <2> QED
    BY <1>1, <1>3, <2>1 DEF OnAskedDay, d
<1>6. CASE d = MonthStart(m + 1) - 1 /\ d < MonthStart(m) + day - 1
  <2>1. DayOfMonth(d) < day /\ d + 1 = MonthStart(m + 1)
    BY <1>1, <1>3, <1>4, <1>6
  <2>2. DayOfMonth(d + 1) = 1
    BY <2>1, FirstsOfMonths
  <2> QED
    BY <1>1, <1>3, <2>1, <2>2 DEF OnAskedDay, d
<1> QED
  BY <1>1, <1>2, <1>5, <1>6 DEF Earlier

(* periodDueDate in the schedule of any plan and year: a weekly contribution
   falls due on the asked weekday of each whole week, a monthly one on the
   asked day of each whole month, or on its last where it has no such day. *)
THEOREM DuesFallOnTheAskedDays ==
  ASSUME NEW plan \in Plan, NEW year \in Year, year.startsAt <= year.endsAt,
         plan.type = "RECURRING", NEW i \in DOMAIN PeriodSpecs(plan, year)
  PROVE  LET p == PeriodSpecs(plan, year)[i]
         IN  /\ plan.frequency = "WEEKLY" /\ p.endsAt = p.startsAt + 6
                => Weekday(p.dueAt) = Given(plan.dueDayOfWeek, 1)
             /\ /\ plan.frequency \in {"MONTHLY", "QUARTERLY", "ANNUAL"}
                /\ plan.dueDayOfMonth # Unset
                /\ DayOfMonth(p.startsAt) = 1 /\ p.endsAt >= AddMonths(p.startsAt, 1) - 1
                => OnAskedDay(p.dueAt, plan.dueDayOfMonth)
<1> DEFINE periods == PeriodSpecs(plan, year)
           first == IF HasOnePeriod(plan) \/ plan.anchor < year.startsAt THEN year.startsAt
                    ELSE plan.anchor
           p == periods[i]
<1>1. Tiles(plan, periods, first, year.endsAt)
  BY PeriodsTileTheYear
<1>2. periods \in Seq(Period) /\ i \in 1 .. Len(periods)
  BY <1>1, LenProperties DEF Tiles
<1>3. p \in Period /\ DueIn(plan, p)
  BY <1>1, <1>2, ElementOfSeq DEF Tiles
<1> HIDE DEF p
<1>4. /\ p.startsAt \in Nat /\ p.endsAt \in Nat /\ p.dueAt = PeriodDueDate(plan, p.startsAt, p.endsAt)
  BY <1>3 DEF Period, DueIn
<1>5. ASSUME plan.frequency = "WEEKLY", p.endsAt = p.startsAt + 6
      PROVE  Weekday(p.dueAt) = Given(plan.dueDayOfWeek, 1)
  <2>1. PICK w \in 1 .. 7 : w = Given(plan.dueDayOfWeek, 1)
    BY DEF Plan, Given
  <2>2. WeekdayDate(p.startsAt, w) \in p.startsAt .. (p.startsAt + 6)
        /\ Weekday(WeekdayDate(p.startsAt, w)) = w
    BY <1>4, WeekdayIsNext
  <2>3. p.dueAt = ClampDate(WeekdayDate(p.startsAt, w), p.startsAt, p.endsAt)
    BY <1>4, <1>5, <2>1 DEF PeriodDueDate
  <2>4. p.dueAt = WeekdayDate(p.startsAt, w)
    BY <1>4, <1>5, <2>2, <2>3 DEF ClampDate, Earlier
  <2> QED
    BY <2>1, <2>2, <2>4
<1>6. ASSUME plan.frequency \in {"MONTHLY", "QUARTERLY", "ANNUAL"}, plan.dueDayOfMonth # Unset,
             DayOfMonth(p.startsAt) = 1, p.endsAt >= AddMonths(p.startsAt, 1) - 1
      PROVE  OnAskedDay(p.dueAt, plan.dueDayOfMonth)
  <2>1. PICK m \in Nat : m = MonthOf(p.startsAt) /\ MonthStart(m) \in Nat
    BY <1>4, EveryDateHasAMonth, MonthsFollow
  <2>2. p.startsAt = MonthStart(m)
    BY <1>4, <1>6, <2>1 DEF DayOfMonth
  <2>3. PICK day \in 1 .. 31 : day = plan.dueDayOfMonth
    BY <1>6 DEF Plan
  <2>4. MonthStart(m + 1) \in Nat /\ p.endsAt >= MonthStart(m + 1) - 1
    BY <1>6, <2>1, <2>2, FirstsOfMonths, MonthsFollow
  <2>5. p.dueAt = ClampDate(MonthDayDate(MonthStart(m), day), MonthStart(m), p.endsAt)
    BY <1>4, <1>6, <2>2, <2>3 DEF PeriodDueDate, Given
  <2>6. MonthDayDate(MonthStart(m), day) \in MonthStart(m) .. MonthStart(m + 1) - 1
    BY MonthDayIsAsked
  <2>7. p.dueAt = MonthDayDate(MonthStart(m), day)
    BY <1>4, <2>1, <2>4, <2>5, <2>6 DEF ClampDate, Earlier
  <2> QED
    BY <2>3, <2>7, MonthDayIsAsked
<1> QED
  BY <1>5, <1>6 DEF p

=============================================================================
