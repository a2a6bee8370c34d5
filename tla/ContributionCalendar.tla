-------------------------- MODULE ContributionCalendar --------------------------
(***************************************************************************)
(* When dues fall due: the pure date arithmetic that saveFinancialYear,    *)
(* saveContributionSettings and generateContributionSchedule               *)
(* (groups.service.ts) run on.  The ledger takes the dates from it as its  *)
(* constant DueDate.                                                         *)
(*                                                                         *)
(* A date is a number of days since Saturday 1 January 2000, in UTC as in  *)
(* the code; a month is a number of months since January 2000.             *)
(***************************************************************************)
EXTENDS Integers, Sequences

Frequency == {"DAILY", "WEEKLY", "MONTHLY", "QUARTERLY", "ANNUAL", "ONCE"}
Unset == -1                                                     \* null

Plan ==
  [type : {"JOINING_FEE", "RECURRING"}, frequency : Frequency, anchor : Nat \cup {Unset},
   dueDayOfWeek : (1 .. 7) \cup {Unset}, dueDayOfMonth : (1 .. 31) \cup {Unset}]

-----------------------------------------------------------------------------
(* What the JavaScript Date does. *)

IsLeap(y) == y % 4 = 0 /\ (y % 100 # 0 \/ y % 400 = 0)

DaysBefore == <<0, 31, 59, 90, 120, 151, 181, 212, 243, 273, 304, 334>>

(* The first day of a month, by the number of leap years before its year. *)
MonthStart(month) ==
  LET y == month \div 12
      k == month % 12
  IN  365 * y + (y + 3) \div 4 - (y + 99) \div 100 + (y + 399) \div 400
        + DaysBefore[k + 1] + (IF k > 1 /\ IsLeap(y) THEN 1 ELSE 0)

MonthOf(d) ==
  CHOOSE month \in (d \div 31) .. (d \div 28) :
    MonthStart(month) <= d /\ d < MonthStart(month + 1)

DayOfMonth(d) == d - MonthStart(MonthOf(d)) + 1

(* getUTCDay with Sunday as 7. *)
Weekday(d) == ((d + 5) % 7) + 1

-----------------------------------------------------------------------------
(* The service's own helpers. *)

(* setUTCMonth keeps the day's number: what the month lacks overflows into
   the month after it, so 31 January and a month is 2 or 3 March. *)
AddMonths(d, months) == MonthStart(MonthOf(d) + months) + DayOfMonth(d) - 1

NextPeriodStart(d, frequency) ==
  CASE frequency = "DAILY" -> d + 1
    [] frequency = "WEEKLY" -> d + 7
    [] frequency = "QUARTERLY" -> AddMonths(d, 3)
    [] OTHER -> AddMonths(d, 1)

Earlier(d, e) == IF d <= e THEN d ELSE e

ClampDate(d, startsAt, endsAt) ==
  IF d < startsAt THEN startsAt ELSE Earlier(d, endsAt)

(* The asked weekday on or after a date; Sunday is 7 for Weekday, 0 here. *)
WeekdayDate(startsAt, dueDay) ==
  startsAt + (((dueDay % 7) - Weekday(startsAt) + 7) % 7)

(* The asked day of the month of a date, or the month's last day. *)
MonthDayDate(startsAt, dueDay) ==
  LET month == MonthOf(startsAt)
  IN  Earlier(MonthStart(month) + dueDay - 1, MonthStart(month + 1) - 1)

Given(value, default) == IF value = Unset THEN default ELSE value

PeriodDueDate(plan, startsAt, endsAt) ==
  CASE plan.frequency = "DAILY" -> startsAt
    [] plan.frequency = "WEEKLY" ->
         ClampDate(WeekdayDate(startsAt, Given(plan.dueDayOfWeek, 1)), startsAt, endsAt)
    [] OTHER ->
         ClampDate(MonthDayDate(startsAt, Given(plan.dueDayOfMonth, DayOfMonth(startsAt))),
                   startsAt, endsAt)

-----------------------------------------------------------------------------
(* The periods of a plan in a financial year. *)

(* Where the first period starts: at the anchor, moved on by whole periods to
   the one the year begins in. *)
FirstFrom(plan, year) ==
  LET First[d \in Nat] ==
        LET next == NextPeriodStart(d, plan.frequency)
        IN  IF d >= year.startsAt \/ next > year.startsAt THEN d ELSE First[next]
  IN  First

FirstStart(plan, year) == FirstFrom(plan, year)[Given(plan.anchor, year.startsAt)]

PeriodAt(plan, year, cursor) ==
  LET startsAt == IF cursor < year.startsAt THEN year.startsAt ELSE cursor
      endsAt == Earlier(NextPeriodStart(cursor, plan.frequency) - 1, year.endsAt)
  IN  [startsAt |-> startsAt, endsAt |-> endsAt,
       dueAt |-> PeriodDueDate(plan, startsAt, endsAt)]

(* The periods from a cursor on.  The code stops at 370 of them; a year has at
   most 368 days, so it never does. *)
PeriodsFrom(plan, year) ==
  LET From[cursor \in Nat] ==
        IF cursor > year.endsAt THEN <<>>
        ELSE <<PeriodAt(plan, year, cursor)>> \o From[NextPeriodStart(cursor, plan.frequency)]
  IN  From

PeriodSpecs(plan, year) ==
  LET once == [startsAt |-> year.startsAt, endsAt |-> year.endsAt,
               dueAt |-> IF plan.type = "JOINING_FEE" THEN year.startsAt
                         ELSE PeriodDueDate(plan, year.startsAt, year.endsAt)]
  IN  IF plan.type = "JOINING_FEE" \/ plan.frequency \in {"ANNUAL", "ONCE"}
      THEN <<once>> ELSE PeriodsFrom(plan, year)[FirstStart(plan, year)]

(* The dues a member who joined on a day gets: those of the periods that had
   not ended, and never due before the member joined. *)
DueDates(periods, joinedAt) ==
  LET owed == {i \in DOMAIN periods : periods[i].endsAt >= joinedAt}
  IN  [i \in owed |-> IF periods[i].dueAt < joinedAt THEN joinedAt ELSE periods[i].dueAt]

-----------------------------------------------------------------------------
(* What an admin may ask for, and the plans it becomes. *)

ValidYear(year) == year.startsAt < year.endsAt /\ year.endsAt - year.startsAt <= 367

ValidCycle(frequency, dueDayOfWeek, dueDayOfMonth) ==
  /\ frequency = "WEEKLY" => dueDayOfWeek # Unset
  /\ frequency \in {"MONTHLY", "QUARTERLY", "ANNUAL"} => dueDayOfMonth # Unset

(* Days that say nothing about the frequency are not kept. *)
CycleData(frequency, dueDayOfWeek, dueDayOfMonth, anchor) ==
  [type |-> "RECURRING", frequency |-> frequency, anchor |-> anchor,
   dueDayOfWeek |-> IF frequency = "WEEKLY" THEN dueDayOfWeek ELSE Unset,
   dueDayOfMonth |-> IF frequency \in {"MONTHLY", "QUARTERLY", "ANNUAL"}
                     THEN dueDayOfMonth ELSE Unset]

(* The weekdays a group collects on: those asked for, or the single one. *)
WeeklyDays(days, fallback) ==
  IF days # {} THEN days ELSE {fallback} \ {Unset}

(* A weekly contribution has one plan for each of its days. *)
MemberPlans(frequency, days, fallback, dueDayOfMonth, anchor) ==
  {CycleData(frequency, day, dueDayOfMonth, anchor) :
     day \in IF frequency = "WEEKLY" THEN WeeklyDays(days, fallback) ELSE {fallback}}

-----------------------------------------------------------------------------
(* The financial year rolls over when it has ended. *)

YearAfter(endsAt) == [startsAt |-> endsAt + 1, endsAt |-> AddMonths(endsAt + 1, 12) - 1]

(* endsAt is the midnight its last day begins with, and is compared with the
   time, which is later in that day already: the next year is in force on the
   last day of the old one.  Years that are over as well are passed over. *)
YearFrom(today) ==
  LET Current[endsAt \in Nat] ==
        LET next == YearAfter(endsAt)
        IN  IF next.endsAt >= today THEN next ELSE Current[next.endsAt]
  IN  Current

YearInForce(year, rollover, today) ==
  IF rollover /\ year.endsAt <= today THEN YearFrom(today)[year.endsAt] ELSE year

=============================================================================
