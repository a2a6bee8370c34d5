------------------------- MODULE MCContributionCalendar -------------------------
(***************************************************************************)
(* The calendar checked against reference definitions over bounded inputs: *)
(* TLC evaluates the assumptions below in every run of a module that       *)
(* extends this one.                                                       *)
(***************************************************************************)
EXTENDS ContributionCalendar, FiniteSets

(* 1 January 2026 is day 9497; 2028 is a leap year and 2100 is not. *)
Jan2026 == 9497
NewYears == {MonthStart(12 * y) : y \in {26, 28, 100}}

(* Years as admins enter them: calendar years, years that begin in September
   or on 31 January, a month of one and the longest that is accepted. *)
Years ==
  {[startsAt |-> s, endsAt |-> MonthStart(MonthOf(s) + 12) - 1] :
     s \in NewYears \cup {MonthStart(12 * 26 + 8)}}
  \cup {[startsAt |-> Jan2026 + 30, endsAt |-> Jan2026 + e] : e \in {31, 60, 397}}

Anchors(year) ==
  {Unset, year.startsAt - 40, year.startsAt - 1, year.startsAt + 3, year.startsAt + 30,
   year.endsAt, year.endsAt + 1}

(* Daily plans in the short years only, for the depth of TLC's recursion. *)
Frequencies(year) ==
  Frequency \ IF year.endsAt > year.startsAt + 40 THEN {"DAILY", "ONCE"} ELSE {"ONCE"}

Plans(year) ==
  {CycleData(f, w, m, a) :
     f \in Frequencies(year),
     w \in {1, 5, 7}, m \in {1, 15, 31}, a \in {x \in Anchors(year) : x = Unset \/ x >= 0}}

(* Months have the lengths of the Gregorian calendar, in four hundred years. *)
ASSUME MonthsHaveTheirLengths ==
  \A y \in 0 .. 400 : \A k \in 1 .. 12 :
    MonthStart(12 * y + k) - MonthStart(12 * y + k - 1) =
      CASE k = 2 -> IF IsLeap(y) THEN 29 ELSE 28
        [] k \in {4, 6, 9, 11} -> 30
        [] OTHER -> 31

(* MonthOf and DayOfMonth are the two halves of a date. *)
ASSUME DatesHaveMonths ==
  \A d \in 0 .. 1500 : MonthStart(MonthOf(d)) + DayOfMonth(d) - 1 = d /\ DayOfMonth(d) \in 1 .. 31

(* contributionPeriodSpecs: the periods follow one another without gap or
   overlap, from the year's start or a later anchor to the year's end, and are
   fewer than the 370 the code would stop at. *)
ASSUME TilesTheYear ==
  \A year \in Years : \A plan \in Plans(year) :
    LET periods == PeriodSpecs(plan, year)
        n == Len(periods)
        first == IF plan.frequency = "ANNUAL" \/ plan.anchor < year.startsAt
                 THEN year.startsAt ELSE plan.anchor
    IN  /\ ValidYear(year) /\ n < 370
        /\ n = 0 <=> first > year.endsAt
        /\ n > 0 => periods[1].startsAt = first /\ periods[n].endsAt = year.endsAt
        /\ \A i \in 1 .. n : periods[i].startsAt <= periods[i].endsAt
        /\ \A i \in 1 .. n - 1 : periods[i + 1].startsAt = periods[i].endsAt + 1

(* periodDueDate: every due date lies in its period. *)
ASSUME DueWithinPeriod ==
  \A year \in Years : \A plan \in Plans(year) :
    LET periods == PeriodSpecs(plan, year)
    IN  \A i \in DOMAIN periods :
          periods[i].startsAt <= periods[i].dueAt /\ periods[i].dueAt <= periods[i].endsAt

(* Who joins during the year gets a due for each period that has not ended, and
   each falls due in its period and not before the member has joined. *)
ASSUME JoinersOweTheRest ==
  \A year \in Years : \A plan \in {p \in Plans(year) : p.frequency = "MONTHLY"} :
    \A joinedAt \in {year.startsAt, year.startsAt + 1, year.endsAt - 14, year.endsAt} :
      LET periods == PeriodSpecs(plan, year)
          dues == DueDates(periods, joinedAt)
      IN  /\ periods # <<>> => Len(periods) \in DOMAIN dues
          /\ \A i \in DOMAIN dues :
               dues[i] >= joinedAt /\ dues[i] \in periods[i].startsAt .. periods[i].endsAt

(* A weekly contribution falls due on every asked weekday of the periods that
   are whole weeks, and on no other day of them. *)
ASSUME WeeklyOnTheAskedDays ==
  \A year \in Years : \A days \in {{2}, {7}, {1, 4}, 1 .. 7} :
    \A anchor \in {Unset, year.startsAt - 3, year.startsAt + 9} :
      LET plans == MemberPlans("WEEKLY", days, Unset, Unset, anchor)
          whole(periods) == {i \in DOMAIN periods : periods[i].endsAt = periods[i].startsAt + 6}
          dues == UNION {LET periods == PeriodSpecs(plan, year)
                         IN  {periods[i].dueAt : i \in whole(periods)} : plan \in plans}
          covered == UNION {LET periods == PeriodSpecs(plan, year)
                            IN  UNION {periods[i].startsAt .. periods[i].endsAt :
                                         i \in whole(periods)} : plan \in plans}
      IN  Cardinality(plans) = Cardinality(days)
          /\ dues = {d \in covered : Weekday(d) \in days}

(* A monthly contribution of a year of whole months falls due once a month, on
   the asked day or on the last of a month that has no such day. *)
ASSUME MonthlyOnTheAskedDay ==
  \A year \in {y \in Years : DayOfMonth(y.startsAt) = 1 /\ DayOfMonth(y.endsAt + 1) = 1} :
    \A day \in {1, 15, 28, 29, 30, 31} :
      LET periods == PeriodSpecs(CycleData("MONTHLY", Unset, day, Unset), year)
      IN  {periods[i].dueAt : i \in DOMAIN periods} =
            {d \in year.startsAt .. year.endsAt :
               \/ DayOfMonth(d) = day
               \/ DayOfMonth(d) < day /\ DayOfMonth(d + 1) = 1}

(* setUTCMonth at the end of a month: a plan anchored on 31 January has no
   period that begins in February, and goes on from 3 March. *)
ASSUME FebruaryIsSkipped ==
  LET periods == PeriodSpecs(CycleData("MONTHLY", Unset, 31, Jan2026 + 30),
                             [startsAt |-> Jan2026, endsAt |-> Jan2026 + 364])
  IN  /\ \A i \in DOMAIN periods : MonthOf(periods[i].startsAt) # MonthOf(Jan2026 + 31)
      /\ periods[2].startsAt = MonthStart(MonthOf(Jan2026) + 2) + 2

(* The rollover of generateContributionSchedule: the years follow one another
   without a gap, and the year in force holds the day, except on the last day
   of a year, when it is the next one already. *)
ASSUME RolloverFollowsOn ==
  \A year \in Years : \A wait \in {-1, 0, 1, 31, 365, 366, 367, 800} :
    LET today == year.endsAt + wait
        next == YearInForce(year, TRUE, today)
    IN  /\ YearInForce(year, FALSE, today) = year
        /\ wait < 0 => next = year
        /\ wait = 0 => next.startsAt = today + 1
        /\ wait > 0 => next.startsAt <= today /\ today <= next.endsAt
        /\ wait >= 0 => next = YearAfter(next.startsAt - 1)

=============================================================================
