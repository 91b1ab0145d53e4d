---------------------------- MODULE LeaveReport ----------------------------
(***************************************************************************)
(* What the screens and reports compute from the leaves of LeaveCalendar:  *)
(* the day availability of the request form, HR's summary over a range of  *)
(* days, and the counts of the CEO's and the department head's dashboards. *)
(* Instants are hours.  A date is stored as its midnight in UTC, a form by *)
(* the clock with its hours on the clock of the server.                    *)
(***************************************************************************)
EXTENDS LeaveCalendar

\* startDate and endDate.
Begin(leave) ==
    24 * leave.ask.first + (IF IsHourly(leave.ask) THEN leave.ask.from - UtcOffset ELSE 0)

End(leave) ==
    24 * leave.ask.last + (IF IsHourly(leave.ask) THEN leave.ask.to - UtcOffset ELSE 0)

\* The UTC days they fall on.
FirstDay(leave) == Begin(leave) \div 24
LastDay(leave) == End(leave) \div 24

-----------------------------------------------------------------------------
(* getDayAvailability of employee-query.service.ts *)

\* Variant: only leaves that begin in the range are read.
InQuery_Begun(leave, from, to) == from <= FirstDay(leave) /\ FirstDay(leave) <= to

\* The leaves a query over a range of days reads.
InQuery(leave, from, to) == FirstDay(leave) <= to /\ from <= LastDay(leave)

TakenHalves(day, from, to) ==
    {half \in Halves : \E leave \in leaves :
        InQuery(leave, from, to) /\ <<day, half>> \in Held(leave)}

DayStatus(day, from, to) ==
    CASE day \notin Workdays -> "holiday"
      [] OTHER -> CASE TakenHalves(day, from, to) = Halves -> "full"
                    [] TakenHalves(day, from, to) = {} -> "available"
                    [] OTHER -> "partial"

-----------------------------------------------------------------------------
(* getLeaveSummary of hr-dashboard.service.ts *)

\* Variant: a leave that begins inside counts as a whole.
FullyInside_ByStart(leave, from, to) == from <= FirstDay(leave) /\ FirstDay(leave) <= to

FullyInside(leave, from, to) == from <= FirstDay(leave) /\ LastDay(leave) <= to

\* Rows of before the stored portions: the form's weekdays, at most the hours
\* charged.  Public holidays are not taken off.
LegacyHours(leave, from, to) ==
    Min({leave.hours, HoursPerHalf * Cardinality(
        {slot \in Desired(leave.ask) : slot[1] \in Weekdays \cap (from .. to)})})

\* daysWithinRange
HoursWithin(leave, from, to) ==
    IF FullyInside(leave, from, to) THEN leave.hours
    ELSE IF leave.days # {} THEN PlanHours({entry \in leave.days : entry.date \in from .. to})
    ELSE LegacyHours(leave, from, to)

\* What the leave adds to the employee's line of the summary.
Reported(leave, from, to) ==
    IF InQuery(leave, from, to) THEN HoursWithin(leave, from, to) ELSE 0

-----------------------------------------------------------------------------
(* leavesToday and the trend of a month (ceo.service.ts, manager.service.ts) *)

\* Midnight where the server runs.
Midnight(day) == 24 * day - UtcOffset

LocalDay(instant) == (instant + UtcOffset) \div 24

CeoToday(day) ==
    {leave \in leaves : Begin(leave) <= Midnight(day) /\ Midnight(day) <= End(leave)}

\* The head's query reaches to the next midnight.
HeadToday(day) ==
    {leave \in leaves : Begin(leave) <= Midnight(day + 1) /\ Midnight(day) <= End(leave)}

\* Variant: only leaves that begin in the month are read.
InMonth_Begun(leave, first, last) ==
    Midnight(first) <= Begin(leave) /\ Begin(leave) <= Midnight(last)

InMonth(leave, first, last) ==
    Begin(leave) <= Midnight(last) /\ Midnight(first) <= End(leave)

\* The loop over the days of a leave, clipped to the month.
TrendDays(leave, first, last) ==
    LET from == Max({Begin(leave), Midnight(first)})
        to   == Min({End(leave), Midnight(last)})
    IN  {LocalDay(from + 24 * n) : n \in {m \in 0 .. Cardinality(Days) : from + 24 * m <= to}}

Trend(day, first, last) ==
    {leave \in leaves : InMonth(leave, first, last) /\ day \in TrendDays(leave, first, last)}

-----------------------------------------------------------------------------
Ranges == {range \in Days \X Days : range[1] <= range[2]}

\* What the request screen shows is what filing then does: whatever range the
\* screen asks for, a half is shown free exactly when a leave for it would be
\* accepted (leave-portion.util.ts decides that by its own reading of the leaves).
\* It is about leave that counts workdays only: the screen shows a weekend as
\* closed to maternity leave too, which the planner lets in.
MayFile(day, half) ==
    LET ask == [first |-> day, last |-> day, startFormat |-> half, endFormat |-> half,
                from |-> 0, to |-> 0]
    IN  PlanOk(ask, Taken, FALSE) /\ Planned(ask, FALSE).hours > 0

AvailabilityTruthful ==
    \A range \in Ranges : \A day \in Days \cap (range[1] .. range[2]) :
        LET free == {half \in Halves : MayFile(day, half)} IN
        CASE DayStatus(day, range[1], range[2]) = "available" -> free = Halves
          [] DayStatus(day, range[1], range[2]) = "partial" ->
                free = Halves \ TakenHalves(day, range[1], range[2])
          [] OTHER -> free = {}

\* HR's summary counts a leave that straddles the end of a period once: the
\* parts two adjoining periods report add up to what the whole reports, and a
\* leave is never reported above what it was charged.  A row without stored
\* portions is reported like one with them, if no half of its form was given up,
\* to another leave or to a holiday.
AsLegacy(leave) == [leave EXCEPT !.days = {}]

GotAll(leave) ==
    ~leave.everyDay /\ Held(leave) = {slot \in Desired(leave.ask) : slot[1] \in Weekdays}

RangesAddUp ==
    \A leave \in leaves, range \in Ranges, cut \in Days :
        /\ range[1] <= cut /\ cut < range[2] =>
              Reported(leave, range[1], range[2])
                = Reported(leave, range[1], cut) + Reported(leave, cut + 1, range[2])
        /\ Reported(leave, range[1], range[2]) <= leave.hours
        /\ GotAll(leave) => Reported(AsLegacy(leave), range[1], range[2])
                              = Reported(leave, range[1], range[2])

\* Who is away on a day.
Away(day) == {leave \in leaves : leave.ask.first <= day /\ day <= leave.ask.last}

\* However far the server's midnight is from the stored one, the dashboards tell
\* of the same people: the head's count of a day misses nobody, and what it has
\* beside begins with the next midnight; the CEO's count has nobody beside, and
\* misses only who begins that day; the month's trend is exact on every day but
\* the last, and has nobody beside on that one.
CountsAgree ==
    \A range \in Ranges : \A day \in Days \cap (range[1] .. range[2]) :
        /\ Away(day) \subseteq HeadToday(day)
        /\ \A leave \in HeadToday(day) \ Away(day) : Begin(leave) = Midnight(day + 1)
        /\ CeoToday(day) \subseteq Away(day)
        /\ \A leave \in Away(day) \ CeoToday(day) : leave.ask.first = day
        /\ Trend(day, range[1], range[2]) \subseteq Away(day)
        /\ day < range[2] => Away(day) \subseteq Trend(day, range[1], range[2])

\* The CEO's count of today counts who is away today (ceo.service.ts:39).
CeoCountsToday == \A day \in Days : CeoToday(day) = Away(day)
=============================================================================
