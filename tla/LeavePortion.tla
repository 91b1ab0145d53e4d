--------------------------- MODULE LeavePortion ---------------------------
(***************************************************************************)
(* The day-portion planner of src/modules/employee/leave-portion.util.ts:  *)
(* which half-days a leave asks for, which of them other leaves already    *)
(* hold, and which portions a new leave gets.  Days are integers; a slot   *)
(* is one half of one day; leave is measured in hours, eight to the day.   *)
(***************************************************************************)
EXTENDS Integers, FiniteSets

CONSTANTS
    Days,       \* the calendar days requests are filed for
    Weekdays,   \* the days of no weekend
    Workdays,   \* those of them that are no public holiday either
    UtcOffset   \* how many hours the server's clock is ahead of UTC

ASSUME PortionAssumption ==
    /\ Days \subseteq Int /\ IsFiniteSet(Days)
    /\ Weekdays \subseteq Days /\ Workdays \subseteq Weekdays
    /\ UtcOffset \in 0 .. 23

Halves == {"morning", "afternoon"}
Portions == Halves \cup {"full"}
HoursPerHalf == 4

\* What a form asks for; from and to are clock hours, used by hourly leave only.
Ask == [first : Days, last : Days,
        startFormat : Portions \cup {"hourly"}, endFormat : Portions \cup {"hourly"},
        from : 0 .. 23, to : 0 .. 23]

DayPortion == [date : Int, portion : Portions]

HalvesOf(portion) == IF portion = "full" THEN Halves ELSE {portion}

IsHourly(ask) == "hourly" \in {ask.startFormat, ask.endFormat}

-----------------------------------------------------------------------------
(* What a request asks for. *)

\* The halves and the day an hourly request falls on: clocks are read in UTC.
\* Variant: on a twelve-hour clock.
UtcHour_TwelveHour(hour) == (hour - UtcOffset) % 12

UtcHour(hour) == (hour - UtcOffset) % 24

UtcDay(ask) == ask.first + ((ask.from - UtcOffset) \div 24)

ClockHalves(ask) ==
    LET start == UtcHour(ask.from)
        end   == UtcHour(ask.to)
        early == IF start < 12 THEN {"morning"} ELSE {}
        late  == IF end > 12 \/ end <= start THEN {"afternoon"} ELSE {}
    IN  IF early \cup late = {} THEN {"afternoon"} ELSE early \cup late

\* Variant: a morning start gives up the first afternoon.
BoundaryHalves_MorningStart(ask, day) ==
    IF day = ask.first THEN HalvesOf(IF ask.startFormat \in Halves THEN ask.startFormat ELSE "full")
    ELSE IF day = ask.last /\ ask.endFormat = "morning" THEN {"morning"} ELSE Halves

\* A boundary day of a longer leave gives up the half the leave does not reach.
BoundaryHalves(ask, day) ==
    IF ask.first = ask.last
    THEN HalvesOf(IF ask.startFormat \in Halves THEN ask.startFormat ELSE "full")
    ELSE IF day = ask.first /\ ask.startFormat = "afternoon" THEN {"afternoon"}
    ELSE IF day = ask.last /\ ask.endFormat = "morning" THEN {"morning"}
    ELSE Halves

\* expandLeaveHalves without stored days.
Desired(ask) ==
    IF IsHourly(ask)
    THEN {UtcDay(ask)} \X ClockHalves(ask)
    ELSE {slot \in Days \X Halves :
            /\ ask.first <= slot[1] /\ slot[1] <= ask.last
            /\ slot[2] \in BoundaryHalves(ask, slot[1])}

\* expandLeaveHalves with stored days.
Expand(days) == UNION {{entry.date} \X HalvesOf(entry.portion) : entry \in days}

-----------------------------------------------------------------------------
(* planDayPortions: what the request gets, given the occupied slots. *)

\* Holidays are looked up between the two instants of the form, and stored at
\* midnight in UTC: a form by the clock sees one only if that instant is inside.
HolidayFound(ask, day) ==
    IsHourly(ask) => day = ask.first /\ ask.from <= UtcOffset /\ UtcOffset <= ask.to

Counted(ask, day) ==
    day \in Workdays \/ (day \in Weekdays /\ ~HolidayFound(ask, day))

PlannedDays(ask, everyDay) ==
    {day \in {slot[1] : slot \in Desired(ask)} : everyDay \/ Counted(ask, day)}

\* Variant: what other leaves hold is not taken off.
FreeHalves_IgnoresTaken(ask, occupied, day) ==
    {half \in Halves : <<day, half>> \in Desired(ask)}

FreeHalves(ask, occupied, day) ==
    {half \in Halves : <<day, half>> \in Desired(ask) \ occupied}

PortionOf(free) == IF free = Halves THEN "full" ELSE CHOOSE half \in Halves : half \in free

Conflicts(ask, occupied, everyDay) ==
    {day \in PlannedDays(ask, everyDay) : FreeHalves(ask, occupied, day) = {}}

PlanDays(ask, occupied, everyDay) ==
    {[date |-> day, portion |-> PortionOf(FreeHalves(ask, occupied, day))] :
        day \in PlannedDays(ask, everyDay) \ Conflicts(ask, occupied, everyDay)}

PlanOk(ask, occupied, everyDay) == Conflicts(ask, occupied, everyDay) = {}

PlanHours(days) ==
    LET full == {entry \in days : entry.portion = "full"}
    IN  2 * HoursPerHalf * Cardinality(full) + HoursPerHalf * Cardinality(days \ full)

\* Variant: a leave by the clock costs the day.
HourlyHours_WholeDay(ask, everyDay) == 2 * HoursPerHalf

\* calculateWorkingDays, which only hourly leave is sized by: the clock span,
\* or nothing on a day that is not counted.
HourlyHours(ask, everyDay) ==
    IF everyDay \/ Counted(ask, ask.first) THEN ask.to - ask.from ELSE 0

\* The hours a leave is charged: an hourly one by its clock, others by the plan.
RequestHours(ask, days, everyDay) ==
    IF IsHourly(ask) THEN HourlyHours(ask, everyDay) ELSE PlanHours(days)
=============================================================================
