--------------------------- MODULE LeaveCalendar ---------------------------
(***************************************************************************)
(* One employee's calendar under the planner alone: leaves are accepted    *)
(* and dropped in any order, each planned against those that stand, as     *)
(* planPortionsOrThrow does for a form that nothing races with.            *)
(***************************************************************************)
EXTENDS LeavePortion, FiniteSetsExt

CONSTANTS
    Asks,       \* the forms submitted
    MaxLeaves   \* bound on the leaves standing at once

ASSUME CalendarAssumption == Asks \subseteq Ask /\ MaxLeaves \in Nat

VARIABLE leaves

\* The slots of a leave: its stored days, or its form if none are stored.
Held(leave) == IF leave.days = {} THEN Desired(leave.ask) ELSE Expand(leave.days)

\* buildOccupiedHalves.
Taken == UNION {Held(leave) : leave \in leaves}

Planned(ask, everyDay) ==
    LET days == PlanDays(ask, Taken, everyDay)
    IN  [ask |-> ask, everyDay |-> everyDay, days |-> days,
         hours |-> RequestHours(ask, days, everyDay)]

Init == leaves = {}

\* planPortionsOrThrow and the two checks after it: no conflict, some hours.
Accept(ask, everyDay) ==
    /\ Cardinality(leaves) < MaxLeaves
    /\ PlanOk(ask, Taken, everyDay)
    /\ Planned(ask, everyDay).hours > 0
    /\ leaves' = leaves \cup {Planned(ask, everyDay)}

\* A rejected or cancelled leave frees its slots.
Drop(leave) == leaves' = leaves \ {leave}

Next ==
    \/ \E ask \in Asks, everyDay \in BOOLEAN : Accept(ask, everyDay)
    \/ \E leave \in leaves : Drop(leave)

Spec == Init /\ [][Next]_leaves

-----------------------------------------------------------------------------
\* No half-day is held by two leaves, however they were accepted and dropped.
NoHalfTwice ==
    \A a, b \in leaves : a # b => Held(a) \cap Held(b) = {}

\* What a form by days asks for, as one stretch of half-days from its first
\* half to its last.
HalfIndex(slot) == 2 * slot[1] + (IF slot[2] = "morning" THEN 0 ELSE 1)

Stretch(ask) ==
    LET lastFormat == IF ask.first = ask.last THEN ask.startFormat ELSE ask.endFormat
        begin == 2 * ask.first + (IF ask.startFormat = "afternoon" THEN 1 ELSE 0)
        end   == 2 * ask.last + (IF lastFormat = "morning" THEN 0 ELSE 1)
    IN  {slot \in Days \X Halves : begin <= HalfIndex(slot) /\ HalfIndex(slot) <= end}

\* The reference the day-by-day planner is measured against: it claims exactly
\* the wanted slots of counted days that are free, half a day of hours for each,
\* and refuses exactly when some counted day has none of its wanted slots free.
PlanIsExact ==
    \A ask \in {a \in Asks : ~IsHourly(a)}, everyDay \in BOOLEAN :
        LET counted == {slot \in Stretch(ask) : everyDay \/ slot[1] \in Workdays}
            days    == PlanDays(ask, Taken, everyDay)
        IN  /\ Expand(days) = counted \ Taken
            /\ PlanHours(days) = HoursPerHalf * Cardinality(Expand(days))
            /\ PlanOk(ask, Taken, everyDay) <=>
                 {slot[1] : slot \in counted} = {slot[1] : slot \in Expand(days)}

\* The half-days the hours of a leave by the clock reach into, on the UTC clock
\* that the planner reads everything by.
HalfOf(instant) ==
    <<instant \div 24, IF instant % 24 < 12 THEN "morning" ELSE "afternoon">>

Instants(ask) == {24 * ask.first + hour - UtcOffset : hour \in ask.from .. ask.to - 1}

OneUtcDay(ask) == ask.from >= UtcOffset \/ ask.to <= UtcOffset

\* Wherever the server stands, a leave by the clock holds some of the half-days
\* its hours reach into and none beside, so that the half it is in blocks others
\* (expandLeaveHalves with its noon split; for hours that lie on one UTC day).
ClockSlotsHeld ==
    \A leave \in leaves :
        IsHourly(leave.ask) /\ OneUtcDay(leave.ask) =>
            /\ Held(leave) # {}
            /\ Held(leave) \subseteq {HalfOf(instant) : instant \in Instants(leave.ask)}

\* A leave by the clock holds, on its own day, every half its hours reach into
\* (leave-portion.util.ts: the half-days the clock range overlaps, noon split),
\* on the clock of the employee, as the comment promises.
WallHalves(ask) ==
    (IF ask.from < 12 THEN {"morning"} ELSE {}) \cup (IF ask.to > 12 THEN {"afternoon"} ELSE {})

ClockHalvesHeld ==
    \A leave \in leaves :
        IsHourly(leave.ask) => {leave.ask.first} \X WallHalves(leave.ask) \subseteq Held(leave)

\* A day never holds more hours of leave than one full day (its leaves by the
\* clock at their charged hours, the others at half a day per slot).
HoursOn(leave, day) ==
    IF IsHourly(leave.ask) THEN IF leave.ask.first = day THEN leave.hours ELSE 0
    ELSE HoursPerHalf * Cardinality({slot \in Held(leave) : slot[1] = day})

NoDayOverfull ==
    \A day \in Days :
        MapThenSumSet(LAMBDA leave : HoursOn(leave, day), leaves) <= 2 * HoursPerHalf
=============================================================================
