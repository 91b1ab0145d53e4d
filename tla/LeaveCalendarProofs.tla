------------------------ MODULE LeaveCalendarProofs ------------------------
(***************************************************************************)
(* The planner is exact, gives nothing out twice and fills no day above    *)
(* its hours, and screen, summary and dashboards agree with it: for every  *)
(* calendar and every set of forms.                                        *)
(***************************************************************************)
EXTENDS LeaveReport, LeavePortionProofs, SumProofs

\* Leave by the clock starts late enough in the day for the UTC day it is read
\* in to be the day it was filed for.
SameUtcDay == \A ask \in Asks : IsHourly(ask) => UtcOffset <= ask.from

LEMMA UtcDayIsFirst ==
    ASSUME SameUtcDay, NEW ask \in Asks, IsHourly(ask)
    PROVE  UtcDay(ask) = ask.first
<1>1. ask \in Ask
    BY CalendarAssumption
<1>2. ask.first \in Int
    <2>1. ask.first \in Days
        BY <1>1 DEF Ask
    <2> QED BY <2>1, PortionAssumption
<1>3. ask.from \in 0 .. 23
    BY <1>1 DEF Ask
<1>4. UtcOffset \in 0 .. 23
    BY PortionAssumption
<1>5. ask.from - UtcOffset \in 0 .. 23
    BY <1>3, <1>4 DEF SameUtcDay
<1>6. (ask.from - UtcOffset) \div 24 = 0
    BY <1>5
<1> QED BY <1>2, <1>6 DEF UtcDay

\* An accepted leave has day rows: a plan without conflicts that leaves no day
\* over counts no hours, and createLeaveRequest refuses a leave of no hours.
LEMMA AcceptedHasDays ==
    ASSUME SameUtcDay, NEW ask \in Asks, NEW everyDay \in BOOLEAN,
           PlanOk(ask, Taken, everyDay), Planned(ask, everyDay).hours > 0
    PROVE  Planned(ask, everyDay).days # {}
<1> DEFINE days == PlanDays(ask, Taken, everyDay)
<1> SUFFICES ASSUME days = {} PROVE FALSE
    BY DEF Planned
<1>1. RequestHours(ask, {}, everyDay) > 0
    BY DEF Planned
<1>2. CASE ~IsHourly(ask)
    <2>1. PlanHours({}) = 0
        <3>1. {entry \in {} : entry.portion = "full"} = {}
            OBVIOUS
        <3> QED BY <3>1, FS_EmptySet DEF PlanHours, HoursPerHalf
    <2> QED BY <1>1, <1>2, <2>1 DEF RequestHours
<1>3. CASE IsHourly(ask)
    <2>1. PlannedDays(ask, everyDay) = {}
        BY DEF PlanDays, PlanOk
    <2>2. PICK half : half \in ClockHalves(ask)
        BY DEF ClockHalves
    <2>3. <<ask.first, half>> \in Desired(ask)
        BY <1>3, <2>2, UtcDayIsFirst DEF Desired
    <2>4. ask.first \in {slot[1] : slot \in Desired(ask)}
        BY <2>3
    <2>5. ~everyDay /\ ~Counted(ask, ask.first)
        BY <2>1, <2>4 DEF PlannedDays
    <2> QED BY <1>1, <1>3, <2>5 DEF RequestHours, HourlyHours
<1> QED BY <1>2, <1>3

\* An accepted leave holds nothing another leave holds.
LEMMA AcceptedIsFree ==
    ASSUME SameUtcDay, NEW ask \in Asks, NEW everyDay \in BOOLEAN,
           PlanOk(ask, Taken, everyDay), Planned(ask, everyDay).hours > 0
    PROVE  Held(Planned(ask, everyDay)) \cap Taken = {}
<1>1. Held(Planned(ask, everyDay)) = Expand(PlanDays(ask, Taken, everyDay))
    BY AcceptedHasDays DEF Held, Planned
<1>2. ask \in Ask
    BY CalendarAssumption
<1> QED BY <1>1, <1>2, PlanClaimsFree

\* No half-day is ever held by two leaves of one employee, whatever forms are
\* accepted and dropped in whatever order (planPortionsOrThrow).
THEOREM NoHalfTwiceHolds == SameUtcDay => (Spec => []NoHalfTwice)
<1> SUFFICES ASSUME SameUtcDay PROVE Spec => []NoHalfTwice
    OBVIOUS
<1>1. Init => NoHalfTwice
    BY DEF Init, NoHalfTwice
<1>2. NoHalfTwice /\ [Next]_leaves => NoHalfTwice'
    <2> SUFFICES ASSUME NoHalfTwice, [Next]_leaves PROVE NoHalfTwice'
        OBVIOUS
    <2>1. ASSUME NEW ask \in Asks, NEW everyDay \in BOOLEAN, Accept(ask, everyDay)
          PROVE  NoHalfTwice'
        <3> DEFINE new == Planned(ask, everyDay)
        <3>1. Held(new) \cap Taken = {}
            BY <2>1, AcceptedIsFree DEF Accept
        <3>2. \A leave \in leaves : Held(new) \cap Held(leave) = {}
            BY <3>1 DEF Taken
        <3>3. leaves' = leaves \cup {new}
            BY <2>1 DEF Accept
        <3> HIDE DEF new
        <3> QED BY <3>2, <3>3 DEF NoHalfTwice
    <2>2. ASSUME NEW leave \in leaves, Drop(leave) PROVE NoHalfTwice'
        BY <2>2 DEF Drop, NoHalfTwice
    <2>3. CASE UNCHANGED leaves
        BY <2>3 DEF NoHalfTwice
    <2> QED BY <2>1, <2>2, <2>3 DEF Next
<1> QED BY <1>1, <1>2, PTL DEF Spec

-----------------------------------------------------------------------------
(* The planner against its reference. *)

\* A form by days asks for one stretch of half-days.
LEMMA DesiredIsStretch ==
    ASSUME NEW ask \in Ask, ~IsHourly(ask)
    PROVE  Desired(ask) = Stretch(ask)
<1>1. /\ ask.first \in Int /\ ask.last \in Int
      /\ ask.startFormat \in {"morning", "afternoon", "full"}
      /\ ask.endFormat \in {"morning", "afternoon", "full"}
    BY PortionAssumption DEF Ask, IsHourly, Portions, Halves
<1>2. ASSUME NEW day \in Days, NEW half \in Halves
      PROVE  <<day, half>> \in Desired(ask) <=> <<day, half>> \in Stretch(ask)
    <2>1. day \in Int
        BY PortionAssumption
    <2>2. <<day, half>> \in Desired(ask) <=>
              /\ ask.first <= day /\ day <= ask.last
              /\ half \in BoundaryHalves(ask, day)
        BY DEF Desired
    <2>3. CASE half = "morning"
        <3>1. HalfIndex(<<day, half>>) = 2 * day
            BY <2>1, <2>3 DEF HalfIndex
        <3> QED BY <1>1, <2>1, <2>2, <2>3, <3>1
                DEF Stretch, BoundaryHalves, HalvesOf, Halves
    <2>4. CASE half = "afternoon"
        <3>1. HalfIndex(<<day, half>>) = 2 * day + 1
            BY <2>1, <2>4 DEF HalfIndex
        <3> QED BY <1>1, <2>1, <2>2, <2>4, <3>1
                DEF Stretch, BoundaryHalves, HalvesOf, Halves
    <2> QED BY <2>3, <2>4 DEF Halves
<1>3. Desired(ask) \subseteq Days \X Halves /\ Stretch(ask) \subseteq Days \X Halves
    BY DEF Desired, Stretch
<1> QED BY <1>2, <1>3

\* The days of a plan are the counted days it does not refuse.
LEMMA DaysOfPlan ==
    ASSUME NEW ask \in Ask, NEW occupied, NEW everyDay
    PROVE  {slot[1] : slot \in Expand(PlanDays(ask, occupied, everyDay))} =
               PlannedDays(ask, everyDay) \ Conflicts(ask, occupied, everyDay)
<1> DEFINE claimed == {slot \in Desired(ask) : everyDay \/ Counted(ask, slot[1])} \ occupied
           kept == PlannedDays(ask, everyDay) \ Conflicts(ask, occupied, everyDay)
<1>1. Desired(ask) \subseteq Int \X Halves
    BY DesiredType
<1>2. ASSUME NEW slot \in claimed PROVE slot[1] \in kept
    <2>1. slot = <<slot[1], slot[2]>> /\ slot[2] \in Halves
        BY <1>1
    <2>2. slot[2] \in FreeHalves(ask, occupied, slot[1])
        BY <2>1 DEF FreeHalves
    <2> QED BY <2>2 DEF PlannedDays, Conflicts
<1>3. ASSUME NEW day \in kept PROVE \E slot \in claimed : slot[1] = day
    <2>1. PICK half : half \in FreeHalves(ask, occupied, day)
        BY DEF Conflicts
    <2>2. <<day, half>> \in claimed
        BY <2>1 DEF FreeHalves, PlannedDays
    <2> QED BY <2>2
<1>4. Expand(PlanDays(ask, occupied, everyDay)) = claimed
    BY PlanClaimsFree
<1> HIDE DEF claimed, kept
<1>5. {slot[1] : slot \in claimed} = kept
    BY <1>2, <1>3
<1> QED BY <1>4, <1>5 DEF kept

\* A plan has one row for each day, finitely many, worth half a day a slot.
LEMMA HoursOfPlan ==
    ASSUME NEW ask \in Ask, NEW occupied, NEW everyDay
    PROVE  LET plan == PlanDays(ask, occupied, everyDay)
           IN  /\ IsFiniteSet(Expand(plan))
               /\ PlanHours(plan) = HoursPerHalf * Cardinality(Expand(plan))
<1> DEFINE plan == PlanDays(ask, occupied, everyDay)
<1>1. plan \in SUBSET DayPortion
    BY PlanType
<1>2. IsFiniteSet(plan) /\ \A a, b \in plan : a.date = b.date => a = b
    BY PlanRows
<1> HIDE DEF plan
<1>3. IsFiniteSet(Expand(plan)) /\ PlanHours(plan) = HoursPerHalf * Cardinality(Expand(plan))
    BY <1>1, <1>2, HoursOfRows
<1> QED BY <1>3 DEF plan

\* A form by days finds every holiday of its days.
LEMMA CountedByDays ==
    ASSUME NEW ask, ~IsHourly(ask), NEW day
    PROVE  Counted(ask, day) <=> day \in Workdays
BY DEF Counted, HolidayFound

\* In every calendar and for every form by days, the day-by-day planner claims
\* exactly the wanted slots that are free, counts half a day for each, and refuses
\* exactly when a counted day has none of them free (planDayPortions).
THEOREM PlanIsExactHolds == Spec => []PlanIsExact
<1>1. PlanIsExact
    <2> SUFFICES ASSUME NEW ask \in Asks, ~IsHourly(ask), NEW everyDay \in BOOLEAN
                 PROVE  LET counted == {slot \in Stretch(ask) :
                                           everyDay \/ slot[1] \in Workdays}
                            days    == PlanDays(ask, Taken, everyDay)
                        IN  /\ Expand(days) = counted \ Taken
                            /\ PlanHours(days) = HoursPerHalf * Cardinality(Expand(days))
                            /\ PlanOk(ask, Taken, everyDay) <=>
                                 {slot[1] : slot \in counted} =
                                     {slot[1] : slot \in Expand(days)}
        BY DEF PlanIsExact
    <2> DEFINE counted == {slot \in Stretch(ask) : everyDay \/ slot[1] \in Workdays}
               days == PlanDays(ask, Taken, everyDay)
    <2>1. ask \in Ask
        BY CalendarAssumption
    <2>2. Stretch(ask) = Desired(ask)
        BY <2>1, DesiredIsStretch
    <2>3. Expand(days) = counted \ Taken
        BY <2>1, <2>2, PlanClaimsFree, CountedByDays
    <2>4. PlanHours(days) = HoursPerHalf * Cardinality(Expand(days))
        BY <2>1, HoursOfPlan
    <2>5. PlannedDays(ask, everyDay) = {slot[1] : slot \in counted}
        BY <2>2, CountedByDays DEF PlannedDays
    <2>6. {slot[1] : slot \in Expand(days)} =
              PlannedDays(ask, everyDay) \ Conflicts(ask, Taken, everyDay)
        BY <2>1, DaysOfPlan
    <2>7. Conflicts(ask, Taken, everyDay) \subseteq PlannedDays(ask, everyDay)
        BY DEF Conflicts
    <2>8. PlanOk(ask, Taken, everyDay) <=>
              {slot[1] : slot \in counted} = {slot[1] : slot \in Expand(days)}
        BY <2>5, <2>6, <2>7 DEF PlanOk
    <2> QED BY <2>3, <2>4, <2>8
<1> QED BY <1>1, PTL

-----------------------------------------------------------------------------
(* Leave by the clock. *)

\* An accepted leave by the clock has its hours, on a day that is counted.
LEMMA AcceptedHours ==
    ASSUME NEW ask \in Asks, IsHourly(ask), NEW everyDay \in BOOLEAN,
           Planned(ask, everyDay).hours > 0
    PROVE  /\ Planned(ask, everyDay).hours = ask.to - ask.from
           /\ ask.from \in 0 .. 23 /\ ask.to \in 0 .. 23 /\ ask.from < ask.to
           /\ everyDay \/ Counted(ask, ask.first)
<1>1. ask.from \in 0 .. 23 /\ ask.to \in 0 .. 23
    BY CalendarAssumption DEF Ask
<1>2. Planned(ask, everyDay).hours = HourlyHours(ask, everyDay)
    BY DEF Planned, RequestHours
<1> QED BY <1>1, <1>2 DEF HourlyHours

\* An hour of a day.
LEMMA HourOfDay ==
    ASSUME NEW day \in Int, NEW hour \in 0 .. 23, NEW instant, instant = 24 * day + hour
    PROVE  instant \div 24 = day /\ instant % 24 = hour
OBVIOUS

\* Whatever the server's clock, the half-days a form by the clock asks for are among
\* those its hours reach into, if they lie on one UTC day.
LEMMA ClockAsksItsHours ==
    ASSUME NEW ask \in Asks, IsHourly(ask), OneUtcDay(ask), ask.from < ask.to
    PROVE  Desired(ask) \subseteq {HalfOf(instant) : instant \in Instants(ask)}
<1>1. ask.from \in 0 .. 23 /\ ask.to \in 0 .. 23 /\ UtcOffset \in 0 .. 23
    BY CalendarAssumption, PortionAssumption DEF Ask
<1>2. ask.first \in Int
    BY CalendarAssumption, PortionAssumption DEF Ask
<1>3. ASSUME NEW hour \in ask.from .. ask.to - 1
      PROVE  HalfOf(24 * ask.first + hour - UtcOffset)
                 \in {HalfOf(instant) : instant \in Instants(ask)}
    BY DEF Instants
<1>4. Desired(ask) = {UtcDay(ask)} \X ClockHalves(ask)
    BY DEF Desired
<1>5. CASE ask.from >= UtcOffset
    <2>1. UtcDay(ask) = ask.first
        <3>1. (ask.from - UtcOffset) \div 24 = 0
            BY <1>1, <1>5
        <3> QED BY <1>2, <3>1 DEF UtcDay
    <2>2. UtcHour(ask.from) = ask.from - UtcOffset /\ UtcHour(ask.to) = ask.to - UtcOffset
        <3>1. \A x \in 0 .. 23 : x % 24 = x
            OBVIOUS
        <3>2. ask.from - UtcOffset \in 0 .. 23 /\ ask.to - UtcOffset \in 0 .. 23
            BY <1>1, <1>5
        <3> QED BY <3>1, <3>2 DEF UtcHour
    <2>3. ASSUME NEW hour \in ask.from .. ask.to - 1
          PROVE  HalfOf(24 * ask.first + hour - UtcOffset)
                   = <<ask.first, IF hour - UtcOffset < 12 THEN "morning" ELSE "afternoon">>
        <3>1. hour - UtcOffset \in 0 .. 23
            BY <1>1, <1>5
        <3>2. /\ (24 * ask.first + hour - UtcOffset) \div 24 = ask.first
              /\ (24 * ask.first + hour - UtcOffset) % 24 = hour - UtcOffset
            BY <1>1, <1>2, <3>1
        <3> QED BY <3>2 DEF HalfOf
    <2>4. ask.from \in ask.from .. ask.to - 1 /\ ask.to - 1 \in ask.from .. ask.to - 1
        BY <1>1
    <2>5. "morning" \in ClockHalves(ask) => ask.from - UtcOffset < 12
        BY <1>1, <2>2 DEF ClockHalves
    <2>6. "afternoon" \in ClockHalves(ask) => ~(ask.to - 1 - UtcOffset < 12)
        BY <1>1, <2>2 DEF ClockHalves
    <2>7. ClockHalves(ask) \subseteq {"morning", "afternoon"}
        BY DEF ClockHalves
    <2>8. "morning" \in ClockHalves(ask) =>
              <<ask.first, "morning">> \in {HalfOf(instant) : instant \in Instants(ask)}
        BY <1>3, <2>3, <2>4, <2>5
    <2>9. "afternoon" \in ClockHalves(ask) =>
              <<ask.first, "afternoon">> \in {HalfOf(instant) : instant \in Instants(ask)}
        BY <1>3, <2>3, <2>4, <2>6
    <2> QED BY <1>4, <2>1, <2>7, <2>8, <2>9
<1>6. CASE ask.to <= UtcOffset
    <2>1. UtcDay(ask) = ask.first - 1
        <3>1. \A x \in -23 .. -1 : x \div 24 = -1
            OBVIOUS
        <3>2. ask.from - UtcOffset \in -23 .. -1
            BY <1>1, <1>6
        <3>3. (ask.from - UtcOffset) \div 24 = -1
            BY <3>1, <3>2
        <3> QED BY <1>2, <3>3 DEF UtcDay
    <2>2. /\ UtcHour(ask.from) = ask.from - UtcOffset + 24
          /\ UtcHour(ask.to) = IF ask.to = UtcOffset THEN 0 ELSE ask.to - UtcOffset + 24
        <3>1. \A x \in -23 .. -1 : x % 24 = x + 24
            OBVIOUS
        <3>2. ask.from - UtcOffset \in -23 .. -1
            BY <1>1, <1>6
        <3>3. ask.to # UtcOffset => ask.to - UtcOffset \in -23 .. -1
            BY <1>1, <1>6
        <3>4. ask.to = UtcOffset => (ask.to - UtcOffset) % 24 = 0
            BY <1>1
        <3> QED BY <3>1, <3>2, <3>3, <3>4 DEF UtcHour
    <2>3. ASSUME NEW hour \in ask.from .. ask.to - 1
          PROVE  HalfOf(24 * ask.first + hour - UtcOffset)
                   = <<ask.first - 1,
                       IF hour - UtcOffset + 24 < 12 THEN "morning" ELSE "afternoon">>
        <3>1. hour - UtcOffset + 24 \in 0 .. 23
            BY <1>1, <1>6
        <3>2. /\ (24 * ask.first + hour - UtcOffset) \div 24 = ask.first - 1
              /\ (24 * ask.first + hour - UtcOffset) % 24 = hour - UtcOffset + 24
            BY <1>1, <1>2, <3>1
        <3> QED BY <3>2 DEF HalfOf
    <2>4. ask.from \in ask.from .. ask.to - 1 /\ ask.to - 1 \in ask.from .. ask.to - 1
        BY <1>1
    <2>5. "morning" \in ClockHalves(ask) => ask.from - UtcOffset + 24 < 12
        BY <1>1, <2>2 DEF ClockHalves
    <2>6. "afternoon" \in ClockHalves(ask) => ~(ask.to - 1 - UtcOffset + 24 < 12)
        BY <1>1, <1>6, <2>2 DEF ClockHalves
    <2>7. ClockHalves(ask) \subseteq {"morning", "afternoon"}
        BY DEF ClockHalves
    <2>8. "morning" \in ClockHalves(ask) =>
              <<ask.first - 1, "morning">> \in {HalfOf(instant) : instant \in Instants(ask)}
        BY <1>3, <2>3, <2>4, <2>5
    <2>9. "afternoon" \in ClockHalves(ask) =>
              <<ask.first - 1, "afternoon">> \in {HalfOf(instant) : instant \in Instants(ask)}
        BY <1>3, <2>3, <2>4, <2>6
    <2> QED BY <1>4, <2>1, <2>7, <2>8, <2>9
<1> QED BY <1>5, <1>6 DEF OneUtcDay

\* An accepted leave by the clock holds some of what it asks for.
LEMMA AcceptedHoldsClock ==
    ASSUME NEW ask \in Asks, IsHourly(ask), NEW everyDay \in BOOLEAN
    PROVE  /\ Held(Planned(ask, everyDay)) # {}
           /\ Held(Planned(ask, everyDay)) \subseteq Desired(ask)
<1> DEFINE plan == PlanDays(ask, Taken, everyDay)
<1>1. ask \in Ask
    BY CalendarAssumption
<1>2. Planned(ask, everyDay).days = plan /\ Planned(ask, everyDay).ask = ask
    BY DEF Planned
<1>3. CASE plan = {}
    <2>1. Held(Planned(ask, everyDay)) = Desired(ask)
        BY <1>2, <1>3 DEF Held
    <2>2. ClockHalves(ask) # {} /\ Desired(ask) = {UtcDay(ask)} \X ClockHalves(ask)
        BY DEF ClockHalves, Desired
    <2>3. Desired(ask) # {}
        <3>1. PICK half : half \in ClockHalves(ask)
            BY <2>2
        <3>2. <<UtcDay(ask), half>> \in Desired(ask)
            BY <2>2, <3>1
        <3> QED BY <3>2
    <2> HIDE DEF plan
    <2> QED BY <2>1, <2>3
<1>4. CASE plan # {}
    <2>1. Held(Planned(ask, everyDay)) = Expand(plan)
        BY <1>2, <1>4 DEF Held
    <2>2. Expand(plan) \subseteq Desired(ask)
        BY <1>1, PlanClaimsFree
    <2>3. Expand(plan) # {}
        <3>1. PlannedDays(ask, everyDay) \ Conflicts(ask, Taken, everyDay) # {}
            BY <1>4 DEF PlanDays
        <3>2. {slot[1] : slot \in Expand(plan)} # {}
            BY <1>1, <3>1, DaysOfPlan
        <3> HIDE DEF plan
        <3> QED BY <3>2
    <2> QED BY <2>1, <2>2, <2>3
<1> QED BY <1>3, <1>4

\* Wherever the server stands, and whatever was accepted and dropped around it, a
\* leave by the clock holds some of the half-days its hours reach into and none
\* beside (expandLeaveHalves with its noon split).
THEOREM ClockSlotsHeldHolds == Spec => []ClockSlotsHeld
<1>1. Init => ClockSlotsHeld
    BY DEF Init, ClockSlotsHeld
<1>2. ClockSlotsHeld /\ [Next]_leaves => ClockSlotsHeld'
    <2> SUFFICES ASSUME ClockSlotsHeld, [Next]_leaves PROVE ClockSlotsHeld'
        OBVIOUS
    <2>1. ASSUME NEW ask \in Asks, NEW everyDay \in BOOLEAN, Accept(ask, everyDay)
          PROVE  ClockSlotsHeld'
        <3> DEFINE new == Planned(ask, everyDay)
        <3>1. new.ask = ask
            BY DEF Planned
        <3>2. IsHourly(new.ask) /\ OneUtcDay(new.ask) =>
                  /\ Held(new) # {}
                  /\ Held(new) \subseteq {HalfOf(instant) : instant \in Instants(new.ask)}
            <4> SUFFICES ASSUME IsHourly(ask), OneUtcDay(ask)
                         PROVE  /\ Held(new) # {}
                                /\ Held(new) \subseteq
                                       {HalfOf(instant) : instant \in Instants(ask)}
                BY <3>1
            <4>1. ask.from < ask.to
                BY <2>1, AcceptedHours DEF Accept
            <4>2. Desired(ask) \subseteq {HalfOf(instant) : instant \in Instants(ask)}
                BY <4>1, ClockAsksItsHours
            <4> QED BY <4>2, AcceptedHoldsClock
        <3>3. leaves' = leaves \cup {new}
            BY <2>1 DEF Accept
        <3> HIDE DEF new
        <3> QED BY <3>2, <3>3 DEF ClockSlotsHeld
    <2>2. ASSUME NEW leave \in leaves, Drop(leave) PROVE ClockSlotsHeld'
        BY <2>2 DEF Drop, ClockSlotsHeld
    <2>3. CASE UNCHANGED leaves
        BY <2>3 DEF ClockSlotsHeld
    <2> QED BY <2>1, <2>2, <2>3 DEF Next
<1> QED BY <1>1, <1>2, PTL DEF Spec

-----------------------------------------------------------------------------
(* The hours of one day. *)

\* Leave by the clock is at most half a day.
ShortClock ==
    \A ask \in Asks : IsHourly(ask) => ask.to - ask.from <= HoursPerHalf

DayHours(day, S) == MapThenSumSet(LAMBDA leave : HoursOn(leave, day), S)

\* The fold of the hours of a day is a sum.
LEMMA DayHoursAdd ==
    ASSUME NEW S, IsFiniteSet(S), NEW f, NEW day, \A x \in S : f[x] = HoursOn(x, day)
    PROVE  DayHours(day, S) = Sum(f, S)
<1> DEFINE E(g) == g = [s \in SUBSET S |->
                          IF s = {} THEN 0
                          ELSE HoursOn(CHOOSE x \in s : TRUE, day)
                                 + g[s \ {CHOOSE x \in s : TRUE}]]
           h == CHOOSE g : E(g)
<1>1. DayHours(day, S) = h[S]
    BY DEF DayHours, MapThenSumSet, MapThenFoldSet
<1>2. ASSUME NEW g PROVE E(g) <=> Adds(g, f, S)
    <2>1. \A s \in SUBSET S : s # {} => HoursOn(CHOOSE x \in s : TRUE, day) = f[Pick(s)]
        BY PickIn DEF Pick
    <2>2. [s \in SUBSET S |-> IF s = {} THEN 0
                             ELSE HoursOn(CHOOSE x \in s : TRUE, day)
                                    + g[s \ {CHOOSE x \in s : TRUE}]]
            = [s \in SUBSET S |-> IF s = {} THEN 0 ELSE f[Pick(s)] + g[s \ {Pick(s)}]]
        BY <2>1 DEF Pick
    <2> QED BY <2>2 DEF Adds
<1> HIDE DEF E
<1>3. \E g : E(g)
    BY <1>2, AddsExists
<1>4. E(h)
    BY <1>3
<1> HIDE DEF h
<1>5. PICK k : k = (CHOOSE g : Adds(g, f, S))
    OBVIOUS
<1>6. Adds(k, f, S)
    BY <1>5, AddsExists
<1>7. h[S] = k[S]
    BY <1>2, <1>4, <1>6, AddsUnique
<1> QED BY <1>1, <1>5, <1>7 DEF Sum

\* Leaves that share no slot add up to no more than the slots they hold together,
\* if each costs no more than its own; h gives the slots of a leave, f its hours.
LEMMA ApartAddUp ==
    ASSUME NEW S, IsFiniteSet(S), NEW f, NEW h,
           \A x \in S : /\ f[x] \in Nat /\ IsFiniteSet(h[x])
                        /\ f[x] <= 4 * Cardinality(h[x]),
           \A x, y \in S : x # y => h[x] \cap h[y] = {}
    PROVE  \A T \in SUBSET S :
               LET all == UNION {h[x] : x \in T}
               IN  IsFiniteSet(all) /\ Sum(f, T) <= 4 * Cardinality(all)
<1> DEFINE all(T) == UNION {h[x] : x \in T}
           Fine(T) == IsFiniteSet(all(T)) /\ Sum(f, T) <= 4 * Cardinality(all(T))
           Good == {T \in SUBSET S : Fine(T)}
<1>1. ASSUME NEW T \in SUBSET S, \A U \in SUBSET T : U # T => U \in Good
      PROVE  Fine(T)
    <2>0. \A x \in S : f[x] \in Int
        OBVIOUS
    <2>1. /\ T = {} => Sum(f, T) = 0
          /\ \A x \in T : Sum(f, T) = f[x] + Sum(f, T \ {x})
          /\ \A x \in T : Sum(f, T \ {x}) \in Int
        <3> HIDE DEF Good, Fine, all
        <3>1. \A U \in SUBSET S : /\ Sum(f, U) \in Int
                                  /\ U = {} => Sum(f, U) = 0
                                  /\ \A x \in U : Sum(f, U) = f[x] + Sum(f, U \ {x})
            BY ONLY IsFiniteSet(S), <2>0, SumAt
        <3>2. \A x \in T : T \ {x} \in SUBSET S
            OBVIOUS
        <3> QED BY <3>1, <3>2
    <2>2. CASE T = {}
        <3>1. all(T) = {}
            BY <2>2
        <3> HIDE DEF all
        <3> QED BY <2>1, <2>2, <3>1, FS_EmptySet
    <2>3. ASSUME NEW x \in T PROVE Fine(T)
        <3>1. Fine(T \ {x})
            BY <1>1
        <3>2. all(T) = h[x] \cup all(T \ {x}) /\ h[x] \cap all(T \ {x}) = {}
            OBVIOUS
        <3>3. /\ f[x] \in Nat /\ IsFiniteSet(h[x])
              /\ f[x] <= 4 * Cardinality(h[x])
            OBVIOUS
        <3>4. PICK rest : rest = all(T \ {x})
            OBVIOUS
        <3>5. PICK own : own = h[x]
            OBVIOUS
        <3>6. IsFiniteSet(own) /\ IsFiniteSet(rest) /\ own \cap rest = {}
            BY <3>1, <3>2, <3>3, <3>4, <3>5
        <3> HIDE DEF all
        <3>8. /\ IsFiniteSet(own \cup rest)
              /\ Cardinality(own) \in Nat /\ Cardinality(rest) \in Nat
              /\ Cardinality(own \cup rest) = Cardinality(own) + Cardinality(rest)
            BY <3>6, ApartCount
        <3>9. Sum(f, T) = f[x] + Sum(f, T \ {x}) /\ Sum(f, T \ {x}) \in Int
            BY <2>1
        <3>10. Sum(f, T \ {x}) <= 4 * Cardinality(rest)
            BY <3>1, <3>4
        <3>11. all(T) = own \cup rest
            BY <3>2, <3>4, <3>5
        <3>12. f[x] \in Nat /\ f[x] <= 4 * Cardinality(own)
            BY <3>3, <3>5
        <3>13. Sum(f, T) <= 4 * Cardinality(own \cup rest)
            BY <3>8, <3>9, <3>10, <3>12
        <3> QED BY <3>8, <3>11, <3>13
    <2> HIDE DEF Fine
    <2> QED BY <2>2, <2>3
<1> HIDE DEF Fine
<1>2. \A T \in SUBSET S : T \in Good
    <2>1. \A T \in SUBSET S : (\A U \in SUBSET T : U # T => U \in Good) => T \in Good
        BY <1>1
    <2> HIDE DEF Good
    <2> QED BY <2>1, SubsetInduction
<1> QED BY <1>2 DEF Fine

\* A leave's slots of one day.
HeldOn(leave, day) == {slot \in Held(leave) : slot[1] = day}

\* No leave costs more of a day than the halves it holds.
Costed(leave) ==
    /\ IsFiniteSet(Held(leave))
    /\ Held(leave) \subseteq Int \X Halves
    /\ \A day \in Days : /\ HoursOn(leave, day) \in Nat
                         /\ HoursOn(leave, day) <= 4 * Cardinality(HeldOn(leave, day))

DayInv ==
    /\ NoHalfTwice
    /\ IsFiniteSet(leaves)
    /\ \A leave \in leaves : Costed(leave)

\* An accepted leave costs no more of a day than the halves it holds.
LEMMA AcceptedIsCosted ==
    ASSUME SameUtcDay, ShortClock, NEW ask \in Asks, NEW everyDay \in BOOLEAN,
           PlanOk(ask, Taken, everyDay), Planned(ask, everyDay).hours > 0
    PROVE  Costed(Planned(ask, everyDay))
<1> DEFINE new == Planned(ask, everyDay)
           plan == PlanDays(ask, Taken, everyDay)
<1>1. ask \in Ask
    BY CalendarAssumption
<1>2. Held(new) = Expand(plan)
    BY AcceptedHasDays DEF Held, Planned
<1>3. Held(new) = {slot \in Desired(ask) : everyDay \/ Counted(ask, slot[1])} \ Taken
    BY <1>1, <1>2, PlanClaimsFree
<1>4. Held(new) \subseteq Int \X Halves
    BY <1>1, <1>3, DesiredType
<1>5. IsFiniteSet(Held(new))
    BY <1>1, <1>2, HoursOfPlan
<1>6. new.ask = ask
    BY DEF Planned
<1>7. ASSUME NEW day \in Days
      PROVE  /\ HoursOn(new, day) \in Nat
             /\ HoursOn(new, day) <= 4 * Cardinality(HeldOn(new, day))
    <2>1. IsFiniteSet(HeldOn(new, day))
        <3> HIDE DEF new
        <3> QED BY <1>5, FS_Subset DEF HeldOn
    <2>2. Cardinality(HeldOn(new, day)) \in Nat
        BY <2>1, FS_CardinalityType
    <2>3. CASE ~IsHourly(ask)
        <3>1. HoursOn(new, day) = 4 * Cardinality(HeldOn(new, day))
            BY <1>6, <2>3 DEF HoursOn, HeldOn, HoursPerHalf
        <3> QED BY <2>2, <3>1
    <2>4. CASE IsHourly(ask) /\ ask.first # day
        <3>1. HoursOn(new, day) = 0
            BY <1>6, <2>4 DEF HoursOn
        <3> QED BY <2>2, <3>1
    <2>5. CASE IsHourly(ask) /\ ask.first = day
        <3>1. /\ new.hours = ask.to - ask.from
              /\ ask.from \in 0 .. 23 /\ ask.to \in 0 .. 23 /\ ask.from < ask.to
            BY <2>5, AcceptedHours
        <3>2. HoursOn(new, day) = ask.to - ask.from
            BY <1>6, <2>5, <3>1 DEF HoursOn
        <3>3. ask.to - ask.from <= 4
            BY <2>5 DEF ShortClock, HoursPerHalf
        <3>4. HeldOn(new, day) # {}
            <4>1. plan # {}
                BY AcceptedHasDays DEF Planned
            <4>2. Expand(plan) # {}
                <5>1. PlannedDays(ask, everyDay) \ Conflicts(ask, Taken, everyDay) # {}
                    BY <4>1 DEF PlanDays
                <5>2. {slot[1] : slot \in Expand(plan)} # {}
                    BY <1>1, <5>1, DaysOfPlan
                <5> HIDE DEF plan
                <5> QED BY <5>2
            <4>3. \A slot \in Desired(ask) : slot[1] = day
                BY <2>5, UtcDayIsFirst DEF Desired
            <4> HIDE DEF new, plan
            <4> QED BY <1>2, <1>3, <4>2, <4>3 DEF HeldOn
        <3>5. Cardinality(HeldOn(new, day)) # 0
            BY <2>1, <3>4, FS_EmptySet
        <3> QED BY <2>2, <3>1, <3>2, <3>3, <3>5
    <2> QED BY <2>3, <2>4, <2>5
<1> QED BY <1>4, <1>5, <1>7 DEF Costed

\* Leaves that share no slot and each cost no more than they hold fill no day
\* above its two halves.
LEMMA CostedFits == DayInv => NoDayOverfull
<1> SUFFICES ASSUME DayInv, NEW day \in Days
             PROVE  DayHours(day, leaves) <= 2 * HoursPerHalf
    BY DEF NoDayOverfull, DayHours
<1> DEFINE f == [leave \in leaves |-> HoursOn(leave, day)]
           h == [leave \in leaves |-> HeldOn(leave, day)]
           all == UNION {h[leave] : leave \in leaves}
<1>1. IsFiniteSet(leaves)
    BY DEF DayInv
<1>2. \A leave \in leaves : /\ f[leave] \in Nat /\ IsFiniteSet(h[leave])
                            /\ f[leave] <= 4 * Cardinality(h[leave])
    <2> SUFFICES ASSUME NEW leave \in leaves
                 PROVE  /\ HoursOn(leave, day) \in Nat
                        /\ IsFiniteSet(HeldOn(leave, day))
                        /\ HoursOn(leave, day) <= 4 * Cardinality(HeldOn(leave, day))
        OBVIOUS
    <2>1. Costed(leave)
        BY DEF DayInv
    <2>2. IsFiniteSet(HeldOn(leave, day))
        BY <2>1, FS_Subset DEF Costed, HeldOn
    <2> QED BY <2>1, <2>2 DEF Costed
<1>3. \A a, b \in leaves : a # b => h[a] \cap h[b] = {}
    BY DEF DayInv, NoHalfTwice, HeldOn
<1>4. all \subseteq {<<day, "morning">>, <<day, "afternoon">>}
    BY DEF DayInv, Costed, HeldOn, Halves
<1>5. DayHours(day, leaves) = Sum(f, leaves)
    <2>1. \A leave \in leaves : f[leave] = HoursOn(leave, day)
        OBVIOUS
    <2> HIDE DEF f
    <2> QED BY <1>1, <2>1, DayHoursAdd
<1> HIDE DEF f, h
<1>6. IsFiniteSet(all) /\ Sum(f, leaves) <= 4 * Cardinality(all)
    BY <1>1, <1>2, <1>3, ApartAddUp
<1>7. Cardinality(all) <= 2
    <2> DEFINE both == {<<day, "morning">>} \cup {<<day, "afternoon">>}
    <2>1. IsFiniteSet(both) /\ Cardinality(both) = 2
        <3>1. {<<day, "morning">>} \cap {<<day, "afternoon">>} = {}
            OBVIOUS
        <3>2. /\ IsFiniteSet({<<day, "morning">>})
              /\ IsFiniteSet({<<day, "afternoon">>})
              /\ Cardinality({<<day, "morning">>}) = 1
              /\ Cardinality({<<day, "afternoon">>}) = 1
            BY FS_Singleton, Zenon
        <3>3. /\ IsFiniteSet(both)
              /\ Cardinality(both) = Cardinality({<<day, "morning">>})
                                        + Cardinality({<<day, "afternoon">>})
            BY <3>1, <3>2, ApartCount
        <3> HIDE DEF both
        <3> QED BY <3>2, <3>3
    <2>2. all \in SUBSET both
        BY <1>4
    <2> HIDE DEF all, both
    <2> QED BY <2>1, <2>2, FS_Subset
<1>8. Cardinality(all) \in Nat
    BY <1>6, FS_CardinalityType
<1>9. Sum(f, leaves) \in Nat
    <2>1. \A leave \in leaves : f[leave] \in Nat
        BY <1>2
    <2> QED BY ONLY <1>1, <2>1, SumNat
<1> HIDE DEF all
<1> QED BY <1>5, <1>6, <1>7, <1>8, <1>9 DEF HoursPerHalf

\* A day never holds more hours of leave than one full day, for every calendar and
\* every set of forms whose clock leaves are at most half a day long.
THEOREM NoDayOverfullHolds == SameUtcDay /\ ShortClock => (Spec => []NoDayOverfull)
<1> SUFFICES ASSUME SameUtcDay, ShortClock PROVE Spec => []NoDayOverfull
    OBVIOUS
<1>1. Init => DayInv
    BY FS_EmptySet DEF Init, DayInv, NoHalfTwice
<1>2. DayInv /\ [Next]_leaves => DayInv'
    <2> SUFFICES ASSUME DayInv, [Next]_leaves PROVE DayInv'
        OBVIOUS
    <2>1. ASSUME NEW ask \in Asks, NEW everyDay \in BOOLEAN, Accept(ask, everyDay)
          PROVE  DayInv'
        <3> DEFINE new == Planned(ask, everyDay)
        <3>1. Held(new) \cap Taken = {} /\ Costed(new)
            BY <2>1, AcceptedIsFree, AcceptedIsCosted DEF Accept
        <3>2. \A leave \in leaves : Held(new) \cap Held(leave) = {}
            BY <3>1 DEF Taken
        <3>3. leaves' = leaves \cup {new}
            BY <2>1 DEF Accept
        <3> HIDE DEF new
        <3>4. NoHalfTwice'
            BY <3>2, <3>3 DEF DayInv, NoHalfTwice
        <3>5. IsFiniteSet(leaves')
            BY <3>3, FS_AddElement DEF DayInv
        <3>6. (\A leave \in leaves : Costed(leave))'
            BY <3>1, <3>3 DEF DayInv, Costed
        <3> QED BY <3>4, <3>5, <3>6 DEF DayInv
    <2>2. ASSUME NEW leave \in leaves, Drop(leave) PROVE DayInv'
        <3>1. leaves' \in SUBSET leaves
            BY <2>2 DEF Drop
        <3>2. IsFiniteSet(leaves')
            BY <3>1, FS_Subset DEF DayInv
        <3> QED BY <3>1, <3>2 DEF DayInv, NoHalfTwice, Costed
    <2>3. CASE UNCHANGED leaves
        BY <2>3 DEF DayInv, NoHalfTwice, Costed
    <2> QED BY <2>1, <2>2, <2>3 DEF Next
<1> QED BY <1>1, <1>2, CostedFits, PTL DEF Spec

-----------------------------------------------------------------------------
(* Screens and reports. *)

\* A form by the clock is of one day, which is its UTC day.
OneDayByClock == SameUtcDay /\ \A ask \in Asks : IsHourly(ask) => ask.first = ask.last

\* What is known of a standing leave: its rows are the slots it holds, one row a day,
\* within its first and last day, its hours are its plan's, or its clock runs forward.
Sound(leave) ==
    /\ leave \in [ask : Asks, everyDay : BOOLEAN, days : SUBSET DayPortion, hours : Nat]
    /\ leave.days # {} /\ IsFiniteSet(leave.days)
    /\ \A a, b \in leave.days : a.date = b.date => a = b
    /\ \A entry \in leave.days : entry.date \in leave.ask.first .. leave.ask.last
    /\ IF IsHourly(leave.ask)
       THEN leave.ask.from < leave.ask.to
       ELSE leave.hours = PlanHours(leave.days)

AllSound == \A leave \in leaves : Sound(leave)

\* An accepted leave is sound.
LEMMA AcceptedIsSound ==
    ASSUME OneDayByClock, NEW ask \in Asks, NEW everyDay \in BOOLEAN,
           PlanOk(ask, Taken, everyDay), Planned(ask, everyDay).hours > 0
    PROVE  Sound(Planned(ask, everyDay))
<1> DEFINE new == Planned(ask, everyDay)
           plan == PlanDays(ask, Taken, everyDay)
<1>1. ask \in Ask /\ SameUtcDay /\ ask.first \in Int /\ ask.last \in Int
    BY CalendarAssumption, PortionAssumption DEF OneDayByClock, Ask
<1>2. plan # {}
    BY <1>1, AcceptedHasDays DEF Planned
<1>3. plan \in SUBSET DayPortion
    BY <1>1, PlanType
<1>4. IsFiniteSet(plan) /\ \A a, b \in plan : a.date = b.date => a = b
    BY <1>1, PlanRows
<1>5. \A entry \in plan : entry.date \in ask.first .. ask.last
    <2> SUFFICES ASSUME NEW entry \in plan PROVE entry.date \in ask.first .. ask.last
        OBVIOUS
    <2>1. PICK slot \in Desired(ask) : slot[1] = entry.date
        BY DEF PlanDays, PlannedDays
    <2>2. CASE IsHourly(ask)
        <3>1. slot[1] = ask.first /\ ask.first = ask.last
            BY <1>1, <2>2, UtcDayIsFirst DEF Desired, OneDayByClock
        <3> QED BY <1>1, <2>1, <3>1
    <2>3. CASE ~IsHourly(ask)
        <3>1. ask.first <= slot[1] /\ slot[1] <= ask.last /\ slot[1] \in Days
            BY <2>3 DEF Desired
        <3>2. slot[1] \in Int
            BY <3>1, PortionAssumption
        <3> QED BY <1>1, <2>1, <3>1, <3>2
    <2> QED BY <2>2, <2>3
<1>6. new.hours \in Nat
    <2>1. CASE IsHourly(ask)
        BY <2>1, AcceptedHours
    <2>2. CASE ~IsHourly(ask)
        BY <1>1, <2>2, PlanHoursType DEF Planned, RequestHours
    <2> QED BY <2>1, <2>2
<1>7. IF IsHourly(ask) THEN ask.from < ask.to ELSE new.hours = PlanHours(plan)
    BY AcceptedHours DEF Planned, RequestHours
<1>8. new = [ask |-> ask, everyDay |-> everyDay, days |-> plan, hours |-> new.hours]
    BY DEF Planned
<1>9. new.ask = ask /\ new.everyDay = everyDay /\ new.days = plan
    BY DEF Planned
<1>10. Sound(new)
    <2> HIDE DEF new, plan
    <2>1. new \in [ask : Asks, everyDay : BOOLEAN, days : SUBSET DayPortion, hours : Nat]
        BY <1>3, <1>6, <1>8
    <2> QED BY <1>2, <1>4, <1>5, <1>7, <1>9, <2>1 DEF Sound
<1> QED BY <1>10

\* Every leave that stands is sound.
LEMMA SoundHolds == OneDayByClock => (Spec => []AllSound)
<1> SUFFICES ASSUME OneDayByClock PROVE Spec => []AllSound
    OBVIOUS
<1>1. Init => AllSound
    BY DEF Init, AllSound
<1>2. AllSound /\ [Next]_leaves => AllSound'
    <2> SUFFICES ASSUME AllSound, [Next]_leaves PROVE AllSound'
        OBVIOUS
    <2>1. ASSUME NEW ask \in Asks, NEW everyDay \in BOOLEAN, Accept(ask, everyDay)
          PROVE  AllSound'
        <3> DEFINE new == Planned(ask, everyDay)
        <3>1. Sound(new)
            BY <2>1, AcceptedIsSound DEF Accept
        <3>2. leaves' = leaves \cup {new}
            BY <2>1 DEF Accept
        <3> HIDE DEF new
        <3> QED BY <3>1, <3>2 DEF AllSound
    <2>2. ASSUME NEW leave \in leaves, Drop(leave) PROVE AllSound'
        BY <2>2 DEF Drop, AllSound
    <2>3. CASE UNCHANGED leaves
        BY <2>3 DEF AllSound
    <2> QED BY <2>1, <2>2, <2>3 DEF Next
<1> QED BY <1>1, <1>2, PTL DEF Spec

\* A sound leave holds its rows, within its days.
LEMMA SoundHeld ==
    ASSUME NEW leave, Sound(leave)
    PROVE  /\ Held(leave) = Expand(leave.days)
           /\ leave.ask \in Ask /\ leave.ask.first \in Int /\ leave.ask.last \in Int
           /\ leave.ask.first <= leave.ask.last
           /\ \A slot \in Held(leave) : /\ slot \in Int \X Halves
                                        /\ leave.ask.first <= slot[1]
                                        /\ slot[1] <= leave.ask.last
<1>1. leave.ask \in Ask /\ leave.ask.first \in Int /\ leave.ask.last \in Int
    BY CalendarAssumption, PortionAssumption DEF Sound, Ask
<1>2. Held(leave) = Expand(leave.days)
    BY DEF Sound, Held
<1>3. PICK some \in leave.days : TRUE
    BY DEF Sound
<1>4. leave.ask.first <= leave.ask.last
    BY <1>1, <1>3 DEF Sound
<1>5. ASSUME NEW slot \in Held(leave)
      PROVE  /\ slot \in Int \X Halves
             /\ leave.ask.first <= slot[1] /\ slot[1] <= leave.ask.last
    <2>1. PICK entry \in leave.days : slot \in {entry.date} \X HalvesOf(entry.portion)
        BY <1>2 DEF Expand
    <2>2. entry.date \in leave.ask.first .. leave.ask.last /\ entry \in DayPortion
        BY DEF Sound
    <2>3. HalvesOf(entry.portion) \subseteq Halves
        BY <2>2 DEF DayPortion, HalvesOf, Portions, Halves
    <2> QED BY <1>1, <2>1, <2>2, <2>3
<1> QED BY <1>1, <1>2, <1>4, <1>5

\* A sound leave begins and ends, in UTC, on the days it was filed for.
LEMMA SoundDays ==
    ASSUME OneDayByClock, NEW leave, Sound(leave)
    PROVE  /\ FirstDay(leave) = leave.ask.first /\ LastDay(leave) = leave.ask.last
           /\ Begin(leave) \in 24 * leave.ask.first .. 24 * leave.ask.first + 23 - UtcOffset
           /\ End(leave) \in 24 * leave.ask.last .. 24 * leave.ask.last + 23 - UtcOffset
           /\ Begin(leave) - 24 * leave.ask.first <= End(leave) - 24 * leave.ask.last
<1>1. /\ leave.ask \in Asks /\ leave.ask \in Ask
      /\ leave.ask.first \in Int /\ leave.ask.last \in Int
      /\ leave.ask.first <= leave.ask.last
    BY SoundHeld DEF Sound
<1>2. leave.ask.from \in 0 .. 23 /\ leave.ask.to \in 0 .. 23 /\ UtcOffset \in 0 .. 23
    BY <1>1, PortionAssumption DEF Ask
<1>3. CASE IsHourly(leave.ask)
    <2>1. /\ UtcOffset <= leave.ask.from /\ leave.ask.from < leave.ask.to
          /\ leave.ask.first = leave.ask.last
        BY <1>1, <1>3 DEF OneDayByClock, SameUtcDay, Sound
    <2>2. /\ Begin(leave) = 24 * leave.ask.first + (leave.ask.from - UtcOffset)
          /\ End(leave) = 24 * leave.ask.last + (leave.ask.to - UtcOffset)
        BY <1>3 DEF Begin, End
    <2>3. leave.ask.from - UtcOffset \in 0 .. 23 /\ leave.ask.to - UtcOffset \in 0 .. 23
        BY <1>2, <2>1
    <2>4. /\ Begin(leave) \div 24 = leave.ask.first
          /\ End(leave) \div 24 = leave.ask.last
        BY <1>1, <2>2, <2>3, HourOfDay
    <2>5. FirstDay(leave) = leave.ask.first /\ LastDay(leave) = leave.ask.last
        BY <2>4 DEF FirstDay, LastDay
    <2>6. PICK a \in 0 .. 23, b \in 0 .. 23, o \in 0 .. 23 :
              a = leave.ask.from /\ b = leave.ask.to /\ o = UtcOffset
        BY <1>2
    <2>7. /\ a - o \in 0 .. 23 - o /\ b - o \in 0 .. 23 - o /\ a - o <= b - o
        BY <2>1, <2>6
    <2>8. /\ Begin(leave) = 24 * leave.ask.first + (a - o)
          /\ End(leave) = 24 * leave.ask.first + (b - o)
        BY <2>1, <2>2, <2>6
    <2>9. PICK day \in Int : day = leave.ask.first /\ day = leave.ask.last
        BY <1>1, <2>1
    <2>10. /\ Begin(leave) \in 24 * day .. 24 * day + 23 - o
           /\ End(leave) \in 24 * day .. 24 * day + 23 - o
        BY <2>7, <2>8, <2>9
    <2>11. Begin(leave) - 24 * day <= End(leave) - 24 * day
        BY <2>7, <2>8, <2>9
    <2> QED BY <2>5, <2>6, <2>9, <2>10, <2>11
<1>4. CASE ~IsHourly(leave.ask)
    <2>1. Begin(leave) = 24 * leave.ask.first /\ End(leave) = 24 * leave.ask.last
        BY <1>1, <1>4 DEF Begin, End
    <2>2. /\ Begin(leave) \div 24 = leave.ask.first
          /\ End(leave) \div 24 = leave.ask.last
        BY <1>1, <2>1
    <2> QED BY <1>1, <1>2, <2>1, <2>2 DEF FirstDay, LastDay
<1> QED BY <1>3, <1>4

\* A leave of one half of a day may be filed exactly if the day is counted and no
\* leave holds the half.
LEMMA MayFileOne ==
    ASSUME NEW day \in Days, NEW half \in Halves
    PROVE  MayFile(day, half) <=> day \in Workdays /\ <<day, half>> \notin Taken
<1> DEFINE ask == [first |-> day, last |-> day, startFormat |-> half,
                   endFormat |-> half, from |-> 0, to |-> 0]
           plan == PlanDays(ask, Taken, FALSE)
<1>1. /\ ask \in Ask /\ ~IsHourly(ask) /\ day \in Int
      /\ ask.first = day /\ ask.last = day /\ ask.startFormat = half
    BY PortionAssumption DEF Ask, Portions, Halves, IsHourly
<1> DEFINE hours == Planned(ask, FALSE).hours
<1>2. MayFile(day, half) <=> PlanOk(ask, Taken, FALSE) /\ hours > 0
    BY DEF MayFile
<1> HIDE DEF ask
<1>3. Desired(ask) = {<<day, half>>}
    <2>1. BoundaryHalves(ask, day) = {half}
        BY <1>1 DEF BoundaryHalves, HalvesOf, Halves
    <2>2. \A slot \in Days \X Halves :
             slot \in Desired(ask) <=> slot[1] = day /\ slot[2] \in BoundaryHalves(ask, slot[1])
        <3> SUFFICES ASSUME NEW slot \in Days \X Halves
                     PROVE  slot \in Desired(ask) <=>
                                slot[1] = day /\ slot[2] \in BoundaryHalves(ask, slot[1])
            OBVIOUS
        <3>1. slot[1] \in Int
            BY PortionAssumption
        <3>2. ask.first <= slot[1] /\ slot[1] <= ask.last <=> slot[1] = day
            BY <1>1, <3>1
        <3> QED BY <1>1, <3>2 DEF Desired
    <2>3. Desired(ask) \subseteq Days \X Halves
        BY <1>1 DEF Desired
    <2> QED BY <2>1, <2>2, <2>3
<1>4. hours = HoursPerHalf * Cardinality(Expand(plan))
    BY <1>1, HoursOfPlan DEF Planned, RequestHours
<1>5. Expand(plan) = {slot \in Desired(ask) : FALSE \/ Counted(ask, slot[1])} \ Taken
    BY <1>1, PlanClaimsFree
<1>6. Cardinality({<<day, half>>}) = 1 /\ Cardinality({}) = 0
    BY FS_Singleton, FS_EmptySet, Zenon
<1> HIDE DEF plan, hours
<1>7. CASE day \in Workdays /\ <<day, half>> \notin Taken
    <2>1. Expand(plan) = {<<day, half>>}
        BY <1>1, <1>3, <1>5, <1>7, CountedByDays
    <2>2. hours = 4
        BY <1>4, <1>6, <2>1 DEF HoursPerHalf
    <2>3. PlannedDays(ask, FALSE) \subseteq {day}
        BY <1>3 DEF PlannedDays
    <2>4. half \in FreeHalves(ask, Taken, day)
        BY <1>3, <1>7 DEF FreeHalves
    <2>5. PlanOk(ask, Taken, FALSE)
        BY <2>3, <2>4 DEF PlanOk, Conflicts
    <2>6. hours > 0
        BY <2>2
    <2> QED BY <1>2, <1>7, <2>5, <2>6, Zenon
<1>8. CASE ~(day \in Workdays /\ <<day, half>> \notin Taken)
    <2>1. Expand(plan) = {}
        BY <1>1, <1>3, <1>5, <1>8, CountedByDays
    <2>2. hours = 0
        BY <1>4, <1>6, <2>1 DEF HoursPerHalf
    <2>3. ~(hours > 0)
        BY <2>2
    <2> QED BY <1>2, <1>8, <2>3, Zenon
<1> QED BY <1>7, <1>8

\* Whatever range the request screen asks for, it shows a half as free exactly when
\* a leave for it would be accepted (getDayAvailability against planDayPortions).
THEOREM AvailabilityHolds == OneDayByClock => (Spec => []AvailabilityTruthful)
<1> SUFFICES ASSUME OneDayByClock PROVE Spec => []AvailabilityTruthful
    OBVIOUS
<1>1. AllSound => AvailabilityTruthful
    <2> SUFFICES ASSUME AllSound, NEW range \in Ranges,
                        NEW day \in Days \cap (range[1] .. range[2])
                 PROVE  LET free == {half \in Halves : MayFile(day, half)} IN
                        CASE DayStatus(day, range[1], range[2]) = "available" -> free = Halves
                          [] DayStatus(day, range[1], range[2]) = "partial" ->
                                free = Halves \ TakenHalves(day, range[1], range[2])
                          [] OTHER -> free = {}
        BY DEF AvailabilityTruthful
    <2> DEFINE free == {half \in Halves : MayFile(day, half)}
               taken == TakenHalves(day, range[1], range[2])
    <2>1. range[1] \in Int /\ range[2] \in Int /\ range[1] <= day /\ day <= range[2]
        <3>1. range[1] \in Days /\ range[2] \in Days
            BY DEF Ranges
        <3>2. range[1] \in Int /\ range[2] \in Int
            BY <3>1, PortionAssumption
        <3> QED BY <3>2
    <2>2. taken = {half \in Halves : <<day, half>> \in Taken}
        <3>1. ASSUME NEW leave \in leaves, NEW half \in Halves,
                     <<day, half>> \in Held(leave)
              PROVE  InQuery(leave, range[1], range[2])
            <4>1. Sound(leave)
                BY DEF AllSound
            <4>2. /\ leave.ask.first \in Int /\ leave.ask.last \in Int
                  /\ leave.ask.first <= day /\ day <= leave.ask.last
                BY <3>1, <4>1, SoundHeld
            <4> QED BY <2>1, <4>1, <4>2, SoundDays DEF InQuery
        <3> QED BY <3>1 DEF TakenHalves, Taken
    <2>3. free = IF day \in Workdays THEN Halves \ taken ELSE {}
        BY <2>2, MayFileOne
    <2>4. taken \subseteq Halves
        BY <2>2
    <2>5. CASE day \notin Workdays
        <3>1. DayStatus(day, range[1], range[2]) = "holiday"
            BY <2>5 DEF DayStatus
        <3> QED BY <2>3, <2>5, <3>1
    <2>6. CASE day \in Workdays /\ taken = Halves
        <3>1. Halves # {}
            BY DEF Halves
        <3>2. DayStatus(day, range[1], range[2]) = "full"
            BY <2>6, <3>1 DEF DayStatus
        <3> QED BY <2>3, <2>6, <3>2
    <2>7. CASE day \in Workdays /\ taken # Halves /\ taken = {}
        <3>1. DayStatus(day, range[1], range[2]) = "available"
            BY <2>7 DEF DayStatus
        <3> QED BY <2>3, <2>7, <3>1
    <2>8. CASE day \in Workdays /\ taken # Halves /\ taken # {}
        <3>1. DayStatus(day, range[1], range[2]) = "partial"
            BY <2>8 DEF DayStatus
        <3> QED BY <2>3, <2>8, <3>1
    <2> QED BY <2>5, <2>6, <2>7, <2>8
<1> QED BY <1>1, SoundHolds, PTL

\* The rows of a leave between two days.
Inside(leave, from, to) == {entry \in leave.days : entry.date \in from .. to}

\* Rows of different days: a part costs no more than all, two parts that share no
\* row cost what they cost together.
LEMMA HoursSplit ==
    ASSUME NEW rows \in SUBSET DayPortion, IsFiniteSet(rows),
           \A a, b \in rows : a.date = b.date => a = b
    PROVE  /\ \A part \in SUBSET rows :
                 PlanHours(part) \in Nat /\ PlanHours(part) <= PlanHours(rows)
           /\ \A one, two \in SUBSET rows :
                 one \cap two = {} => PlanHours(one \cup two) = PlanHours(one) + PlanHours(two)
<1>1. ASSUME NEW part \in SUBSET rows
      PROVE  /\ IsFiniteSet(Expand(part)) /\ Cardinality(Expand(part)) \in Nat
             /\ PlanHours(part) = 4 * Cardinality(Expand(part))
    <2>1. part \in SUBSET DayPortion /\ IsFiniteSet(part)
        BY FS_Subset
    <2>2. IsFiniteSet(Expand(part)) /\ PlanHours(part) = 4 * Cardinality(Expand(part))
        BY <2>1, HoursOfRows DEF HoursPerHalf
    <2> QED BY <2>2, FS_CardinalityType
<1>2. ASSUME NEW part \in SUBSET rows
      PROVE  PlanHours(part) \in Nat /\ PlanHours(part) <= PlanHours(rows)
    <2>1. rows \in SUBSET rows /\ Expand(part) \in SUBSET Expand(rows)
        BY DEF Expand
    <2>2. IsFiniteSet(Expand(rows)) /\ Cardinality(Expand(rows)) \in Nat
          /\ PlanHours(rows) = 4 * Cardinality(Expand(rows))
        BY <1>1, <2>1
    <2>3. Cardinality(Expand(part)) <= Cardinality(Expand(rows))
        BY <2>1, <2>2, FS_Subset
    <2>4. /\ Cardinality(Expand(part)) \in Nat
          /\ PlanHours(part) = 4 * Cardinality(Expand(part))
        BY <1>1
    <2> QED BY <2>2, <2>3, <2>4
<1>3. ASSUME NEW one \in SUBSET rows, NEW two \in SUBSET rows, one \cap two = {}
      PROVE  PlanHours(one \cup two) = PlanHours(one) + PlanHours(two)
    <2>1. one \cup two \in SUBSET rows
        OBVIOUS
    <2>2. Expand(one \cup two) = Expand(one) \cup Expand(two)
        BY DEF Expand
    <2>3. Expand(one) \cap Expand(two) = {}
        BY <1>3 DEF Expand
    <2>4. /\ IsFiniteSet(Expand(one)) /\ Cardinality(Expand(one)) \in Nat
          /\ PlanHours(one) = 4 * Cardinality(Expand(one))
        BY <1>1
    <2>5. /\ IsFiniteSet(Expand(two)) /\ Cardinality(Expand(two)) \in Nat
          /\ PlanHours(two) = 4 * Cardinality(Expand(two))
        BY <1>1
    <2>6. PlanHours(one \cup two) = 4 * Cardinality(Expand(one \cup two))
        BY <1>1, <2>1
    <2>7. Cardinality(Expand(one) \cup Expand(two))
            = Cardinality(Expand(one)) + Cardinality(Expand(two))
        BY <2>3, <2>4, <2>5, ApartCount
    <2>8. Cardinality(Expand(one \cup two))
            = Cardinality(Expand(one)) + Cardinality(Expand(two))
        BY <2>2, <2>7
    <2> QED BY <2>4, <2>5, <2>6, <2>8
<1> QED BY <1>2, <1>3

\* A sound leave by days is reported at the hours of its rows in the range.
LEMMA ReportedByDays ==
    ASSUME OneDayByClock, NEW leave, Sound(leave), ~IsHourly(leave.ask),
           NEW from \in Int, NEW to \in Int
    PROVE  Reported(leave, from, to) = PlanHours(Inside(leave, from, to))
<1> DEFINE first == leave.ask.first
           last == leave.ask.last
<1>1. /\ first \in Int /\ last \in Int /\ first <= last
    BY SoundHeld
<1>2. \A entry \in leave.days : entry.date \in first .. last
    BY DEF Sound
<1>3. leave.hours = PlanHours(leave.days) /\ leave.days # {}
    BY DEF Sound
<1>4. CASE ~InQuery(leave, from, to)
    <2>1. Inside(leave, from, to) = {}
        BY <1>1, <1>2, <1>4, SoundDays DEF Inside, InQuery
    <2>2. PlanHours({}) = 0
        <3>1. {entry \in {} : entry.portion = "full"} = {}
            OBVIOUS
        <3> QED BY <3>1, FS_EmptySet DEF PlanHours, HoursPerHalf
    <2> QED BY <1>4, <2>1, <2>2 DEF Reported
<1>5. CASE InQuery(leave, from, to) /\ FullyInside(leave, from, to)
    <2>1. Inside(leave, from, to) = leave.days
        BY <1>1, <1>2, <1>5, SoundDays DEF Inside, FullyInside
    <2> QED BY <1>3, <1>5, <2>1 DEF Reported, HoursWithin
<1>6. CASE InQuery(leave, from, to) /\ ~FullyInside(leave, from, to)
    BY <1>3, <1>6 DEF Reported, HoursWithin, Inside
<1> QED BY <1>4, <1>5, <1>6

\* A sound leave by the clock is reported where its day is.
LEMMA ReportedByClock ==
    ASSUME OneDayByClock, NEW leave, Sound(leave), IsHourly(leave.ask),
           NEW from \in Int, NEW to \in Int
    PROVE  Reported(leave, from, to) =
               IF from <= leave.ask.first /\ leave.ask.first <= to THEN leave.hours ELSE 0
<1>1. leave.ask \in Asks
    BY DEF Sound
<1>2. leave.ask.first = leave.ask.last /\ leave.ask.first \in Int
    BY <1>1, SoundHeld DEF OneDayByClock
<1> QED BY <1>2, SoundDays DEF Reported, HoursWithin, InQuery, FullyInside

\* A row without stored portions is reported like one with them, if nothing of its
\* form was given up.
LEMMA ReportedAsLegacy ==
    ASSUME OneDayByClock, NEW leave, Sound(leave), GotAll(leave),
           NEW from \in Int, NEW to \in Int
    PROVE  Reported(AsLegacy(leave), from, to) = Reported(leave, from, to)
<1> DEFINE old == AsLegacy(leave)
<1> SUFFICES Reported(old, from, to) = Reported(leave, from, to)
    OBVIOUS
<1>1. /\ old.ask = leave.ask /\ old.hours = leave.hours /\ old.days = {}
      /\ leave.hours \in Nat
      /\ FirstDay(old) = FirstDay(leave) /\ LastDay(old) = LastDay(leave)
    BY DEF AsLegacy, Sound, FirstDay, LastDay, Begin, End
<1>2. leave.ask.first \in Int /\ leave.ask.last \in Int
    BY SoundHeld
<1> HIDE DEF old
<1>3. CASE ~InQuery(leave, from, to) \/ FullyInside(leave, from, to)
    BY <1>1, <1>3 DEF Reported, HoursWithin, InQuery, FullyInside
<1>4. CASE InQuery(leave, from, to) /\ ~FullyInside(leave, from, to)
    <2>1. ~IsHourly(leave.ask)
        <3>1. IsHourly(leave.ask) => leave.ask.first = leave.ask.last
            BY DEF Sound, OneDayByClock
        <3> QED BY <1>2, <1>4, <3>1, SoundDays DEF InQuery, FullyInside
    <2> DEFINE asked == {slot \in Desired(leave.ask) : slot[1] \in Weekdays \cap (from .. to)}
               part == Inside(leave, from, to)
    <2>2. Reported(old, from, to) = Min({leave.hours, 4 * Cardinality(asked)})
        BY <1>1, <1>4 DEF Reported, HoursWithin, LegacyHours, InQuery, FullyInside, HoursPerHalf
    <2>3. Reported(leave, from, to) = PlanHours(part)
        BY <2>1, ReportedByDays
    <2>4. asked = Expand(part)
        <3>1. Expand(leave.days) = {slot \in Desired(leave.ask) : slot[1] \in Weekdays}
            BY SoundHeld DEF GotAll
        <3>2. asked = {slot \in Expand(leave.days) : slot[1] \in from .. to}
            BY <3>1
        <3>3. Expand(part) = {slot \in Expand(leave.days) : slot[1] \in from .. to}
            BY DEF Expand, Inside
        <3> QED BY <3>2, <3>3
    <2>5. /\ part \in SUBSET leave.days
          /\ leave.days \in SUBSET DayPortion /\ IsFiniteSet(leave.days)
          /\ \A a, b \in leave.days : a.date = b.date => a = b
          /\ leave.hours = PlanHours(leave.days)
        BY <2>1 DEF Sound, Inside
    <2> HIDE DEF asked, part
    <2>6. PlanHours(part) = 4 * Cardinality(Expand(part))
        <3>1. part \in SUBSET DayPortion /\ IsFiniteSet(part)
              /\ \A a, b \in part : a.date = b.date => a = b
            BY <2>5, FS_Subset
        <3> QED BY <3>1, HoursOfRows DEF HoursPerHalf
    <2>7. PlanHours(part) \in Nat /\ PlanHours(part) <= leave.hours
        BY <2>5, HoursSplit
    <2>8. Min({leave.hours, PlanHours(part)}) = PlanHours(part)
        BY <1>1, <2>7 DEF Min
    <2> QED BY <2>2, <2>3, <2>4, <2>6, <2>8
<1> QED BY <1>3, <1>4

\* HR's summary counts a leave that straddles the end of a period once, never above
\* what it was charged, and rows from before the stored portions alike
\* (daysWithinRange of getLeaveSummary).
THEOREM RangesAddUpHolds == OneDayByClock => (Spec => []RangesAddUp)
<1> SUFFICES ASSUME OneDayByClock PROVE Spec => []RangesAddUp
    OBVIOUS
<1>1. AllSound => RangesAddUp
    <2> SUFFICES ASSUME AllSound, NEW leave \in leaves, NEW range \in Ranges, NEW cut \in Days
                 PROVE  /\ range[1] <= cut /\ cut < range[2] =>
                              Reported(leave, range[1], range[2])
                                = Reported(leave, range[1], cut)
                                    + Reported(leave, cut + 1, range[2])
                        /\ Reported(leave, range[1], range[2]) <= leave.hours
                        /\ GotAll(leave) => Reported(AsLegacy(leave), range[1], range[2])
                                              = Reported(leave, range[1], range[2])
        BY DEF RangesAddUp
    <2>1. Sound(leave)
        BY DEF AllSound
    <2>2. range[1] \in Int /\ range[2] \in Int /\ cut \in Int /\ cut + 1 \in Int
        <3>1. range[1] \in Days /\ range[2] \in Days
            BY DEF Ranges
        <3>2. range[1] \in Int /\ range[2] \in Int /\ cut \in Int
            BY <3>1, PortionAssumption
        <3> QED BY <3>2
    <2>3. PICK from, to : from = range[1] /\ to = range[2]
        OBVIOUS
    <2>4. GotAll(leave) => Reported(AsLegacy(leave), from, to) = Reported(leave, from, to)
        BY <2>1, <2>2, <2>3, ReportedAsLegacy
    <2>5. leave.hours \in Nat
        BY <2>1 DEF Sound
    <2>6. CASE IsHourly(leave.ask)
        <3>1. leave.ask.first \in Int
            BY <2>1, SoundHeld
        <3>2. /\ Reported(leave, from, to) =
                     IF from <= leave.ask.first /\ leave.ask.first <= to
                     THEN leave.hours ELSE 0
              /\ Reported(leave, from, cut) =
                     IF from <= leave.ask.first /\ leave.ask.first <= cut
                     THEN leave.hours ELSE 0
              /\ Reported(leave, cut + 1, to) =
                     IF cut + 1 <= leave.ask.first /\ leave.ask.first <= to
                     THEN leave.hours ELSE 0
            BY <2>1, <2>2, <2>3, <2>6, ReportedByClock
        <3> QED BY <2>2, <2>3, <2>4, <2>5, <3>1, <3>2
    <2>7. CASE ~IsHourly(leave.ask)
        <3> DEFINE all == Inside(leave, from, to)
                   one == Inside(leave, from, cut)
                   two == Inside(leave, cut + 1, to)
        <3>1. /\ Reported(leave, from, to) = PlanHours(all)
              /\ Reported(leave, from, cut) = PlanHours(one)
              /\ Reported(leave, cut + 1, to) = PlanHours(two)
            BY <2>1, <2>2, <2>3, <2>7, ReportedByDays
        <3>2. /\ leave.days \in SUBSET DayPortion /\ IsFiniteSet(leave.days)
              /\ \A a, b \in leave.days : a.date = b.date => a = b
              /\ leave.hours = PlanHours(leave.days)
            BY <2>1, <2>7 DEF Sound
        <3>3. all \in SUBSET leave.days /\ one \in SUBSET leave.days /\ two \in SUBSET leave.days
            BY DEF Inside
        <3>4. one \cap two = {}
            BY <2>2, <2>3, <3>2 DEF Inside, DayPortion
        <3>5. from <= cut /\ cut < to => all = one \cup two
            BY <2>2, <2>3, <3>2 DEF Inside, DayPortion
        <3> HIDE DEF all, one, two
        <3>6. PlanHours(all) <= leave.hours
              /\ PlanHours(one \cup two) = PlanHours(one) + PlanHours(two)
            BY <3>2, <3>3, <3>4, HoursSplit
        <3>7. from <= cut /\ cut < to => PlanHours(all) = PlanHours(one) + PlanHours(two)
            BY <3>5, <3>6
        <3> QED BY <2>3, <2>4, <3>1, <3>6, <3>7
    <2> QED BY <2>6, <2>7
<1> QED BY <1>1, SoundHolds, PTL

-----------------------------------------------------------------------------
\* The days of the model have no gap.
NoGap == \E a, b \in Int : Days = a .. b

\* A day lasts, where the server stands, from its midnight to the next.
LEMMA LocalDayIs ==
    ASSUME NEW instant \in Int, NEW day \in Int
    PROVE  LocalDay(instant) = day <=>
               Midnight(day) <= instant /\ instant < Midnight(day + 1)
<1>1. UtcOffset \in 0 .. 23
    BY PortionAssumption
<1>2. PICK local \in Int : local = instant + UtcOffset
    BY <1>1
<1>3. local \div 24 = day <=> 24 * day <= local /\ local < 24 * (day + 1)
    OBVIOUS
<1> QED BY <1>1, <1>2, <1>3 DEF LocalDay, Midnight

\* The days of the trend's loop over a leave that touches the month.
LEMMA TrendWalks ==
    ASSUME NoGap, NEW from \in Days, NEW to \in Days, NEW day \in Days,
           from <= day, day <= to,
           NEW leave, NEW first \in Int, NEW last \in Int,
           Begin(leave) \in Int, End(leave) \in Int,
           Midnight(first) <= Begin(leave), Begin(leave) < Midnight(first + 1),
           Midnight(last) <= End(leave), End(leave) < Midnight(last + 1),
           Begin(leave) - 24 * first <= End(leave) - 24 * last
    PROVE  /\ day \in TrendDays(leave, from, to) => first <= day /\ day <= last
           /\ first <= day /\ day <= last /\ day < to => day \in TrendDays(leave, from, to)
<1> DEFINE start == Max({Begin(leave), Midnight(from)})
           stop == Min({End(leave), Midnight(to)})
<1>1. from \in Int /\ to \in Int /\ day \in Int /\ UtcOffset \in 0 .. 23
    BY PortionAssumption
<1>2. \A x \in Int : Midnight(x) = 24 * x - UtcOffset /\ Midnight(x) \in Int
    BY <1>1 DEF Midnight
<1>3. start = IF Begin(leave) <= Midnight(from) THEN Midnight(from) ELSE Begin(leave)
    <2>1. \A x, y \in Int : Max({x, y}) = IF x <= y THEN y ELSE x
        BY DEF Max
    <2> QED BY <1>1, <1>2, <2>1
<1>4. stop = IF End(leave) <= Midnight(to) THEN End(leave) ELSE Midnight(to)
    <2>1. \A x, y \in Int : Min({x, y}) = IF x <= y THEN x ELSE y
        BY DEF Min
    <2> QED BY <1>1, <1>2, <2>1
<1>5. start \in Int /\ stop \in Int
    BY <1>1, <1>2, <1>3, <1>4
<1>6. Cardinality(Days) \in Nat /\ day - from \in 0 .. Cardinality(Days)
    <2>1. PICK a \in Int, b \in Int : Days = a .. b
        BY DEF NoGap
    <2>2. Cardinality(a .. b) = IF a > b THEN 0 ELSE b - a + 1
        BY FS_Interval
    <2>3. Cardinality(Days) \in Nat
        BY PortionAssumption, FS_CardinalityType
    <2> QED BY <1>1, <2>1, <2>2, <2>3
<1>7. day \in TrendDays(leave, from, to) <=>
          \E n \in 0 .. Cardinality(Days) :
              start + 24 * n <= stop /\ day = LocalDay(start + 24 * n)
    BY DEF TrendDays
<1> HIDE DEF start, stop
<1>8. ASSUME NEW n \in 0 .. Cardinality(Days), start + 24 * n <= stop,
             day = LocalDay(start + 24 * n)
      PROVE  first <= day /\ day <= last
    <2>1. PICK instant \in Int : instant = start + 24 * n
        BY <1>5, <1>6
    <2>2. Midnight(day) <= instant /\ instant < Midnight(day + 1)
        BY <1>1, <1>8, <2>1, LocalDayIs
    <2>3. start <= instant
        BY <1>5, <1>6, <2>1
    <2>4. Begin(leave) <= instant /\ instant <= End(leave)
        BY <1>1, <1>2, <1>3, <1>4, <1>5, <1>8, <2>1, <2>3
    <2> QED BY <1>1, <1>2, <2>2, <2>4
<1>9. ASSUME first <= day, day <= last, day < to
      PROVE  \E n \in 0 .. Cardinality(Days) :
                 start + 24 * n <= stop /\ day = LocalDay(start + 24 * n)
    <2> DEFINE begin == IF first <= from THEN from ELSE first
    <2>1. begin \in Int /\ begin <= day /\ from <= begin
        BY <1>1, <1>9
    <2>2. Midnight(begin) <= start /\ start < Midnight(begin + 1)
        BY <1>1, <1>2, <1>3
    <2>3. start + 24 * (day - begin) <= End(leave)
        BY <1>1, <1>2, <1>3, <1>9
    <2> HIDE DEF begin
    <2>4. day - begin \in 0 .. Cardinality(Days)
        BY <1>1, <1>6, <2>1
    <2>5. PICK instant \in Int : instant = start + 24 * (day - begin)
        BY <1>1, <1>5, <2>1
    <2>6. Midnight(day) <= instant /\ instant < Midnight(day + 1)
        BY <1>1, <1>2, <1>5, <2>1, <2>2, <2>5
    <2>7. day = LocalDay(instant)
        BY <1>1, <2>6, LocalDayIs
    <2>8. instant <= Midnight(to)
        BY <1>1, <1>2, <1>9, <2>6
    <2>9. instant <= stop
        BY <1>1, <1>2, <1>4, <2>3, <2>5, <2>8
    <2> QED BY <2>4, <2>5, <2>7, <2>9
<1> QED BY <1>7, <1>8, <1>9

\* Wherever the server stands, the dashboards tell of the same people: the head's count
\* of a day misses nobody, the CEO's counts nobody beside and misses only who begins
\* that day, and the month's trend is exact but on its last day (leavesToday and the
\* monthly trend of ceo.service.ts and manager.service.ts).
THEOREM CountsAgreeHolds == NoGap /\ OneDayByClock => (Spec => []CountsAgree)
<1> SUFFICES ASSUME NoGap, OneDayByClock PROVE Spec => []CountsAgree
    OBVIOUS
<1>1. AllSound => CountsAgree
    <2> SUFFICES ASSUME AllSound, NEW range \in Ranges,
                        NEW day \in Days \cap (range[1] .. range[2])
                 PROVE  /\ Away(day) \subseteq HeadToday(day)
                        /\ \A leave \in HeadToday(day) \ Away(day) :
                              Begin(leave) = Midnight(day + 1)
                        /\ CeoToday(day) \subseteq Away(day)
                        /\ \A leave \in Away(day) \ CeoToday(day) : leave.ask.first = day
                        /\ Trend(day, range[1], range[2]) \subseteq Away(day)
                        /\ day < range[2] => Away(day) \subseteq Trend(day, range[1], range[2])
        BY DEF CountsAgree
    <2>1. PICK from, to : from = range[1] /\ to = range[2]
        OBVIOUS
    <2>2. from \in Days /\ to \in Days /\ from <= day /\ day <= to
        BY <2>1, PortionAssumption DEF Ranges
    <2>3. from \in Int /\ to \in Int /\ day \in Int
        BY <2>2, PortionAssumption
    <2>4. \A x \in Int : Midnight(x) = 24 * x - UtcOffset /\ UtcOffset \in 0 .. 23
        BY PortionAssumption DEF Midnight
    <2>5. ASSUME NEW leave \in leaves
          PROVE  /\ leave \in Away(day) => leave \in HeadToday(day)
                 /\ leave \in HeadToday(day) /\ leave \notin Away(day) =>
                        Begin(leave) = Midnight(day + 1)
                 /\ leave \in CeoToday(day) => leave \in Away(day)
                 /\ leave \in Away(day) /\ leave \notin CeoToday(day) => leave.ask.first = day
                 /\ leave \in Trend(day, from, to) => leave \in Away(day)
                 /\ day < to /\ leave \in Away(day) => leave \in Trend(day, from, to)
        <3>1. Sound(leave)
            BY DEF AllSound
        <3>2. PICK first, last : first = leave.ask.first /\ last = leave.ask.last
            OBVIOUS
        <3>3. first \in Int /\ last \in Int /\ first <= last
            BY <3>1, <3>2, SoundHeld
        <3>4. PICK begin, end : begin = Begin(leave) /\ end = End(leave)
            OBVIOUS
        <3>5. /\ begin \in Int /\ end \in Int
              /\ Midnight(first) <= begin /\ begin < Midnight(first + 1)
              /\ Midnight(last) <= end /\ end < Midnight(last + 1)
              /\ begin - 24 * first <= end - 24 * last
            <4>1. /\ begin \in 24 * first .. 24 * first + 23 - UtcOffset
                  /\ end \in 24 * last .. 24 * last + 23 - UtcOffset
                  /\ begin - 24 * first <= end - 24 * last
                BY <3>1, <3>2, <3>4, SoundDays
            <4> QED BY <2>4, <3>3, <4>1
        <3>6. leave \in Away(day) <=> first <= day /\ day <= last
            BY <3>2 DEF Away
        <3>7. leave \in CeoToday(day) <=> begin <= Midnight(day) /\ Midnight(day) <= end
            BY <3>4 DEF CeoToday
        <3>8. leave \in HeadToday(day) <=> begin <= Midnight(day + 1) /\ Midnight(day) <= end
            BY <3>4 DEF HeadToday
        <3>9. leave \in Trend(day, from, to) <=>
                  /\ begin <= Midnight(to) /\ Midnight(from) <= end
                  /\ day \in TrendDays(leave, from, to)
            BY <3>4 DEF Trend, InMonth
        <3>10. /\ day \in TrendDays(leave, from, to) => first <= day /\ day <= last
               /\ first <= day /\ day <= last /\ day < to =>
                      day \in TrendDays(leave, from, to)
            BY <2>2, <3>3, <3>4, <3>5, TrendWalks
        <3>11. first <= day /\ day <= last => begin <= Midnight(day + 1) /\ Midnight(day) <= end
            BY <2>3, <2>4, <3>3, <3>5
        <3>12. begin <= Midnight(day + 1) /\ Midnight(day) <= end /\ ~(first <= day /\ day <= last)
                   => begin = Midnight(day + 1)
            <4>1. /\ Midnight(day) = 24 * day - UtcOffset
                  /\ Midnight(day + 1) = 24 * (day + 1) - UtcOffset
                  /\ Midnight(first) = 24 * first - UtcOffset
                  /\ Midnight(last + 1) = 24 * (last + 1) - UtcOffset
                  /\ UtcOffset \in Int
                BY <2>3, <2>4, <3>3
            <4> QED BY <2>3, <3>3, <3>5, <4>1
        <3>13. begin <= Midnight(day) /\ Midnight(day) <= end => first <= day /\ day <= last
            BY <2>3, <2>4, <3>3, <3>5
        <3>14. first <= day /\ day <= last /\ ~(begin <= Midnight(day) /\ Midnight(day) <= end)
                   => first = day
            BY <2>3, <2>4, <3>3, <3>5
        <3>15. first <= day /\ day <= last /\ day < to
                   => begin <= Midnight(to) /\ Midnight(from) <= end
            BY <2>2, <2>3, <2>4, <3>3, <3>5
        <3> QED BY <3>2, <3>4, <3>6, <3>7, <3>8, <3>9, <3>10, <3>11, <3>12, <3>13, <3>14, <3>15,
                   Zenon
    <2>6. /\ CeoToday(day) \subseteq leaves /\ HeadToday(day) \subseteq leaves
          /\ Trend(day, from, to) \subseteq leaves /\ Away(day) \subseteq leaves
        BY DEF CeoToday, HeadToday, Trend, Away
    <2> QED BY <2>1, <2>5, <2>6
<1> QED BY <1>1, SoundHolds, PTL
=============================================================================
