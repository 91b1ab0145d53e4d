------------------------ MODULE LeavePortionProofs ------------------------
(***************************************************************************)
(* What the day-portion planner returns, for every calendar, form and set  *)
(* of occupied slots.                                                      *)
(***************************************************************************)
EXTENDS LeavePortion, FiniteSetTheorems, TLAPS

\* The portion of a non-empty set of free halves stands for exactly that set
\* (planDayPortions: full when both halves are free, else the free one).
LEMMA PortionOfFree ==
    ASSUME NEW free \in SUBSET Halves, free # {}
    PROVE  PortionOf(free) \in Portions /\ HalvesOf(PortionOf(free)) = free
<1>1. CASE free = Halves
    BY <1>1 DEF PortionOf, HalvesOf, Portions, Halves
<1>2. CASE free # Halves
    <2>1. PICK half \in Halves : free = {half}
        BY <1>2 DEF Halves
    <2>2. PortionOf(free) = half
        BY <1>2, <2>1 DEF PortionOf
    <2> QED BY <2>1, <2>2 DEF HalvesOf, Portions, Halves
<1> QED BY <1>1, <1>2

\* The day of a request by the clock is a day.
LEMMA UtcDayIsInt == ASSUME NEW ask \in Ask PROVE UtcDay(ask) \in Int
<1>1. ask.first \in Int
    <2>1. ask.first \in Days
        BY DEF Ask
    <2> QED BY <2>1, PortionAssumption
<1>2. ask.from \in Int
    BY DEF Ask
<1>3. UtcOffset \in Int
    BY PortionAssumption
<1> QED BY <1>1, <1>2, <1>3 DEF UtcDay

\* A request asks for halves of days.
LEMMA DesiredType == ASSUME NEW ask \in Ask PROVE Desired(ask) \subseteq Int \X Halves
<1>1. ClockHalves(ask) \subseteq Halves
    BY DEF ClockHalves, Halves
<1> QED BY <1>1, UtcDayIsInt, PortionAssumption DEF Desired

\* A request asks for slots of finitely many days.
LEMMA DesiredFinite ==
    ASSUME NEW ask \in Ask
    PROVE  \E D \in SUBSET Int : IsFiniteSet(D) /\ Desired(ask) \subseteq D \X Halves
<1>1. Days \cup {UtcDay(ask)} \in SUBSET Int
    BY UtcDayIsInt, PortionAssumption
<1>2. IsFiniteSet(Days \cup {UtcDay(ask)})
    BY PortionAssumption, FS_AddElement
<1>3. Desired(ask) \subseteq (Days \cup {UtcDay(ask)}) \X Halves
    BY DesiredType DEF Desired
<1> QED BY <1>1, <1>2, <1>3

\* The planner's free halves of a day it does not refuse are the day's portion.
LEMMA FreeOfPlanned ==
    ASSUME NEW ask, NEW occupied, NEW everyDay,
           NEW day \in PlannedDays(ask, everyDay) \ Conflicts(ask, occupied, everyDay)
    PROVE  LET free == FreeHalves(ask, occupied, day)
           IN  /\ free # {} /\ free \in SUBSET Halves
               /\ PortionOf(free) \in Portions /\ HalvesOf(PortionOf(free)) = free
<1>1. FreeHalves(ask, occupied, day) # {}
    BY DEF Conflicts
<1>2. FreeHalves(ask, occupied, day) \in SUBSET Halves
    BY DEF FreeHalves
<1> QED BY <1>1, <1>2, PortionOfFree

-----------------------------------------------------------------------------
\* A plan is a set of leaverequestday rows (planDayPortions' entries).
THEOREM PlanType ==
    ASSUME NEW ask \in Ask, NEW occupied, NEW everyDay
    PROVE  PlanDays(ask, occupied, everyDay) \in SUBSET DayPortion
<1>1. PlannedDays(ask, everyDay) \subseteq Int
    BY DesiredType DEF PlannedDays
<1> QED BY <1>1, FreeOfPlanned DEF PlanDays, DayPortion

\* What a plan claims is exactly the wanted slots of counted days that no other
\* leave holds: nothing that is taken, and nothing that was not asked for
\* (planDayPortions against its own doc: degrade to the half that is free).
THEOREM PlanClaimsFree ==
    ASSUME NEW ask \in Ask, NEW occupied, NEW everyDay
    PROVE  Expand(PlanDays(ask, occupied, everyDay)) =
               {slot \in Desired(ask) : everyDay \/ Counted(ask, slot[1])} \ occupied
<1> DEFINE planned == PlannedDays(ask, everyDay) \ Conflicts(ask, occupied, everyDay)
           free(day) == FreeHalves(ask, occupied, day)
           counted == {slot \in Desired(ask) : everyDay \/ Counted(ask, slot[1])}
<1>1. ASSUME NEW slot
      PROVE  slot \in Expand(PlanDays(ask, occupied, everyDay)) <=>
                 \E day \in planned : slot \in {day} \X free(day)
    <2>1. slot \in Expand(PlanDays(ask, occupied, everyDay)) <=>
             \E entry \in PlanDays(ask, occupied, everyDay) :
                 slot \in {entry.date} \X HalvesOf(entry.portion)
        BY DEF Expand
    <2>2. \A day \in planned : HalvesOf(PortionOf(free(day))) = free(day)
        BY FreeOfPlanned
    <2> DEFINE row(day) == [date |-> day, portion |-> PortionOf(free(day))]
    <2>3. \A day \in planned : /\ row(day) \in PlanDays(ask, occupied, everyDay)
                               /\ row(day).date = day
                               /\ HalvesOf(row(day).portion) = free(day)
        BY <2>2 DEF PlanDays
    <2>4. \A entry \in PlanDays(ask, occupied, everyDay) :
             \E day \in planned : entry = row(day)
        BY DEF PlanDays
    <2> HIDE DEF row, free, planned
    <2> QED BY <2>1, <2>3, <2>4
<1>2. ASSUME NEW slot \in counted \ occupied
      PROVE  slot[1] \in planned /\ slot \in {slot[1]} \X free(slot[1])
    <2>1. slot \in Desired(ask) /\ slot \notin occupied /\ slot = <<slot[1], slot[2]>>
          /\ slot[2] \in Halves
        BY <1>2, DesiredType
    <2>2. slot[2] \in free(slot[1])
        BY <2>1 DEF FreeHalves
    <2>3. slot[1] \in PlannedDays(ask, everyDay)
        BY <2>1, <1>2 DEF PlannedDays
    <2> QED BY <2>1, <2>2, <2>3 DEF Conflicts
<1>3. ASSUME NEW day \in planned, NEW half \in free(day)
      PROVE  <<day, half>> \in counted \ occupied
    BY <1>3 DEF FreeHalves, PlannedDays
<1> QED BY <1>1, <1>2, <1>3

\* A plan has one row per day and finitely many of them.
LEMMA PlanRows ==
    ASSUME NEW ask \in Ask, NEW occupied, NEW everyDay
    PROVE  LET plan == PlanDays(ask, occupied, everyDay)
           IN  IsFiniteSet(plan) /\ \A a, b \in plan : a.date = b.date => a = b
<1> DEFINE plan == PlanDays(ask, occupied, everyDay)
<1>1. PICK D \in SUBSET Int : IsFiniteSet(D) /\ Desired(ask) \subseteq D \X Halves
    BY DesiredFinite
<1>2. \A a, b \in plan : a.date = b.date => a = b
    BY DEF PlanDays
<1>3. IsFiniteSet(plan)
    <2> DEFINE dateOf == [entry \in plan |-> entry.date]
    <2>1. dateOf \in [plan -> D]
        BY <1>1 DEF PlanDays, PlannedDays
    <2>2. \A a, b \in plan : dateOf[a] = dateOf[b] => a = b
        BY <1>2
    <2>3. dateOf \in Injection(plan, D)
        BY <2>1, <2>2 DEF Injection, IsInjective
    <2> QED BY <1>1, <2>3, FS_Injection
<1> QED BY <1>2, <1>3

\* Rows of different days hold as many slots of one half as they are.
LEMMA HalfOfRows ==
    ASSUME NEW rows, IsFiniteSet(rows), \A a, b \in rows : a.date = b.date => a = b,
           NEW half, NEW slots,
           \A slot : slot \in slots <=> \E entry \in rows : slot = <<entry.date, half>>
    PROVE  IsFiniteSet(slots) /\ Cardinality(slots) = Cardinality(rows)
<1> DEFINE slotOf == [entry \in rows |-> <<entry.date, half>>]
<1>1. slotOf \in [rows -> slots]
    OBVIOUS
<1>2. \A a, b \in rows : slotOf[a] = slotOf[b] => a = b
    OBVIOUS
<1>3. \A slot \in slots : \E entry \in rows : slotOf[entry] = slot
    OBVIOUS
<1>4. slotOf \in Bijection(rows, slots)
    BY <1>1, <1>2, <1>3 DEF Bijection, Injection, Surjection, IsInjective
<1>5. ExistsBijection(rows, slots)
    BY <1>4 DEF ExistsBijection
<1> QED BY <1>5, FS_Bijection

\* Sizes of two sets, what they share and what they make up.
LEMMA UnionCount ==
    ASSUME NEW A, IsFiniteSet(A), NEW B, IsFiniteSet(B)
    PROVE  /\ IsFiniteSet(A \cup B)
           /\ Cardinality(A) \in Nat /\ Cardinality(B) \in Nat
           /\ Cardinality(A \cup B) \in Nat /\ Cardinality(A \cap B) \in Nat
           /\ Cardinality(A \cup B) + Cardinality(A \cap B) = Cardinality(A) + Cardinality(B)
<1>1. IsFiniteSet(A \cup B) /\ IsFiniteSet(A \cap B)
    BY FS_Union, FS_Intersection
<1>2. Cardinality(A \cup B) = Cardinality(A) + Cardinality(B) - Cardinality(A \cap B)
    BY FS_Union
<1>3. /\ Cardinality(A) \in Nat /\ Cardinality(B) \in Nat
      /\ Cardinality(A \cup B) \in Nat /\ Cardinality(A \cap B) \in Nat
    BY <1>1, FS_CardinalityType
<1> QED BY <1>1, <1>2, <1>3

\* Two sets that share nothing.
LEMMA ApartCount ==
    ASSUME NEW A, IsFiniteSet(A), NEW B, IsFiniteSet(B), A \cap B = {}
    PROVE  /\ IsFiniteSet(A \cup B)
           /\ Cardinality(A) \in Nat /\ Cardinality(B) \in Nat
           /\ Cardinality(A \cup B) = Cardinality(A) + Cardinality(B)
<1>1. Cardinality(A \cap B) = 0
    BY FS_EmptySet
<1>2. Cardinality(A \cup B) + Cardinality(A \cap B) = Cardinality(A) + Cardinality(B)
    BY UnionCount
<1>3. /\ IsFiniteSet(A \cup B) /\ Cardinality(A \cup B) \in Nat
      /\ Cardinality(A) \in Nat /\ Cardinality(B) \in Nat
    BY UnionCount
<1> QED BY <1>1, <1>2, <1>3

\* Day rows of different days count half a day for every slot they hold
\* (planDayPortions adds 1 or 0.5 per entry).
THEOREM HoursOfRows ==
    ASSUME NEW rows \in SUBSET DayPortion, IsFiniteSet(rows),
           \A a, b \in rows : a.date = b.date => a = b
    PROVE  /\ IsFiniteSet(Expand(rows))
           /\ PlanHours(rows) = HoursPerHalf * Cardinality(Expand(rows))
<1> DEFINE early == {entry \in rows : "morning" \in HalvesOf(entry.portion)}
           late == {entry \in rows : "afternoon" \in HalvesOf(entry.portion)}
           earlySlots == {<<entry.date, "morning">> : entry \in early}
           lateSlots == {<<entry.date, "afternoon">> : entry \in late}
           full == {entry \in rows : entry.portion = "full"}
<1>1. IsFiniteSet(early) /\ IsFiniteSet(late) /\ IsFiniteSet(full)
    BY FS_Subset
<1>2. IsFiniteSet(earlySlots) /\ Cardinality(earlySlots) = Cardinality(early)
    <2>1. \A a, b \in early : a.date = b.date => a = b
        OBVIOUS
    <2>2. \A slot : slot \in earlySlots <=> \E entry \in early : slot = <<entry.date, "morning">>
        OBVIOUS
    <2> HIDE DEF early, earlySlots
    <2> QED BY <1>1, <2>1, <2>2, HalfOfRows
<1>3. IsFiniteSet(lateSlots) /\ Cardinality(lateSlots) = Cardinality(late)
    <2>1. \A a, b \in late : a.date = b.date => a = b
        OBVIOUS
    <2>2. \A slot : slot \in lateSlots <=> \E entry \in late : slot = <<entry.date, "afternoon">>
        OBVIOUS
    <2> HIDE DEF late, lateSlots
    <2> QED BY <1>1, <2>1, <2>2, HalfOfRows
<1>4. Expand(rows) = earlySlots \cup lateSlots
    <2>1. \A entry \in rows : HalvesOf(entry.portion) \subseteq {"morning", "afternoon"}
        BY DEF DayPortion, Portions, HalvesOf, Halves
    <2> QED BY <2>1 DEF Expand
<1>5. earlySlots \cap lateSlots = {}
    OBVIOUS
<1>6. early \cup late = rows /\ early \cap late = full /\ rows \cap full = full
    BY DEF DayPortion, Portions, HalvesOf, Halves
<1>7. PlanHours(rows) = 2 * 4 * Cardinality(full) + 4 * Cardinality(rows \ full)
    BY DEF PlanHours, HoursPerHalf
<1> HIDE DEF early, late, earlySlots, lateSlots, full
<1>8. /\ IsFiniteSet(Expand(rows))
      /\ Cardinality(Expand(rows)) = Cardinality(early) + Cardinality(late)
    <2>1. LET both == earlySlots \cup lateSlots
          IN  /\ IsFiniteSet(both)
              /\ Cardinality(both) = Cardinality(earlySlots) + Cardinality(lateSlots)
        BY <1>2, <1>3, <1>5, ApartCount
    <2> QED BY <1>2, <1>3, <1>4, <2>1
<1>9. /\ Cardinality(rows) + Cardinality(full) = Cardinality(early) + Cardinality(late)
      /\ Cardinality(rows) \in Nat /\ Cardinality(full) \in Nat
      /\ Cardinality(early) \in Nat /\ Cardinality(late) \in Nat
    BY <1>1, <1>6, UnionCount
<1>10. Cardinality(rows \ full) = Cardinality(rows) - Cardinality(full)
    <2>1. Cardinality(rows \ full) = Cardinality(rows) - Cardinality(rows \cap full)
        BY FS_Difference
    <2> QED BY <1>6, <2>1
<1> QED BY <1>7, <1>8, <1>9, <1>10 DEF HoursPerHalf

\* The hours of a plan are a natural number: its days are finitely many.
THEOREM PlanHoursType ==
    ASSUME NEW ask \in Ask, NEW occupied, NEW everyDay
    PROVE  PlanHours(PlanDays(ask, occupied, everyDay)) \in Nat
<1>1. IsFiniteSet(PlanDays(ask, occupied, everyDay))
    BY PlanRows
<1>2. \A sub \in SUBSET PlanDays(ask, occupied, everyDay) : Cardinality(sub) \in Nat
    BY <1>1, FS_Subset, FS_CardinalityType
<1> QED BY <1>2 DEF PlanHours, HoursPerHalf
=============================================================================
