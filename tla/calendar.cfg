SPECIFICATION Spec
CONSTANTS
    Days = {1, 2, 3, 4, 5, 6}
    Weekdays = {1, 2, 5, 6}
    Workdays = {1, 2, 5}
    UtcOffset = 7
    Asks <- AllForms
    MaxLeaves = 3
INVARIANT NoHalfTwice
INVARIANT PlanIsExact
INVARIANT ClockSlotsHeld
INVARIANT NoDayOverfull
INVARIANT AvailabilityTruthful
INVARIANT RangesAddUp
INVARIANT CountsAgree
