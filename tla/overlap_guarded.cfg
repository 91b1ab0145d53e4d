SPECIFICATION Spec
CONSTANTS
    emp = emp
    head = head
    hr1 = hr1
    hr2 = hr2
    boss = boss
    annual = annual
    special = special
    Workers = {w1, w2}
    Requests = {r1, r2}
    Users = {emp, hr1, hr2}
    RoleOf <- MCRoleOf
    DeptOf <- OneDept
    Leaders = {hr2}
    LeaveTypes = {annual}
    SpecialTypes = {}
    Notice <- NoNotice
    PaidCap <- AllPaid
    WholeCalendar = {}
    YearOf <- OneYear
    Asks <- DayOrMorning
    Quota <- TwoDayQuota
    Ops = {"create", "edit", "cancel", "view", "hr", "manager", "ceo"}
    Exclusive = {"edit", "hr"}
    Extras <- MayCancel
    MaxLog = 3
    Days = {1, 2}
    Weekdays = {1, 2}
    Workdays = {1, 2}
    UtcOffset = 0
    None = None
SYMMETRY WorkerSymmetry
INVARIANT NoDoubleBooking
INVARIANT LockDiscipline
PROPERTY VerifiedIsFrozen
PROPERTY DecisionsStand
PROPERTY CancelledBeforeStart
CHECK_DEADLOCK FALSE
