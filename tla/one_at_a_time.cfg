SPECIFICATION Spec
CONSTANTS
    emp = emp
    head = head
    hr1 = hr1
    hr2 = hr2
    boss = boss
    annual = annual
    special = special
    Workers = {w1}
    Requests = {r1, r2}
    Users = {emp, head, hr1, boss}
    RoleOf <- MCRoleOf
    DeptOf <- MCDeptOf
    Leaders = {}
    LeaveTypes = {annual, special}
    SpecialTypes = {special}
    Notice <- NoNotice
    PaidCap <- CapOneDay
    WholeCalendar = {}
    YearOf <- OneYear
    Asks <- Spread
    Quota <- EachType
    Ops = {"create", "edit", "cancel", "view", "hr", "manager", "ceo"}
    Exclusive = {"create", "edit", "cancel", "view", "hr", "manager", "ceo"}
    Extras <- MayWithdraw
    MaxLog = 4
    Days = {1, 2, 3}
    Weekdays = {1, 2, 3}
    Workdays = {1, 2, 3}
    UtcOffset = 0
    None = None
INVARIANT Ledger
INVARIANT Reserved
INVARIANT HoursMatchDays
INVARIANT PaidWithinCap
PROPERTY FollowsFlow
CHECK_DEADLOCK FALSE
