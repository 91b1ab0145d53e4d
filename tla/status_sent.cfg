SPECIFICATION Spec
CONSTANTS
    emp = emp
    head = head
    hr1 = hr1
    hr2 = hr2
    boss = boss
    annual = annual
    special = special
    Workers = {w1, w2}
    Requests = {r1}
    Users = {emp, head, hr1, boss}
    RoleOf <- MCRoleOf
    DeptOf <- MCDeptOf
    Leaders = {}
    LeaveTypes = {annual}
    SpecialTypes = {}
    Notice <- NoNotice
    PaidCap <- AllPaid
    WholeCalendar = {}
    YearOf <- OneYear
    Asks <- OneForm
    Quota <- TwoDayQuota
    Ops = {"create", "edit", "view", "hr", "manager"}
    Exclusive = {"create", "edit", "cancel", "view", "hr", "manager", "ceo"}
    Extras <- MayGrant
    MaxLog = 3
    Days = {1, 2, 3}
    Weekdays = {1, 2, 3}
    Workdays = {1, 2, 3}
    UtcOffset = 0
    None = None
INVARIANT EveryGrantDecided
CHECK_DEADLOCK FALSE
