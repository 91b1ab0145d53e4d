SPECIFICATION Spec
CONSTANTS
    emp = emp
    head = head
    hr1 = hr1
    hr2 = hr2
    boss = boss
    annual = annual
    special = special
    Workers = {w1, w2}
    Requests = {r1, r2}
    Users = {emp, head, hr1, boss}
    RoleOf <- MCRoleOf
    DeptOf <- MCDeptOf
    Leaders = {}
    LeaveTypes = {annual}
    SpecialTypes = {}
    Notice <- NoNotice
    PaidCap <- AllPaid
    WholeCalendar = {}
    YearOf <- OneYear
    Asks <- TwoForms
    Quota <- TwoDayQuota
    Ops = {"create", "hr", "manager"}
    Exclusive = {"create", "hr"}
    Extras <- DatesOnly
    MaxLog = 2
    Days = {1, 2, 3}
    Weekdays = {1, 2, 3}
    Workdays = {1, 2, 3}
    UtcOffset = 0
    None = None
INVARIANT Ledger
CHECK_DEADLOCK FALSE
