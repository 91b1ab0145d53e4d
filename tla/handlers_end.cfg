SPECIFICATION FairSpec
CONSTANTS
    emp = emp
    head = head
    hr1 = hr1
    hr2 = hr2
    boss = boss
    annual = annual
    special = special
    Workers = {w1, w2}
    Requests = {r1, r2}
    Users = {emp, head, hr1, boss}
    RoleOf <- MCRoleOf
    DeptOf <- MCDeptOf
    Leaders = {}
    LeaveTypes = {annual}
    SpecialTypes = {}
    Notice <- NoNotice
    PaidCap <- AllPaid
    WholeCalendar = {}
    YearOf <- OneYear
    Asks <- Mornings
    Quota <- HalfDay
    Ops = {"create", "hr", "manager", "cancel"}
    Exclusive = {}
    Extras <- DatesOnly
    MaxLog = 2
    Days = {1, 2}
    Weekdays = {1, 2}
    Workdays = {1, 2}
    UtcOffset = 0
    None = None
PROPERTY HandlersEnd
CHECK_DEADLOCK FALSE
