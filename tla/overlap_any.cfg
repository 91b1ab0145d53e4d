SPECIFICATION Spec
CONSTANTS
    emp = emp
    head = head
    hr1 = hr1
    hr2 = hr2
    boss = boss
    annual = annual
    special = special
    Workers = {w1, w2}
    Requests = {r1}
    Users = {emp, head, hr1, boss}
    RoleOf <- MCRoleOf
    DeptOf <- MCDeptOf
    Leaders = {}
    LeaveTypes = {annual, special}
    SpecialTypes = {special}
    Notice <- NoNotice
    PaidCap <- AllPaid
    WholeCalendar = {}
    YearOf <- OneYear
    Asks <- OneForm
    Quota <- OfficeQuota
    Ops = {"create", "edit", "cancel", "view", "hr", "manager", "ceo"}
    Exclusive = {}
    Extras <- MayGrant
    MaxLog = 3
    Days = {1, 2}
    Weekdays = {1, 2}
    Workdays = {1, 2}
    UtcOffset = 0
    None = None
SYMMETRY WorkerSymmetry
INVARIANT TypeOK
INVARIANT NobodyDecidesOwnLeave
INVARIANT AuditTrail
CHECK_DEADLOCK FALSE
