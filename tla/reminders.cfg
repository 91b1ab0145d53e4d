SPECIFICATION ReminderSpec
CONSTANTS
    adm = adm
    hr = hr
    head = head
    emp1 = emp1
    p1 = p1
    p3 = p3
    d1 = d1
    d2 = d2
    r1 = r1
    r2 = r2
    Workers = {w1}
    Users = {adm, hr, head, emp1}
    Subjects = {hr}
    RoleAtStart <- MCRoleAtStart
    Positions = {p1, p3}
    Depts = {d1, d2}
    HrDepts = {d1}
    LeaderPosts = {p3}
    PostAtStart <- MCPostAtStart
    WorksAs <- MCWorksAs
    Captchas = {c1}
    MaxAttempts = 2
    LockFor = 1
    Ops = {"role", "status", "employee", "position"}
    Exclusive = {}
    Apart = {}
    RoleForms = {"Manager", "CEO"}
    EmployeeForms <- MCEmployeeForms
    PositionForms <- MCPositionForms
    MaxVersion = 1
    MaxTime = 0
    Requests = {r1, r2}
    OwnerOf <- MCOwnerOf
    StageAtStart <- MCStageAtStart
    Unborn = Unborn
    Deleted = Deleted
    None = None
INVARIANT RemindsStandingApprovers
CHECK_DEADLOCK FALSE
