SPECIFICATION Spec
CONSTANTS
    adm = adm
    adm2 = adm2
    emp1 = emp1
    emp2 = emp2
    p1 = p1
    p2 = p2
    p3 = p3
    d1 = d1
    d2 = d2
    Workers = {w1, w2}
    Users = {adm, adm2, emp2}
    Subjects = {adm, adm2, emp2}
    RoleAtStart <- MCRoleAtStart
    Positions = {p1, p3}
    Depts = {d1, d2}
    HrDepts = {d2}
    LeaderPosts = {p3}
    PostAtStart <- MCPostAtStart
    WorksAs <- AllInP1
    Captchas = {c1}
    MaxAttempts = 2
    LockFor = 1
    Ops = {"role", "employee", "hire", "fire", "position", "newpost"}
    Exclusive = {}
    Apart = {{"role", "fire", "employee", "position"},
             {"employee", "hire", "position"}, {"newpost", "position"}}
    RoleForms = {"Admin", "Employee"}
    EmployeeForms <- StaffForms
    PositionForms <- PostForms
    MaxVersion = 2
    MaxTime = 0
    Unborn = Unborn
    Deleted = Deleted
    None = None
SYMMETRY StaffSymmetry
INVARIANT AccountTypeOK
INVARIANT LastAdmin
INVARIANT HoldersHaveTheRole
INVARIANT OneHeadPost
PROPERTY HrLeavesAdminsAlone
CHECK_DEADLOCK FALSE
