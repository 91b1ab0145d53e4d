SPECIFICATION Spec
CONSTANTS
    adm = adm
    adm2 = adm2
    emp1 = emp1
    emp2 = emp2
    p1 = p1
    p2 = p2
    p3 = p3
    d1 = d1
    d2 = d2
    Workers = {w1, w2}
    Users = {adm, emp1}
    Subjects = {emp1}
    RoleAtStart <- MCRoleAtStart
    Positions = {p1}
    Depts = {d1}
    HrDepts = {}
    LeaderPosts = {}
    PostAtStart <- MCPostAtStart
    WorksAs <- AllInP1
    Captchas = {c1}
    MaxAttempts = 2
    LockFor = 1
    Ops = {"captcha", "login", "logout", "refresh", "forgot", "reset", "profile",
           "force", "activate", "suspend", "temp", "role", "status"}
    Exclusive = {"login", "refresh", "profile"}
    Apart = {}
    RoleForms = {"Manager", "Employee"}
    EmployeeForms = {}
    PositionForms = {}
    MaxVersion = 2
    MaxTime = 1
    Unborn = Unborn
    Deleted = Deleted
    None = None
SYMMETRY Symmetry
INVARIANT AcceptedRoleIsCurrent
INVARIANT StoredSessionIsCurrent
PROPERTY LinkOnce
INVARIANT CaptchaOnce
INVARIANT LockAfterMisses
PROPERTY NoRevival
PROPERTY LockHolds
CHECK_DEADLOCK FALSE
