---------------------------- MODULE AccountStore ----------------------------
(***************************************************************************)
(* The accounts of the leave back end: the user, employee, position and    *)
(* captcha rows (prisma/schema.prisma), the tokens and reset links that    *)
(* were handed out, and the handlers in flight.  As in LeaveStore, a       *)
(* handler takes one step per database call whose order matters, and a     *)
(* single SQL statement is atomic.                                         *)
(***************************************************************************)
EXTENDS Integers, FiniteSets, Sequences

CONSTANTS
    Workers,        \* handlers that can be in flight at once
    Users,          \* identities of user rows
    RoleAtStart,    \* role of each account at the start, None when not created yet
    Positions,      \* identities of position rows
    Depts,
    HrDepts,        \* departments whose name marks them as HR's
    LeaderPosts,    \* positions whose name contains "leader"
    PostAtStart,    \* position row of each position at the start
    WorksAs,        \* position each user holds at the start
    Captchas,       \* identities of captcha rows, used again after a purge
    MaxAttempts,    \* MAX_FAILED_LOGINS
    LockFor,        \* LOCKOUT_DURATION_MINUTES, in clock ticks
    Subjects,       \* bound: the accounts that operations work on
    Ops,            \* the operations users call
    Exclusive,      \* operations never in flight with another on one account
    Apart,          \* groups of operations of which only one is past its guards at a time
    RoleForms,      \* roles the Admin area asks for
    EmployeeForms,  \* forms HR sends for an employee
    PositionForms,  \* forms HR sends for a position
    MaxVersion,     \* bound on tokenVersion
    MaxTime,        \* bound on the clock
    Unborn,         \* no such account yet
    Deleted,        \* the account is deleted; a user id is never given out again
    None

Roles == {"Employee", "Manager", "HR", "CEO", "Admin"}

OpNames == {"captcha", "login", "logout", "refresh", "forgot", "reset", "profile",
            "force", "activate", "suspend", "temp", "role",
            "status", "employee", "hire", "fire", "position", "newpost"}

\* What HR's form for an employee may carry; None when the field is not sent.
EmployeeForm == [post : Positions \cup {None}, role : Roles \cup {None},
                 dept : Depts \cup {None}]

\* A position's own role may be left alone (None) or taken away ("null").
PositionForm == [dept : Depts \cup {None}, role : Roles \cup {"null", None}]

PositionRow == [dept : Depts \cup {None}, role : Roles \cup {None}, exists : BOOLEAN]

Token == [user : Users, role : Roles, version : Nat]

Row == [role : Roles, active : BOOLEAN, version : Nat, refresh : Token \cup {None},
        attempts : Nat, lock : Nat \cup {None}]

ASSUME AccountAssumption ==
    /\ RoleAtStart \in [Users -> Roles \cup {None}]
    /\ PostAtStart \in [Positions -> PositionRow]
    /\ WorksAs \in [Users -> Positions] /\ HrDepts \subseteq Depts
    /\ LeaderPosts \subseteq Positions
    /\ MaxAttempts \in Nat \ {0} /\ LockFor \in Nat /\ MaxVersion \in Nat /\ MaxTime \in Nat
    /\ Subjects \subseteq Users
    /\ Ops \subseteq OpNames /\ Exclusive \subseteq OpNames /\ Apart \subseteq SUBSET OpNames
    /\ RoleForms \subseteq Roles
    /\ EmployeeForms \subseteq EmployeeForm /\ PositionForms \subseteq PositionForm
    /\ IsFiniteSet(Users)
    /\ None \notin Users \cup Roles \cup Positions \cup Depts \cup Captchas \cup Int \cup {"null"}
    /\ Unborn # Deleted /\ {Unborn, Deleted, None} \cap Row = {}

VARIABLES
    user,       \* the user rows
    emp,        \* department and position in the employee rows
    post,       \* the position rows
    captcha,    \* the captcha rows
    tokens,     \* token pairs handed to clients (access and refresh alike)
    links,      \* reset links mailed
    spent,      \* reset links that changed a password
    misses,     \* wrong passwords in a row, for the properties
    byHand,     \* users whose role was last chosen by hand, for the properties
    now,        \* the clock
    task        \* the handler each worker runs

sessionVars == <<captcha, tokens, links, spent, misses>>
orgVars == <<emp, post, byHand>>
accountVars == <<user, emp, post, captcha, tokens, links, spent, misses, byHand, now, task>>

-----------------------------------------------------------------------------
(* Rows. *)

Link == [user : Users, version : Nat]

Live(u) == user[u] \notin {Unborn, Deleted}

TokenOf(u, row) == [user |-> u, role |-> row.role, version |-> row.version]

NewRow(role) == [role |-> role, active |-> TRUE, version |-> 0, refresh |-> None,
                 attempts |-> 0, lock |-> None]

\* At the start everybody is signed in.
RowAtStart(u) ==
    IF RoleAtStart[u] = None THEN Unborn
    ELSE LET row == NewRow(RoleAtStart[u]) IN [row EXCEPT !.refresh = TokenOf(u, row)]

Unlocked(row) == [row EXCEPT !.attempts = 0, !.lock = None]

\* Variant: the version starts over.
SignedOut_Restarts(row) == [row EXCEPT !.version = 0, !.refresh = None]

\* Signed out everywhere: older access tokens and the refresh token are dead.
SignedOut(row) == [row EXCEPT !.version = @ + 1, !.refresh = None]

\* Variant: the role is written without the sign-out.
RoleChanged_StaysIn(row, role) == [row EXCEPT !.role = role]

\* roleChangeSignOut
RoleChanged(row, role) == [SignedOut(row) EXCEPT !.role = role]

\* JwtStrategy: the account is active and the token of its present version.
Accepted(t) ==
    Live(t.user) /\ user[t.user].active /\ t.version = user[t.user].version

SignedIn(u) == \E t \in tokens : t.user = u /\ Accepted(t)

\* A request by a signed-in user with that role (JwtAuthGuard, RolesGuard: the
\* role is the database's, not the token's).
CalledBy(u, role) == SignedIn(u) /\ user[u].role = role

\* Bound on the versions.
MayBump(u) == user[u].version < MaxVersion

-----------------------------------------------------------------------------
(* Handlers in flight. *)

Phases == {"claim", "unlock", "check", "store", "target", "count", "write", "tx"}

Task == [op : OpNames \cup {"idle"}, phase : Phases \cup {"idle"},
         user : Users \cup {None}, seen : Row \cup {None}, captcha : Captchas \cup {None},
         role : Roles \cup {None}, on : BOOLEAN, post : Positions \cup {None},
         form : EmployeeForm \cup PositionForm \cup {None}, holders : SUBSET Users]

Idle == [op |-> "idle", phase |-> "idle", user |-> None, seen |-> None,
         captcha |-> None, role |-> None, on |-> FALSE, post |-> None,
         form |-> None, holders |-> {}]

Busy(w) == task[w].op # "idle"

Finish(w) == task' = [task EXCEPT ![w] = Idle]

\* The operation waits for none of the handlers past their guards.
MayPass(op) ==
    \A w \in Workers, group \in Apart :
        Busy(w) /\ task[w].phase # "target" => ~({op, task[w].op} \subseteq group)

\* The operation may run now, beside the handlers in flight.
MayRun(op, u) ==
    /\ op \in Ops /\ u \in Subjects \cup {None}
    /\ MayPass(op)
    /\ \A w \in Workers :
            Busy(w) /\ u # None /\ task[w].user = u => {op, task[w].op} \cap Exclusive = {}

MayStart(w, op, u) == ~Busy(w) /\ MayRun(op, u)

Start(w, t) == task' = [task EXCEPT ![w] = t]

-----------------------------------------------------------------------------
AccountInit ==
    /\ user = [u \in Users |-> RowAtStart(u)]
    /\ emp = [u \in Users |-> [post |-> WorksAs[u], dept |-> PostAtStart[WorksAs[u]].dept]]
    /\ post = PostAtStart
    /\ captcha = [c \in Captchas |-> "none"]
    /\ tokens = {TokenOf(u, RowAtStart(u)) : u \in {v \in Users : RoleAtStart[v] # None}}
    /\ links = {} /\ spent = {}
    /\ misses = [u \in Users |-> 0]
    /\ byHand = {}
    /\ now = 0
    /\ task = [w \in Workers |-> Idle]

\* The handler dies: a database error, a row that is gone, or a restart.
Fail(w) ==
    /\ Busy(w)
    /\ Finish(w)
    /\ UNCHANGED <<user, sessionVars, orgVars, now>>

Tick ==
    /\ now < MaxTime
    /\ now' = now + 1
    /\ UNCHANGED <<user, sessionVars, orgVars, task>>
=============================================================================
