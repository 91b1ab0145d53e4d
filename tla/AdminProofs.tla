---------------------------- MODULE AdminProofs ----------------------------
(***************************************************************************)
(* Roles and positions, for every number of users, handlers and positions: *)
(* one Admin stays active and HR's handlers leave Admins alone, when the   *)
(* operations that may take an Admin away wait for one another; departments*)
(* have one head and positions give their roles, when the handlers that    *)
(* write positions do.  The daily reminder misses no standing approver,    *)
(* however the handlers overlap.                                           *)
(***************************************************************************)
EXTENDS AccountSystemProofs, Reminders, FiniteSetTheorems

\* The operations that change a role, suspend or delete.
Removers == {"suspend", "role", "status", "employee", "fire", "position"}

\* Of these only one is past its guards at a time.
AdminsApart ==
    \A a, b \in Removers \cap Ops : \E group \in Apart : {a, b} \subseteq group

AnAdminAtStart == \E u \in Users : RoleAtStart[u] = "Admin"

Past(t) == t.op \in Removers /\ t.phase # "target"

OneAtATime == \A v, w \in Workers : v # w => ~(Past(task[v]) /\ Past(task[w]))

\* The handlers in flight are of operations users call.
Called == \A w \in Workers : task[w].op \in Ops \cup {"idle"}

NotAdmin(u) == Live(u) => user[u].role # "Admin"

Demotes(t) == t.op = "suspend" \/ (t.op = "role" /\ t.role # "Admin")

\* What the handler has looked at is still so.
Sound(t) ==
    /\ t.op \in {"status", "fire", "employee"} => NotAdmin(t.user)
    /\ t.op \in {"employee", "hire"} => t.role # "Admin"
    /\ t.op = "position" => t.form.role # "Admin" /\ \A u \in t.holders : NotAdmin(u)
    /\ Demotes(t) /\ t.phase = "write" => \E b \in ActiveAdmins : b # t.user

AdminInv == LastAdmin /\ OneAtATime /\ Called /\ \A w \in Workers : Sound(task[w])

-----------------------------------------------------------------------------
(* Steps that take no Admin away and make none. *)

IsActive(row) == IsAdmin(row) /\ row.active

Keeps ==
    \A u \in Users : /\ IsActive(user[u]) => IsActive(user'[u])
                     /\ IsAdmin(user'[u]) => IsAdmin(user[u])

\* Nobody joins, and whoever stays keeps the role.
RolesStay ==
    \A u \in Users : Live(u)' => Live(u) /\ user'[u].role = user[u].role

LEMMA ActiveAdminsAre == \A u \in Users : u \in ActiveAdmins <=> IsActive(user[u])
BY DEF ActiveAdmins, IsActive, IsAdmin, Live

LEMMA ActiveAdminsWillBe == \A u \in Users : u \in ActiveAdmins' <=> IsActive(user'[u])
BY DEF ActiveAdmins, IsActive, IsAdmin, Live

LEMMA KeepsAdmins == ASSUME Keeps PROVE ActiveAdmins \subseteq ActiveAdmins'
<1>1. ActiveAdmins \subseteq Users
    BY DEF ActiveAdmins
<1> QED BY <1>1, ActiveAdminsAre, ActiveAdminsWillBe DEF Keeps

LEMMA KeepsNotAdmin ==
    ASSUME Keeps, NEW CONSTANT u \in Users, NotAdmin(u) PROVE NotAdmin(u)'
BY DEF Keeps, NotAdmin, IsAdmin, Live

\* So what was sound stays so.
LEMMA KeepsSound ==
    ASSUME TypeInv, Keeps, NEW CONSTANT t \in Handler, Sound(t) PROVE Sound(t)'
<1>1. t.op \in {"status", "fire", "employee"} => t.user \in Users
    BY DEF Handler, Ready
<1>2. t.holders \subseteq Users
    BY DEF Handler, Task
<1>3. ActiveAdmins \subseteq ActiveAdmins'
    BY KeepsAdmins
<1> QED BY <1>1, <1>2, <1>3, KeepsNotAdmin DEF Sound, Demotes

LEMMA IdleSound == Sound(Idle) /\ ~Past(Idle) /\ Idle.op = "idle"
BY DEF Idle, Sound, Past, Removers, Demotes

\* One handler takes a step.
Fine(w, x) ==
    /\ Sound(x)
    /\ x.op \in Ops \cup {"idle"}
    /\ Past(x) => MayPass(x.op) \/ Past(task[w])

LEMMA KeptInv ==
    ASSUME TypeInv, TypeInv', AdminInv, AdminsApart, Keeps, NEW w \in Workers, NEW CONSTANT x \in Handler,
           task' = [task EXCEPT ![w] = x], Fine(w, x)
    PROVE  AdminInv'
<1>1. task'[w] = x /\ \A v \in Workers \ {w} : task'[v] = task[v]
    BY DEF TypeInv
<1>2. LastAdmin'
    BY KeepsAdmins DEF AdminInv, LastAdmin
<1>3. Called'
    BY <1>1 DEF AdminInv, Called, Fine
<1>4. \A v \in Workers : Sound(task[v])'
    <2>1. ASSUME NEW CONSTANT t \in Handler, Sound(t) PROVE Sound(t)'
        BY <2>1, KeepsSound
    <2> QED BY <1>1, <2>1 DEF TypeInv, AdminInv, Fine
<1>5. OneAtATime'
    <2> SUFFICES ASSUME NEW v \in Workers, v # w, Past(task[v]), Past(x) PROVE FALSE
        BY <1>1 DEF OneAtATime, AdminInv
    <2>1. CASE Past(task[w])
        BY <2>1 DEF OneAtATime, AdminInv
    <2>2. CASE MayPass(x.op)
        <3>1. task[v].op \in Ops /\ x.op \in Ops
            BY DEF AdminInv, Called, Past, Removers, Fine
        <3>2. PICK group \in Apart : {x.op, task[v].op} \subseteq group
            BY <3>1 DEF AdminsApart, Past
        <3> QED BY <2>2, <3>2 DEF MayPass, Busy, Past, Removers
    <2> QED BY <2>1, <2>2 DEF Fine
<1> QED BY <1>2, <1>3, <1>4, <1>5 DEF AdminInv

\* A handler ends.
LEMMA EndedInv ==
    ASSUME TypeInv, TypeInv', AdminInv, AdminsApart, Keeps, NEW w \in Workers, Finish(w)
    PROVE  AdminInv'
<1>1. Fine(w, Idle) /\ task' = [task EXCEPT ![w] = Idle]
    BY IdleSound DEF Fine, Finish
<1> QED BY <1>1, IdleType, KeptInv

\* No handler moves.
LEMMA StillInv ==
    ASSUME TypeInv, AdminInv, Keeps, UNCHANGED task PROVE AdminInv'
<1>1. LastAdmin'
    BY KeepsAdmins DEF AdminInv, LastAdmin
<1>2. \A v \in Workers : Sound(task[v])'
    <2>1. ASSUME NEW CONSTANT t \in Handler, Sound(t) PROVE Sound(t)'
        BY <2>1, KeepsSound
    <2> QED BY <2>1 DEF TypeInv, AdminInv
<1> QED BY <1>1, <1>2 DEF AdminInv, OneAtATime, Called

LEMMA SameUsersKeep == ASSUME UNCHANGED user PROVE Keeps /\ RolesStay
BY DEF Keeps, RolesStay, Live

LEMMA OneRowKeeps ==
    ASSUME TypeInv, NEW u \in Users, NEW row, user' = [user EXCEPT ![u] = row],
           IsActive(user[u]) => IsActive(row), IsAdmin(row) => IsAdmin(user[u])
    PROVE  Keeps
BY DEF TypeInv, Shapes, Keeps

LEMMA OneRoleStays ==
    ASSUME TypeInv, NEW u \in Users, user[u] \in Row, NEW row \in Row,
           user' = [user EXCEPT ![u] = row], row.role = user[u].role
    PROVE  RolesStay
BY AccountAssumption DEF TypeInv, Shapes, RolesStay, Live

\* A row with the role it had, and active if it was.
LEMMA SameRoleKeeps ==
    ASSUME TypeInv, NEW u \in Users, user[u] \in Row, NEW row \in Row,
           user' = [user EXCEPT ![u] = row],
           row.role = user[u].role, user[u].active => row.active
    PROVE  Keeps /\ RolesStay
<1>1. IsAdmin(row) <=> IsAdmin(user[u])
    BY AccountAssumption DEF IsAdmin
<1>2. Keeps
    BY <1>1, OneRowKeeps DEF IsActive
<1> QED BY <1>2, OneRoleStays

\* A row of somebody who is no Admin, before and after.
LEMMA NoAdminKeeps ==
    ASSUME TypeInv, NEW u \in Users, NEW row, user' = [user EXCEPT ![u] = row],
           ~IsAdmin(user[u]), ~IsAdmin(row)
    PROVE  Keeps
BY OneRowKeeps DEF IsActive

LEMMA SignedOutActive ==
    ASSUME NEW row \in Row PROVE SignedOut(row).active = row.active
BY DEF SignedOut, Row

-----------------------------------------------------------------------------
(* One step each: sessions and single statements. *)

LEMMA LoginKeeps ==
    ASSUME TypeInv, NEW w \in Workers,
           LoginUnlock(w) \/ RightPassword(w)
    PROVE  Keeps /\ RolesStay
<1> DEFINE u == task[w].user
           row == Unlocked(user[u])
<1>1. u \in Users /\ user[u] \in Row /\ user' = [user EXCEPT ![u] = row]
    BY LiveRow DEF LoginUnlock, RightPassword, TypeInv, Handler, Task, Ready
<1>2. row \in Row /\ row.role = user[u].role /\ row.active = user[u].active
    BY <1>1, UnlockedType
<1> HIDE DEF row
<1> QED BY <1>1, <1>2, SameRoleKeeps

LEMMA WrongPasswordKeeps ==
    ASSUME TypeInv, NEW w \in Workers, WrongPassword(w) PROVE Keeps /\ RolesStay
<1> DEFINE u == task[w].user
           n == task[w].seen.attempts + 1
           lock == LockAfter(n)
           row == [user[u] EXCEPT !.attempts = n, !.lock = lock]
<1>1. u \in Users /\ task[w].seen \in Row
    BY DEF WrongPassword, TypeInv, Handler, Task, Ready
<1>2. n \in Nat
    BY <1>1 DEF Row
<1> HIDE DEF n
<1>3. lock \in Nat \cup {None}
    BY <1>2, LockAfterType DEF TypeInv, Shapes
<1>4. user[u] \in Row /\ user' = [user EXCEPT ![u] = row]
    BY <1>1, LiveRow DEF WrongPassword, n
<1> HIDE DEF lock
<1>5. row \in Row /\ row.role = user[u].role /\ row.active = user[u].active
    BY <1>2, <1>3, <1>4 DEF Row
<1> HIDE DEF row
<1> QED BY <1>1, <1>4, <1>5, SameRoleKeeps

LEMMA StoreTokensKeeps ==
    ASSUME TypeInv, NEW w \in Workers, StoreTokens(w) PROVE Keeps /\ RolesStay
<1> DEFINE u == task[w].user
           token == TokenOf(u, task[w].seen)
           row == [user[u] EXCEPT !.refresh = token]
<1>1. u \in Users /\ task[w].seen \in Row
    BY DEF StoreTokens, TypeInv, Handler, Task, Ready
<1>2. user[u] \in Row /\ user' = [user EXCEPT ![u] = row] /\ token \in Token
    BY <1>1, LiveRow, TokenType DEF StoreTokens
<1> HIDE DEF token
<1>3. row \in Row /\ row.role = user[u].role /\ row.active = user[u].active
    BY <1>2 DEF Row
<1> HIDE DEF row
<1> QED BY <1>1, <1>2, <1>3, SameRoleKeeps

LEMMA ProfileWriteKeeps ==
    ASSUME TypeInv, NEW w \in Workers, ProfileWrite(w) PROVE Keeps /\ RolesStay
<1> DEFINE u == task[w].user
           n == task[w].seen.version + 1
           token == [user |-> u, role |-> task[w].seen.role, version |-> n]
           row == [user[u] EXCEPT !.version = token.version, !.refresh = token]
<1>1. u \in Users /\ task[w].seen \in Row
    BY DEF ProfileWrite, TypeInv, Handler, Task, Ready
<1>2. user[u] \in Row /\ user' = [user EXCEPT ![u] = row]
    BY <1>1, LiveRow DEF ProfileWrite
<1>3. n \in Nat /\ task[w].seen.role \in Roles
    BY <1>1 DEF Row
<1> HIDE DEF n
<1>4. token \in Token /\ token.version \in Nat
    BY <1>1, <1>3 DEF Token
<1> HIDE DEF token
<1>5. row \in Row /\ row.role = user[u].role /\ row.active = user[u].active
    BY <1>2, <1>4 DEF Row
<1> HIDE DEF row
<1> QED BY <1>1, <1>2, <1>5, SameRoleKeeps

LEMMA StatementKeeps ==
    ASSUME TypeInv, Statement PROVE Keeps /\ RolesStay /\ UNCHANGED task
<1>1. ASSUME NEW u \in Users, Live(u), user' = [user EXCEPT ![u] = SignedOut(user[u])]
      PROVE  Keeps /\ RolesStay
    BY <1>1, LiveRow, SignedOutType, SignedOutActive, SameRoleKeeps
<1>2. ASSUME NEW u \in Users, Logout(u) \/ ForgotPassword(u) PROVE Keeps /\ RolesStay
    BY <1>1, <1>2, SameUsersKeep DEF Logout, ForgotPassword, SignedIn, Accepted
<1>3. ASSUME NEW l \in links, ResetPassword(l) PROVE Keeps /\ RolesStay
    <2>1. l.user \in Users
        BY DEF TypeInv, Shapes, Link
    <2> QED BY <1>1, <1>3, <2>1 DEF ResetPassword, PasswordReset, LinkMatches
<1>4. ASSUME NEW a \in Users, NEW u \in Users, ForceLogout(a, u) PROVE Keeps /\ RolesStay
    BY <1>1, <1>4 DEF ForceLogout, ByAdmin
<1>5. ASSUME NEW a \in Users, NEW u \in Users, Activate(a, u) PROVE Keeps /\ RolesStay
    <2> DEFINE free == Unlocked(user[u])
               row == [free EXCEPT !.active = TRUE]
    <2>1. user[u] \in Row /\ user' = [user EXCEPT ![u] = row]
        BY <1>5, LiveRow DEF Activate, ByAdmin
    <2>2. free \in Row /\ free.role = user[u].role
        BY <2>1, UnlockedType
    <2> HIDE DEF free
    <2>3. row \in Row /\ row.role = user[u].role /\ row.active
        BY <2>2 DEF Row
    <2> HIDE DEF row
    <2> QED BY <2>1, <2>3, SameRoleKeeps
<1>6. ASSUME NEW a \in Users, NEW u \in Users, TempPassword(a, u) PROVE Keeps /\ RolesStay
    <2> DEFINE row == Unlocked(SignedOut(user[u]))
    <2>1. user[u] \in Row /\ user' = [user EXCEPT ![u] = row]
        BY <1>6, LiveRow DEF TempPassword, ByAdmin
    <2>2. row \in Row /\ row.role = user[u].role /\ row.active = user[u].active
        BY <2>1, SignedOutType, SignedOutActive, UnlockedType
    <2> HIDE DEF row
    <2> QED BY <2>1, <2>2, SameRoleKeeps
<1>7. ASSUME NEW c \in Captchas, GenerateCaptcha(c) \/ PurgeCaptcha(c) PROVE Keeps /\ RolesStay
    BY <1>7, SameUsersKeep DEF GenerateCaptcha, PurgeCaptcha
<1>8. UNCHANGED task
    BY DEF Statement, SessionStatement, AdminStatement, GenerateCaptcha, PurgeCaptcha, Logout,
           ForgotPassword, ResetPassword, ForceLogout, Activate, TempPassword
<1> QED BY <1>2, <1>3, <1>4, <1>5, <1>6, <1>7, <1>8
        DEF Statement, SessionStatement, AdminStatement

LEMMA SessionStepAdmin ==
    ASSUME TypeInv, TypeInv', AdminInv, AdminsApart, NEW w \in Workers, SessionStep(w)
    PROVE  AdminInv'
<1>1. task[w] \in Handler /\ task[w].op \in Ops \cup {"idle"}
    BY DEF TypeInv, AdminInv, Called
<1>2. ASSUME NEW x \in Handler, task' = [task EXCEPT ![w] = x], x.op = "login",
             task[w].op = "login", Keeps
      PROVE  AdminInv'
    <2>1. Fine(w, x)
        BY <1>1, <1>2 DEF Fine, Sound, Past, Removers, Demotes
    <2> QED BY <1>2, <2>1, KeptInv
<1>3. CASE LoginClaim(w)
    <2>1. Keeps
        BY <1>3, SameUsersKeep DEF LoginClaim
    <2> DEFINE phase == AfterClaim(task[w].seen)
               x == [task[w] EXCEPT !.phase = phase]
    <2>2. CASE task' = [task EXCEPT ![w] = x]
        <3>1. x.op = "login" /\ task[w].op = "login"
            BY <1>1, <1>3 DEF LoginClaim, Handler, Task
        <3>2. task'[w] = x /\ x \in Handler
            BY <2>2 DEF TypeInv
        <3> HIDE DEF x
        <3> QED BY <1>2, <2>1, <2>2, <3>1, <3>2
    <2> QED BY <1>3, <2>1, <2>2, EndedInv DEF LoginClaim
<1>4. CASE LoginUnlock(w)
    <2> DEFINE seen == Unlocked(task[w].seen)
               x == [task[w] EXCEPT !.phase = "check", !.seen = seen]
    <2>1. task' = [task EXCEPT ![w] = x]
        BY <1>4 DEF LoginUnlock
    <2> HIDE DEF seen
    <2>2. x.op = "login" /\ task[w].op = "login"
        BY <1>1, <1>4 DEF LoginUnlock, Handler, Task
    <2> HIDE DEF x
    <2>3. x \in Handler
        BY <2>1 DEF TypeInv
    <2> QED BY <1>2, <1>4, <2>1, <2>2, <2>3, LoginKeeps
<1>5. CASE RightPassword(w)
    <2> DEFINE x == [task[w] EXCEPT !.phase = "store"]
    <2>1. task' = [task EXCEPT ![w] = x]
        BY <1>5 DEF RightPassword
    <2>2. x.op = "login" /\ task[w].op = "login" /\ x \in Handler
        BY <1>1, <1>5, <2>1 DEF RightPassword, Handler, Task, TypeInv
    <2> HIDE DEF x
    <2> QED BY <1>2, <1>5, <2>1, <2>2, LoginKeeps
<1>6. CASE LoginSuspended(w) \/ LoginUnknown(w)
    BY <1>6, SameUsersKeep, EndedInv DEF LoginSuspended, LoginUnknown
<1>7. CASE WrongPassword(w)
    BY <1>7, WrongPasswordKeeps, EndedInv DEF WrongPassword
<1>8. CASE StoreTokens(w)
    BY <1>8, StoreTokensKeeps, EndedInv DEF StoreTokens
<1>9. CASE ProfileWrite(w)
    BY <1>9, ProfileWriteKeeps, EndedInv DEF ProfileWrite
<1> QED BY <1>3, <1>4, <1>5, <1>6, <1>7, <1>8, <1>9 DEF SessionStep

-----------------------------------------------------------------------------
(* One step each: calls. *)

\* A handler begins that Admins have nothing to fear from yet.
LEMMA BegunInv ==
    ASSUME TypeInv, TypeInv', AdminInv, AdminsApart, NEW w \in Workers, NEW x,
           task' = [task EXCEPT ![w] = x], UNCHANGED user,
           x.op \in Ops, MayPass(x.op), Sound(x)
    PROVE  AdminInv'
<1>1. x \in Handler
    BY DEF TypeInv
<1> QED BY <1>1, KeptInv, SameUsersKeep DEF Fine

LEMMA SessionCallAdmin ==
    ASSUME TypeInv, TypeInv', AdminInv, AdminsApart, NEW w \in Workers, SessionCall(w)
    PROVE  AdminInv'
<1>1. ASSUME NEW x, Start(w, x), UNCHANGED user, x.op \in SessionOps, MayRun(x.op, x.user)
      PROVE  AdminInv'
    <2>1. Sound(x)
        BY <1>1 DEF SessionOps, Sound, Demotes
    <2> QED BY <1>1, <2>1, BegunInv DEF Start, MayRun
<1> QED BY <1>1 DEF SessionCall, ProfileCall, LoginCall, RefreshCall, LoginTask, Idle, MayStart,
                    SessionOps

LEMMA AdminCallAdmin ==
    ASSUME TypeInv, TypeInv', AdminInv, AdminsApart, NEW w \in Workers, AdminCall(w)
    PROVE  AdminInv'
<1>1. ASSUME NEW a \in Users, NEW u \in Users, SuspendCall(w, a, u) PROVE AdminInv'
    <2> DEFINE x == [Idle EXCEPT !.op = "suspend", !.phase = "target", !.user = u]
    <2>1. task' = [task EXCEPT ![w] = x] /\ "suspend" \in Ops /\ MayPass("suspend")
        BY <1>1 DEF SuspendCall, Start, MayStart, MayRun
    <2>2. x.op = "suspend" /\ x.phase = "target"
        BY DEF Idle
    <2> HIDE DEF x
    <2>3. Sound(x)
        BY <2>2 DEF Sound
    <2> QED BY <1>1, <2>1, <2>2, <2>3, BegunInv DEF SuspendCall
<1>2. ASSUME NEW a \in Users, NEW u \in Users, NEW role \in RoleForms, RoleCall(w, a, u, role)
      PROVE  AdminInv'
    <2> DEFINE phase == IF role = "Admin" THEN "write" ELSE "target"
               x == [Idle EXCEPT !.op = "role", !.user = u, !.role = role, !.phase = phase]
    <2>1. task' = [task EXCEPT ![w] = x] /\ "role" \in Ops /\ MayPass("role")
        BY <1>2 DEF RoleCall, Start, MayStart, MayRun
    <2>2. x.op = "role" /\ x.phase = phase /\ x.role = role
        BY DEF Idle
    <2> HIDE DEF x
    <2>3. Sound(x)
        BY <2>2 DEF Sound, Demotes
    <2> QED BY <1>2, <2>1, <2>2, <2>3, BegunInv DEF RoleCall
<1> QED BY <1>1, <1>2 DEF AdminCall

LEMMA StaffCallAdmin ==
    ASSUME TypeInv, TypeInv', AdminInv, AdminsApart, NEW w \in Workers, StaffCall(w)
    PROVE  AdminInv'
<1>1. ASSUME NEW u \in Users, NEW on \in BOOLEAN, StatusCall(w, u, on) PROVE AdminInv'
    <2> DEFINE x == [Idle EXCEPT !.op = "status", !.phase = "write", !.user = u, !.on = on]
    <2>1. task' = [task EXCEPT ![w] = x] /\ "status" \in Ops /\ MayPass("status")
        BY <1>1 DEF StatusCall, Start, MayStart, MayRun
    <2>2. x.op = "status" /\ x.user = u
        BY DEF Idle
    <2> HIDE DEF x
    <2>3. Sound(x)
        BY <1>1, <2>2 DEF StatusCall, HrMayTouch, Sound, NotAdmin, Demotes
    <2> QED BY <1>1, <2>1, <2>2, <2>3, BegunInv DEF StatusCall
<1>2. ASSUME NEW u \in Users, NEW form \in EmployeeForms, EmployeeBegin(w, u, form)
      PROVE  AdminInv'
    <2> DEFINE role == RoleAskedFor(u, form)
               on == Moves(u, form)
               x == [Idle EXCEPT !.op = "employee", !.phase = "tx", !.user = u,
                                 !.seen = user[u], !.form = form, !.role = role, !.on = on]
    <2>1. /\ task' = [task EXCEPT ![w] = x] /\ "employee" \in Ops /\ MayPass("employee")
          /\ role # "Admin"
        BY <1>2 DEF EmployeeBegin, Start, MayStart, MayRun
    <2> HIDE DEF role, on
    <2>2. x.op = "employee" /\ x.user = u /\ x.role = role
        BY DEF Idle
    <2> HIDE DEF x
    <2>3. Sound(x)
        BY <1>2, <2>1, <2>2 DEF EmployeeBegin, HrMayTouch, Sound, NotAdmin, Demotes
    <2> QED BY <1>2, <2>1, <2>2, <2>3, BegunInv DEF EmployeeBegin
<1>3. ASSUME NEW u \in Users, NEW form \in EmployeeForms, HireCall(w, u, form)
      PROVE  AdminInv'
    <2> DEFINE role == ImpliedRole(form.post, form.role)
               x == [Idle EXCEPT !.op = "hire", !.phase = "tx", !.user = u, !.form = form,
                                 !.role = role]
    <2>1. /\ task' = [task EXCEPT ![w] = x] /\ "hire" \in Ops /\ MayPass("hire")
          /\ role # "Admin"
        BY <1>3 DEF HireCall, Start, MayStart, MayRun
    <2> HIDE DEF role
    <2>2. x.op = "hire" /\ x.user = u /\ x.role = role
        BY DEF Idle
    <2> HIDE DEF x
    <2>3. Sound(x)
        BY <2>1, <2>2 DEF Sound, Demotes
    <2> QED BY <1>3, <2>1, <2>2, <2>3, BegunInv DEF HireCall
<1>4. ASSUME NEW u \in Users, FireCall(w, u) PROVE AdminInv'
    <2> DEFINE x == [Idle EXCEPT !.op = "fire", !.phase = "tx", !.user = u]
    <2>1. task' = [task EXCEPT ![w] = x] /\ "fire" \in Ops /\ MayPass("fire")
        BY <1>4 DEF FireCall, Start, MayStart, MayRun
    <2>2. x.op = "fire" /\ x.user = u
        BY DEF Idle
    <2> HIDE DEF x
    <2>3. Sound(x)
        BY <1>4, <2>2 DEF FireCall, HrMayTouch, Sound, NotAdmin, Demotes
    <2> QED BY <1>4, <2>1, <2>2, <2>3, BegunInv DEF FireCall
<1>5. ASSUME NEW p \in Positions, NEW form \in PositionForms, NewPostCall(w, p, form)
      PROVE  AdminInv'
    <2> DEFINE x == [Idle EXCEPT !.op = "newpost", !.phase = "write", !.post = p,
                                 !.form = form]
    <2>1. task' = [task EXCEPT ![w] = x] /\ "newpost" \in Ops /\ MayPass("newpost")
        BY <1>5 DEF NewPostCall, Start, MayStart, MayRun
    <2>2. x.op = "newpost"
        BY DEF Idle
    <2> HIDE DEF x
    <2>3. Sound(x)
        BY <2>2 DEF Sound, Demotes
    <2> QED BY <1>5, <2>1, <2>2, <2>3, BegunInv DEF NewPostCall
<1>6. ASSUME NEW p \in Positions, NEW form \in PositionForms, PositionBegin(w, p, form)
      PROVE  AdminInv'
    <2> DEFINE holders == IF form.role = None THEN {}
                          ELSE {u \in Holders(p) : user[u].role # CascadedRole(form)}
               x == [Idle EXCEPT !.op = "position", !.phase = "tx", !.post = p, !.form = form,
                                 !.holders = holders]
    <2>1. /\ task' = [task EXCEPT ![w] = x] /\ "position" \in Ops /\ MayPass("position")
          /\ form.role # "Admin"
        BY <1>6 DEF PositionBegin, Start, MayStart, MayRun
    <2>2. \A u \in holders : NotAdmin(u)
        BY DEF Holders, NotAdmin
    <2> HIDE DEF holders
    <2>3. x.op = "position" /\ x.form = form /\ x.holders = holders
        BY DEF Idle
    <2> HIDE DEF x
    <2>4. Sound(x)
        BY <2>1, <2>2, <2>3 DEF Sound, Demotes
    <2> QED BY <1>6, <2>1, <2>3, <2>4, BegunInv DEF PositionBegin
<1> QED BY <1>1, <1>2, <1>3, <1>4, <1>5, <1>6 DEF StaffCall

-----------------------------------------------------------------------------
(* One step each: the Admin area. *)

\* With more than one active Admin there is another one.
LEMMA AnotherAdmin ==
    ASSUME EnoughAdmins, NEW u PROVE \E b \in ActiveAdmins : b # u
<1>1. CASE ActiveAdmins \subseteq {u}
    <2>1. IsFiniteSet({u}) /\ Cardinality({u}) = 1
        BY FS_Singleton
    <2>2. Cardinality(ActiveAdmins) <= 1 /\ Cardinality(ActiveAdmins) \in Nat
        BY <1>1, <2>1, FS_Subset, FS_CardinalityType
    <2> QED BY <2>2 DEF EnoughAdmins
<1> QED BY <1>1

LEMMA ReadTargetAdmin ==
    ASSUME TypeInv, TypeInv', AdminInv, AdminsApart, NEW w \in Workers, ReadTarget(w)
    PROVE  AdminInv'
<1> DEFINE t == task[w]
           phase == IF user[t.user].role = "Admin" /\ user[t.user].active
                    THEN "count" ELSE "write"
           x == [t EXCEPT !.phase = phase]
<1>1. task' = [task EXCEPT ![w] = x] /\ UNCHANGED user /\ MayPass(t.op) /\ Live(t.user)
    BY DEF ReadTarget
<1>2. t.op \in {"suspend", "role"} /\ t.user \in Users /\ t.op \in Ops
    BY DEF ReadTarget, TypeInv, Handler, Ready, AdminInv, Called
<1>3. phase = "write" => t.user \notin ActiveAdmins
    BY DEF ActiveAdmins
<1> HIDE DEF phase
<1>4. x.op = t.op /\ x.user = t.user /\ x.role = t.role /\ x.phase = phase
    BY DEF TypeInv, Handler, Task
<1> HIDE DEF x
<1>5. Sound(x)
    BY <1>2, <1>3, <1>4 DEF Sound, AdminInv, LastAdmin
<1> QED BY <1>1, <1>2, <1>4, <1>5, BegunInv

LEMMA CountAdminsAdmin ==
    ASSUME TypeInv, TypeInv', AdminInv, AdminsApart, NEW w \in Workers, CountAdmins(w)
    PROVE  AdminInv'
<1> DEFINE t == task[w]
           x == [t EXCEPT !.phase = "write"]
<1>1. UNCHANGED user /\ Keeps
    BY SameUsersKeep DEF CountAdmins
<1>2. CASE EnoughAdmins
    <2>1. t.op \in {"suspend", "role"} /\ t.phase = "count" /\ t.op \in Ops
        BY DEF CountAdmins, TypeInv, Handler, Ready, AdminInv, Called
    <2>2. x.op = t.op /\ x.user = t.user
        BY DEF TypeInv, Handler, Task
    <2>3. task' = [task EXCEPT ![w] = x]
        BY <1>2 DEF CountAdmins
    <2> HIDE DEF x
    <2>4. x \in Handler
        BY <2>3 DEF TypeInv
    <2>5. Sound(x)
        BY <1>2, <2>1, <2>2, AnotherAdmin DEF Sound
    <2>6. Fine(w, x)
        BY <2>1, <2>2, <2>5 DEF Fine, Past, Removers
    <2> QED BY <1>1, <2>3, <2>4, <2>6, KeptInv
<1>3. CASE ~EnoughAdmins
    BY <1>1, <1>3, EndedInv DEF CountAdmins
<1> QED BY <1>2, <1>3

\* While one handler writes, no other handler rests on what it writes.
LEMMA WriterAlone ==
    ASSUME TypeInv, AdminInv, NEW w \in Workers, Past(task[w]), Finish(w), LastAdmin'
    PROVE  AdminInv'
<1>1. task'[w] = Idle /\ \A v \in Workers \ {w} : task'[v] = task[v]
    BY DEF TypeInv, Finish
<1>2. \A v \in Workers \ {w} : ~Past(task[v])
    BY DEF AdminInv, OneAtATime
<1>3. ASSUME NEW CONSTANT t \in Handler, Sound(t), ~Past(t) PROVE Sound(t)'
    <2>1. t.op \notin {"status", "fire", "employee", "position"}
        BY <1>3 DEF Past, Removers, Handler, Ready
    <2>2. t.phase = "write" => t.op \notin {"suspend", "role"}
        BY <1>3 DEF Past, Removers
    <2> QED BY <1>3, <2>1, <2>2 DEF Sound, Demotes
<1>4. Sound(Idle)'
    BY DEF Idle, Sound, Demotes
<1>5. \A v \in Workers : Sound(task[v])'
    BY <1>1, <1>2, <1>3, <1>4 DEF TypeInv, AdminInv
<1>6. OneAtATime' /\ Called'
    BY <1>1, IdleSound DEF AdminInv, OneAtATime, Called
<1> QED BY <1>5, <1>6 DEF AdminInv

\* An active Admin who is not written stays one.
LEMMA OtherStays ==
    ASSUME TypeInv, NEW u \in Users, NEW row, user' = [user EXCEPT ![u] = row],
           NEW b \in ActiveAdmins, b # u
    PROVE  LastAdmin'
<1>1. b \in Users /\ user'[b] = user[b]
    BY DEF ActiveAdmins, TypeInv, Shapes
<1> QED BY <1>1, ActiveAdminsAre, ActiveAdminsWillBe DEF LastAdmin

LEMMA SuspendWriteAdmin ==
    ASSUME TypeInv, AdminInv, NEW w \in Workers, SuspendWrite(w) PROVE AdminInv'
<1> DEFINE u == task[w].user
           row == [SignedOut(user[u]) EXCEPT !.active = FALSE]
<1>1. u \in Users /\ Past(task[w])
    BY DEF SuspendWrite, TypeInv, Handler, Ready, Past, Removers
<1>2. PICK b \in ActiveAdmins : b # u
    BY DEF SuspendWrite, AdminInv, Sound, Demotes
<1>3. user' = [user EXCEPT ![u] = row]
    BY DEF SuspendWrite
<1> HIDE DEF row
<1>4. LastAdmin'
    BY <1>1, <1>2, <1>3, OtherStays
<1> QED BY <1>1, <1>4, WriterAlone DEF SuspendWrite

LEMMA RoleWriteAdmin ==
    ASSUME TypeInv, AdminInv, NEW w \in Workers, RoleWrite(w) PROVE AdminInv'
<1> DEFINE u == task[w].user
           role == task[w].role
           row == RoleChanged(user[u], role)
<1>1. u \in Users /\ role \in Roles /\ Past(task[w])
    BY DEF RoleWrite, TypeInv, Handler, Ready, Past, Removers
<1>2. user' = [user EXCEPT ![u] = row] /\ user[u] \in Row
    BY <1>1, LiveRow DEF RoleWrite
<1>3. row \in Row /\ row.role = role /\ row.active = user[u].active
    <2> DEFINE out == SignedOut(user[u])
    <2>1. out \in Row /\ out.active = user[u].active
        BY <1>2, SignedOutType, SignedOutActive
    <2>2. row = [out EXCEPT !.role = role]
        BY DEF RoleChanged
    <2> HIDE DEF out, row
    <2> QED BY <1>1, <2>1, <2>2 DEF Row
<1> HIDE DEF row
<1>4. LastAdmin'
    <2>1. CASE \E b \in ActiveAdmins : b # u
        BY <1>1, <1>2, <2>1, OtherStays
    <2>2. CASE ~\E b \in ActiveAdmins : b # u
        <3>1. role = "Admin"
            BY <2>2 DEF RoleWrite, AdminInv, Sound, Demotes
        <3>2. u \in ActiveAdmins
            BY <2>2 DEF AdminInv, LastAdmin
        <3>3. user'[u] = row
            BY <1>1, <1>2 DEF TypeInv, Shapes
        <3>4. user[u].active
            BY <1>1, <3>2 DEF ActiveAdmins
        <3>5. IsAdmin(row)
            BY <1>3, <3>1, AccountAssumption DEF IsAdmin
        <3>6. IsActive(row)
            BY <1>3, <3>4, <3>5 DEF IsActive
        <3>7. IsActive(user'[u])
            BY <3>3, <3>6
        <3> QED BY <1>1, <3>7, ActiveAdminsWillBe DEF LastAdmin
    <2> QED BY <2>1, <2>2
<1> QED BY <1>1, <1>4, WriterAlone DEF RoleWrite

-----------------------------------------------------------------------------
(* One step each: HR. *)

\* The account HR's handler writes is no Admin's, before and after.
LEMMA StaffWrites ==
    ASSUME TypeInv, AdminInv, NEW w \in Workers, StaffStep(w), NEW u \in Users
    PROVE  user'[u] = user[u] \/ (~IsAdmin(user[u]) /\ ~IsAdmin(user'[u]))
<1> DEFINE t == task[w]
<1>1. Sound(t) /\ t \in Handler
    BY DEF AdminInv, TypeInv
<1>2. ASSUME NEW row \in Row, row.role # "Admin" PROVE ~IsAdmin(row)
    BY <1>2 DEF IsAdmin
<1>3. CASE StatusWrite(w)
    <2> DEFINE refresh == IF t.on THEN user[t.user].refresh ELSE None
               row == [user[t.user] EXCEPT !.active = t.on, !.refresh = refresh]
    <2>1. t.user \in Users /\ user[t.user] \in Row /\ user[t.user].role # "Admin"
        BY <1>1, <1>3, LiveRow DEF StatusWrite, Handler, Ready, Sound, NotAdmin
    <2>2. user' = [user EXCEPT ![t.user] = row]
        BY <1>3 DEF StatusWrite
    <2> HIDE DEF refresh
    <2>3. row.role # "Admin"
        BY <2>1 DEF Row
    <2> HIDE DEF row
    <2> QED BY <2>1, <2>2, <2>3 DEF TypeInv, Shapes, IsAdmin
<1>4. CASE EmployeeCommit(w)
    <2> DEFINE row == RoleChanged(user[t.user], t.role)
    <2>1. /\ t.user \in Users /\ user[t.user] \in Row /\ user[t.user].role # "Admin"
          /\ t.role # "Admin" /\ t.role \in Roles \cup {None}
        BY <1>1, <1>4, LiveRow DEF EmployeeCommit, Handler, Task, Ready, Sound, NotAdmin
    <2>2. UNCHANGED user \/ (t.role # None /\ user' = [user EXCEPT ![t.user] = row])
        BY <1>4 DEF EmployeeCommit
    <2>3. t.role # None => row.role = t.role
        BY <2>1, SignedOutType DEF RoleChanged, Row
    <2> HIDE DEF row
    <2> QED BY <2>1, <2>2, <2>3 DEF TypeInv, Shapes, IsAdmin
<1>5. CASE HireCommit(w)
    <2>1. /\ t.user \in Users /\ user[t.user] = Unborn /\ t.role # "Admin"
          /\ user' = [user EXCEPT ![t.user] = NewRow(t.role)]
        BY <1>1, <1>5 DEF HireCommit, Handler, Ready, Sound
    <2>2. ~IsAdmin(NewRow(t.role)) /\ ~IsAdmin(Unborn)
        BY <2>1 DEF IsAdmin, NewRow
    <2> QED BY <2>1, <2>2 DEF TypeInv, Shapes
<1>6. CASE FireCommit(w)
    <2>1. /\ t.user \in Users /\ user[t.user].role # "Admin"
          /\ user' = [user EXCEPT ![t.user] = Deleted]
        BY <1>1, <1>6 DEF FireCommit, Handler, Ready, Sound, NotAdmin
    <2> QED BY <2>1 DEF TypeInv, Shapes, IsAdmin
<1>7. CASE NewPostWrite(w)
    BY <1>7 DEF NewPostWrite
<1>8. CASE PositionCommit(w)
    <2> DEFINE role == CascadedRole(t.form)
    <2>1. user'[u] = IF u \in t.holders THEN RoleChanged(user[u], role) ELSE user[u]
        BY <1>8 DEF PositionCommit
    <2>2. CASE u \in t.holders
        <3>1. user[u] \in Row /\ user[u].role # "Admin"
            BY <1>1, <1>8, <2>2, LiveRow DEF PositionCommit, Sound, NotAdmin
        <3>2. role # "Admin" /\ role \in Roles
            BY <1>1, <1>8, <2>2, CascadedRoleType
               DEF PositionCommit, Sound, CascadedRole, Handler, Ready
        <3> HIDE DEF role
        <3>3. RoleChanged(user[u], role).role = role
            BY <3>1, <3>2, SignedOutType DEF RoleChanged, Row
        <3> QED BY <2>1, <2>2, <3>1, <3>2, <3>3 DEF IsAdmin
    <2> QED BY <2>1, <2>2
<1> QED BY <1>3, <1>4, <1>5, <1>6, <1>7, <1>8 DEF StaffStep

LEMMA StaffStepAdmin ==
    ASSUME TypeInv, TypeInv', AdminInv, AdminsApart, NEW w \in Workers, StaffStep(w)
    PROVE  AdminInv'
<1>1. Keeps
    BY StaffWrites DEF Keeps, IsActive
<1>2. Finish(w)
    BY DEF StaffStep, StatusWrite, EmployeeCommit, HireCommit, FireCommit, NewPostWrite,
           PositionCommit
<1> QED BY <1>1, <1>2, EndedInv

-----------------------------------------------------------------------------
(* All steps. *)

LEMMA AdminInvKept ==
    ASSUME TypeInv, AdminInv, AdminsApart, [Next]_accountVars PROVE AdminInv'
<1>1. TypeInv'
    BY StepType
<1>2. ASSUME NEW w \in Workers, Fail(w) PROVE AdminInv'
    BY <1>1, <1>2, EndedInv, SameUsersKeep DEF Fail
<1>3. CASE Tick \/ UNCHANGED accountVars
    BY <1>3, StillInv, SameUsersKeep DEF Tick, accountVars
<1>4. CASE Statement
    BY <1>4, StillInv, StatementKeeps
<1>5. ASSUME NEW w \in Workers, AdminStep(w) PROVE AdminInv'
    BY <1>1, <1>5, ReadTargetAdmin, CountAdminsAdmin, SuspendWriteAdmin, RoleWriteAdmin
       DEF AdminStep
<1> QED BY <1>1, <1>2, <1>3, <1>4, <1>5, SessionCallAdmin, SessionStepAdmin, AdminCallAdmin,
           StaffCallAdmin, StaffStepAdmin DEF Next, Call, Step

LEMMA AdminInvAtStart == AnAdminAtStart /\ Init => AdminInv
<1> SUFFICES ASSUME AnAdminAtStart, Init PROVE AdminInv
    OBVIOUS
<1>1. \A w \in Workers : task[w] = Idle
    BY DEF Init, AccountInit
<1>2. PICK u \in Users : RoleAtStart[u] = "Admin"
    BY DEF AnAdminAtStart
<1>3. user[u] = RowAtStart(u) /\ RoleAtStart[u] # None
    BY <1>2, AccountAssumption DEF Init, AccountInit, Roles
<1>4. RowAtStart(u) \in Row
    BY <1>3, RowAtStartType
<1>5. RowAtStart(u).role = "Admin" /\ RowAtStart(u).active
    <2> DEFINE row == NewRow("Admin")
               token == TokenOf(u, row)
    <2>1. RowAtStart(u) = [row EXCEPT !.refresh = token]
        BY <1>2, <1>3 DEF RowAtStart
    <2> HIDE DEF token
    <2> QED BY <2>1 DEF NewRow
<1>6. LastAdmin
    BY <1>3, <1>4, <1>5, AccountAssumption DEF LastAdmin, ActiveAdmins, Live
<1> QED BY <1>1, <1>6, IdleSound DEF AdminInv, OneAtATime, Called

\* The system always keeps an active Admin, whatever suspensions, changes of role,
\* moves, deletions and cascades follow one another, when only one of them is past
\* its guards at a time (assertNotLastActiveAdmin).
THEOREM LastAdminHolds == AdminsApart /\ AnAdminAtStart => (Spec => []LastAdmin)
<1> SUFFICES ASSUME AdminsApart, AnAdminAtStart PROVE Spec => []LastAdmin
    OBVIOUS
<1>1. TypeInv /\ AdminInv /\ [Next]_accountVars => (TypeInv /\ AdminInv)'
    BY StepType, AdminInvKept
<1>2. Init => TypeInv /\ AdminInv
    BY InitType, AdminInvAtStart
<1>3. AdminInv => LastAdmin
    BY DEF AdminInv
<1> QED BY <1>1, <1>2, <1>3, PTL DEF Spec

\* Under the same condition HR's handlers neither change an Admin's account nor
\* make an Admin (assertNotAdminAccount), although they write long after they looked.
THEOREM HrLeavesAdminsAloneHolds ==
    AdminsApart /\ AnAdminAtStart => (Spec => HrLeavesAdminsAlone)
<1> SUFFICES ASSUME AdminsApart, AnAdminAtStart PROVE Spec => HrLeavesAdminsAlone
    OBVIOUS
<1> DEFINE Leaves == \A w \in Workers, u \in Users : StaffStep(w) =>
                        /\ IsAdmin(user[u]) => user'[u] = user[u]
                        /\ IsAdmin(user'[u]) => IsAdmin(user[u])
<1>1. TypeInv /\ AdminInv /\ [Next]_accountVars => (TypeInv /\ AdminInv)' /\ [Leaves]_accountVars
    BY StepType, AdminInvKept, StaffWrites
<1>2. Init => TypeInv /\ AdminInv
    BY InitType, AdminInvAtStart
<1> QED BY <1>1, <1>2, PTL DEF Spec, HrLeavesAdminsAlone
-----------------------------------------------------------------------------
(* Positions and roles.  First, the steps that touch neither positions nor   *)
(* who holds them.                                                           *)

\* The operations that look at positions and write what follows from it later.
OrgOps == {"employee", "hire", "position", "newpost"}

\* The operations that decide somebody's role, and when they do.
RoleOps == {"role", "employee", "hire", "position"}

InPlay(t) == t.op \in RoleOps /\ t.phase # "target"

\* A handler begins, goes on with what it was called for, or ends.
Takes(w, x) ==
    /\ x.op \in Ops \cup {"idle"}
    /\ InPlay(x) => MayPass(x.op) \/ (InPlay(task[w]) /\ x.op = task[w].op)

Quiet == UNCHANGED <<post, emp, byHand>> /\ RolesStay

Plain ==
    /\ Quiet
    /\ \/ UNCHANGED task
       \/ \E w \in Workers, x \in Handler :
             task' = [task EXCEPT ![w] = x] /\ Takes(w, x) /\ x.op \notin OrgOps

\* Somebody's handler moves, and is none of those.
LEMMA PlainMove ==
    ASSUME TypeInv', NEW w \in Workers, NEW x, task' = [task EXCEPT ![w] = x], Takes(w, x),
           TypeInv, x.op \notin OrgOps, Quiet
    PROVE  Plain
<1>1. x \in Handler
    BY DEF TypeInv
<1> QED BY <1>1 DEF Plain

LEMMA PlainEnd ==
    ASSUME TypeInv, NEW w \in Workers, Finish(w), Quiet PROVE Plain
<1>1. Idle.op = "idle" /\ "idle" \notin OrgOps /\ Takes(w, Idle)
    BY DEF Idle, OrgOps, Takes, InPlay, RoleOps
<1> QED BY <1>1, IdleType DEF Plain, Finish

LEMMA PlainStatement == ASSUME TypeInv, Statement PROVE Plain
<1>1. UNCHANGED <<post, emp, byHand>>
    BY DEF Statement, SessionStatement, AdminStatement, GenerateCaptcha, PurgeCaptcha, Logout,
           ForgotPassword, ResetPassword, ForceLogout, Activate, TempPassword, orgVars
<1> QED BY <1>1, StatementKeeps DEF Plain, Quiet

LEMMA PlainSessionCall ==
    ASSUME TypeInv, TypeInv', NEW w \in Workers, SessionCall(w) PROVE Plain
<1>1. ASSUME NEW x, Start(w, x), UNCHANGED <<user, orgVars>>, x.op \in SessionOps,
             MayRun(x.op, x.user)
      PROVE  Plain
    <2>1. Takes(w, x) /\ x.op \notin OrgOps
        BY <1>1 DEF SessionOps, OrgOps, Takes, InPlay, RoleOps, MayRun
    <2> QED BY <1>1, <2>1, PlainMove, SameUsersKeep DEF Start, Quiet, orgVars
<1> QED BY <1>1 DEF SessionCall, ProfileCall, LoginCall, RefreshCall, LoginTask, Idle, MayStart,
                    SessionOps

\* A login goes on.
LEMMA PlainLogin ==
    ASSUME TypeInv, TypeInv', Called, NEW w \in Workers, NEW x,
           task' = [task EXCEPT ![w] = x], x.op = "login", task[w].op = "login", Quiet
    PROVE  Plain
<1>1. Takes(w, x) /\ x.op \notin OrgOps
    BY DEF Takes, InPlay, RoleOps, OrgOps, Called
<1> QED BY <1>1, PlainMove

LEMMA PlainSessionStep ==
    ASSUME TypeInv, TypeInv', Called, NEW w \in Workers, SessionStep(w) PROVE Plain
<1>1. UNCHANGED <<post, emp, byHand>>
    BY DEF SessionStep, LoginClaim, LoginUnlock, WrongPassword, RightPassword, LoginSuspended,
           LoginUnknown, StoreTokens, ProfileWrite, orgVars
<1>2. task[w] \in Task
    BY DEF TypeInv, Handler
<1>3. RolesStay
    BY LoginKeeps, WrongPasswordKeeps, StoreTokensKeeps, ProfileWriteKeeps, SameUsersKeep
       DEF SessionStep, LoginClaim, LoginSuspended, LoginUnknown
<1>4. Quiet
    BY <1>1, <1>3 DEF Quiet
<1>5. CASE LoginClaim(w)
    <2> DEFINE phase == AfterClaim(task[w].seen)
               x == [task[w] EXCEPT !.phase = phase]
    <2>1. x.op = "login" /\ task[w].op = "login"
        BY <1>2, <1>5 DEF LoginClaim, Task
    <2>2. task' = [task EXCEPT ![w] = x] \/ Finish(w)
        BY <1>5 DEF LoginClaim
    <2> HIDE DEF x
    <2> QED BY <1>4, <2>1, <2>2, PlainLogin, PlainEnd
<1>6. CASE LoginUnlock(w)
    <2> DEFINE seen == Unlocked(task[w].seen)
               x == [task[w] EXCEPT !.phase = "check", !.seen = seen]
    <2>1. task' = [task EXCEPT ![w] = x]
        BY <1>6 DEF LoginUnlock
    <2> HIDE DEF seen
    <2>2. x.op = "login" /\ task[w].op = "login"
        BY <1>2, <1>6 DEF LoginUnlock, Task
    <2> HIDE DEF x
    <2> QED BY <1>4, <2>1, <2>2, PlainLogin
<1>7. CASE RightPassword(w)
    <2> DEFINE x == [task[w] EXCEPT !.phase = "store"]
    <2>1. task' = [task EXCEPT ![w] = x]
        BY <1>7 DEF RightPassword
    <2>2. x.op = "login" /\ task[w].op = "login"
        BY <1>2, <1>7 DEF RightPassword, Task
    <2> HIDE DEF x
    <2> QED BY <1>4, <2>1, <2>2, PlainLogin
<1>8. CASE Finish(w)
    BY <1>4, <1>8, PlainEnd
<1> QED BY <1>5, <1>6, <1>7, <1>8 DEF SessionStep, WrongPassword, LoginSuspended, LoginUnknown,
                                      StoreTokens, ProfileWrite

LEMMA PlainAdminCall ==
    ASSUME TypeInv, TypeInv', NEW w \in Workers, AdminCall(w) PROVE Plain
<1>1. ASSUME NEW x, task' = [task EXCEPT ![w] = x], UNCHANGED <<user, orgVars>>,
             x.op \in {"suspend", "role"}, x.op \in Ops, MayPass(x.op)
      PROVE  Plain
    <2>1. Takes(w, x) /\ x.op \notin OrgOps
        BY <1>1 DEF OrgOps, Takes
    <2> QED BY <1>1, <2>1, PlainMove, SameUsersKeep DEF Quiet, orgVars
<1>2. ASSUME NEW a \in Users, NEW u \in Users, SuspendCall(w, a, u) PROVE Plain
    <2> DEFINE x == [Idle EXCEPT !.op = "suspend", !.phase = "target", !.user = u]
    <2>1. /\ task' = [task EXCEPT ![w] = x] /\ "suspend" \in Ops /\ MayPass("suspend")
          /\ UNCHANGED <<user, orgVars>>
        BY <1>2 DEF SuspendCall, Start, MayStart, MayRun
    <2>2. x.op = "suspend"
        BY DEF Idle
    <2> HIDE DEF x
    <2> QED BY <1>1, <2>1, <2>2
<1>3. ASSUME NEW a \in Users, NEW u \in Users, NEW role \in RoleForms, RoleCall(w, a, u, role)
      PROVE  Plain
    <2> DEFINE phase == IF role = "Admin" THEN "write" ELSE "target"
               x == [Idle EXCEPT !.op = "role", !.user = u, !.role = role, !.phase = phase]
    <2>1. /\ task' = [task EXCEPT ![w] = x] /\ "role" \in Ops /\ MayPass("role")
          /\ UNCHANGED <<user, orgVars>>
        BY <1>3 DEF RoleCall, Start, MayStart, MayRun
    <2>2. x.op = "role"
        BY DEF Idle
    <2> HIDE DEF x
    <2> QED BY <1>1, <2>1, <2>2
<1> QED BY <1>2, <1>3 DEF AdminCall

\* The Admin area's steps but the change of a role.
LEMMA PlainAdminStep ==
    ASSUME TypeInv, TypeInv', Called, NEW w \in Workers,
           ReadTarget(w) \/ CountAdmins(w) \/ SuspendWrite(w)
    PROVE  Plain
<1> DEFINE t == task[w]
<1>1. t \in Handler /\ t.op \in Ops \cup {"idle"}
    BY DEF TypeInv, Called
<1>2. CASE ReadTarget(w)
    <2> DEFINE phase == IF user[t.user].role = "Admin" /\ user[t.user].active
                        THEN "count" ELSE "write"
               x == [t EXCEPT !.phase = phase]
    <2>1. task' = [task EXCEPT ![w] = x] /\ MayPass(t.op) /\ UNCHANGED <<user, orgVars>>
        BY <1>2 DEF ReadTarget
    <2>2. x.op = t.op /\ t.op \in {"suspend", "role"}
        BY <1>1, <1>2 DEF ReadTarget, Handler, Task, Ready
    <2> HIDE DEF x
    <2>3. Takes(w, x) /\ x.op \notin OrgOps
        BY <1>1, <2>1, <2>2 DEF Takes, OrgOps
    <2> QED BY <2>1, <2>3, PlainMove, SameUsersKeep DEF Quiet, orgVars
<1>3. CASE CountAdmins(w)
    <2> DEFINE x == [t EXCEPT !.phase = "write"]
    <2>1. UNCHANGED <<user, orgVars>> /\ (task' = [task EXCEPT ![w] = x] \/ Finish(w))
        BY <1>3 DEF CountAdmins
    <2>2. x.op = t.op /\ t.op \in {"suspend", "role"} /\ t.phase = "count"
        BY <1>1, <1>3 DEF CountAdmins, Handler, Task, Ready
    <2> HIDE DEF x
    <2>3. Takes(w, x) /\ x.op \notin OrgOps
        BY <1>1, <2>2 DEF Takes, OrgOps, InPlay
    <2>4. Quiet
        BY <2>1, SameUsersKeep DEF Quiet, orgVars
    <2> QED BY <2>1, <2>3, <2>4, PlainMove, PlainEnd
<1>4. CASE SuspendWrite(w)
    <2> DEFINE out == SignedOut(user[t.user])
               row == [out EXCEPT !.active = FALSE]
    <2>1. t.user \in Users /\ user[t.user] \in Row
        BY <1>1, <1>4, LiveRow DEF SuspendWrite, Handler, Ready
    <2>2. user' = [user EXCEPT ![t.user] = row] /\ Finish(w) /\ UNCHANGED orgVars
        BY <1>4 DEF SuspendWrite
    <2>3. out \in Row /\ out.role = user[t.user].role
        BY <2>1, SignedOutType
    <2> HIDE DEF out
    <2>4. row \in Row /\ row.role = user[t.user].role
        BY <2>3 DEF Row
    <2> HIDE DEF row
    <2>5. RolesStay
        BY <2>1, <2>2, <2>4, OneRoleStays
    <2> QED BY <2>2, <2>5, PlainEnd DEF Quiet, orgVars
<1> QED BY <1>2, <1>3, <1>4

\* HR's switching accounts on and off, and its deletions.
LEMMA PlainStaff ==
    ASSUME TypeInv, TypeInv', NEW w \in Workers,
           \/ \E u \in Users : FireCall(w, u) \/ \E on \in BOOLEAN : StatusCall(w, u, on)
           \/ StatusWrite(w) \/ FireCommit(w)
    PROVE  Plain
<1> DEFINE t == task[w]
<1>1. t \in Handler
    BY DEF TypeInv
<1>2. ASSUME NEW x, task' = [task EXCEPT ![w] = x], UNCHANGED <<user, orgVars>>,
             x.op \in {"status", "fire"}, x.op \in Ops
      PROVE  Plain
    <2>1. Takes(w, x) /\ x.op \notin OrgOps
        BY <1>2 DEF OrgOps, Takes, InPlay, RoleOps
    <2> QED BY <1>2, <2>1, PlainMove, SameUsersKeep DEF Quiet, orgVars
<1>3. ASSUME NEW u \in Users, FireCall(w, u) PROVE Plain
    <2> DEFINE x == [Idle EXCEPT !.op = "fire", !.phase = "tx", !.user = u]
    <2>1. /\ task' = [task EXCEPT ![w] = x] /\ "fire" \in Ops /\ MayPass("fire")
          /\ UNCHANGED <<user, orgVars>>
        BY <1>3 DEF FireCall, Start, MayStart, MayRun
    <2>2. x.op = "fire"
        BY DEF Idle
    <2> HIDE DEF x
    <2> QED BY <1>2, <2>1, <2>2
<1>4. ASSUME NEW u \in Users, NEW on \in BOOLEAN, StatusCall(w, u, on) PROVE Plain
    <2> DEFINE x == [Idle EXCEPT !.op = "status", !.phase = "write", !.user = u, !.on = on]
    <2>1. /\ task' = [task EXCEPT ![w] = x] /\ "status" \in Ops /\ MayPass("status")
          /\ UNCHANGED <<user, orgVars>>
        BY <1>4 DEF StatusCall, Start, MayStart, MayRun
    <2>2. x.op = "status"
        BY DEF Idle
    <2> HIDE DEF x
    <2> QED BY <1>2, <2>1, <2>2
<1>5. CASE StatusWrite(w)
    <2> DEFINE refresh == IF t.on THEN user[t.user].refresh ELSE None
               row == [user[t.user] EXCEPT !.active = t.on, !.refresh = refresh]
    <2>1. t.user \in Users /\ user[t.user] \in Row /\ t.on \in BOOLEAN
        BY <1>1, <1>5, LiveRow DEF StatusWrite, Handler, Ready, Task
    <2>2. user' = [user EXCEPT ![t.user] = row] /\ Finish(w) /\ UNCHANGED orgVars
        BY <1>5 DEF StatusWrite
    <2>3. refresh \in Token \cup {None}
        BY <2>1 DEF Row
    <2> HIDE DEF refresh
    <2>4. row \in Row /\ row.role = user[t.user].role
        BY <2>1, <2>3 DEF Row
    <2> HIDE DEF row
    <2>5. RolesStay
        BY <2>1, <2>2, <2>4, OneRoleStays
    <2> QED BY <2>2, <2>5, PlainEnd DEF Quiet, orgVars
<1>6. CASE FireCommit(w)
    <2>1. t.user \in Users
        BY <1>1, <1>6 DEF FireCommit, Handler, Ready
    <2>2. user' = [user EXCEPT ![t.user] = Deleted] /\ Finish(w) /\ UNCHANGED orgVars
        BY <1>6 DEF FireCommit
    <2>3. RolesStay
        BY <2>1, <2>2 DEF RolesStay, TypeInv, Shapes, Live
    <2> QED BY <2>2, <2>3, PlainEnd DEF Quiet, orgVars
<1> QED BY <1>3, <1>4, <1>5, <1>6

\* Every step is plain but those of HR's handlers for employees, hirings and
\* positions, and the Admin area's change of a role.
LEMMA StepKinds ==
    ASSUME TypeInv, Called, [Next]_accountVars
    PROVE  \/ Plain
           \/ \E w \in Workers :
                 \/ \E u \in Users, form \in EmployeeForms :
                       EmployeeBegin(w, u, form) \/ HireCall(w, u, form)
                 \/ \E p \in Positions, form \in PositionForms :
                       NewPostCall(w, p, form) \/ PositionBegin(w, p, form)
                 \/ EmployeeCommit(w) \/ HireCommit(w) \/ NewPostWrite(w) \/ PositionCommit(w)
                 \/ RoleWrite(w)
<1>1. TypeInv'
    BY StepType
<1>2. ASSUME NEW w \in Workers, Fail(w) PROVE Plain
    BY <1>2, PlainEnd, SameUsersKeep DEF Fail, Quiet, orgVars
<1>3. CASE Tick \/ UNCHANGED accountVars
    BY <1>3, SameUsersKeep DEF Tick, Plain, Quiet, orgVars, accountVars
<1>4. CASE Statement
    BY <1>4, PlainStatement
<1>5. ASSUME NEW w \in Workers, SessionCall(w) \/ SessionStep(w) \/ AdminCall(w) PROVE Plain
    BY <1>1, <1>5, PlainSessionCall, PlainSessionStep, PlainAdminCall
<1>6. ASSUME NEW w \in Workers, AdminStep(w) PROVE Plain \/ RoleWrite(w)
    BY <1>1, <1>6, PlainAdminStep DEF AdminStep
<1>7. ASSUME NEW w \in Workers, NEW u \in Users, NEW on \in BOOLEAN,
             FireCall(w, u) \/ StatusCall(w, u, on)
      PROVE  Plain
    BY <1>1, <1>7, PlainStaff
<1>8. ASSUME NEW w \in Workers, StatusWrite(w) \/ FireCommit(w) PROVE Plain
    BY <1>1, <1>8, PlainStaff
<1> QED BY <1>2, <1>3, <1>4, <1>5, <1>6, <1>7, <1>8
        DEF Next, Call, Step, StaffCall, StaffStep

-----------------------------------------------------------------------------
(* One head's position in a department. *)

Posters == {"newpost", "position"}

\* Of the handlers that write positions one at a time is past its check.
HeadsApart ==
    \A a, b \in Posters \cap Ops : \E group \in Apart : {a, b} \subseteq group

\* No form moves a position without sending its role: the check for another head
\* is made only then (hr-org.service.ts), and the property is false without this.
RoleSentOnMoves == \A form \in PositionForms : form.role = None => form.dept = None

HeadsDept(row, dept) == row.exists /\ row.role = "Manager" /\ row.dept = dept

OneHeadAtStart ==
    \A dept \in Depts : \A p, q \in Positions :
        HeadsDept(PostAtStart[p], dept) /\ HeadsDept(PostAtStart[q], dept) => p = q

OneHead ==
    \A dept \in Depts : \A p, q \in Positions :
        HeadsDept(post[p], dept) /\ HeadsDept(post[q], dept) => p = q

\* No other position heads the department.
NoOtherHead(p, dept) ==
    dept \in Depts => \A q \in Positions \ {p} : ~HeadsDept(post[q], dept)

DeptAfter(p, form) == IF form.dept = None THEN post[p].dept ELSE form.dept

\* What the handler has checked is still so.
Vacant(t) ==
    /\ t.op = "newpost" /\ t.form.role = "Manager" => NoOtherHead(t.post, t.form.dept)
    /\ t.op = "position" => t.form \in PositionForms
    /\ t.op = "position" /\ t.form.role = "Manager" =>
          NoOtherHead(t.post, DeptAfter(t.post, t.form))

OnePoster ==
    \A v, w \in Workers : v # w => ~(task[v].op \in Posters /\ task[w].op \in Posters)

HeadInv == OneHead /\ OnePoster /\ Called /\ \A w \in Workers : Vacant(task[w])

\* SecondHead, as the handlers ask for it.
LEMMA SecondHeadIs ==
    ASSUME NEW p, NEW dept, ~SecondHead(p, "Manager", dept)
    PROVE  NoOtherHead(p, dept)
BY AccountAssumption DEF SecondHead, HeadPosts, NoOtherHead, HeadsDept

\* Positions are let alone, and no handler comes to write one.
LEMMA SamePostsHead ==
    ASSUME TypeInv, HeadInv, UNCHANGED post, NEW w \in Workers, NEW x,
           task' = [task EXCEPT ![w] = x], x.op \in Ops \cup {"idle"}, x.op \notin Posters
    PROVE  HeadInv'
<1>1. task'[w] = x /\ \A v \in Workers \ {w} : task'[v] = task[v]
    BY DEF TypeInv
<1>2. OneHead' /\ OnePoster' /\ Called'
    BY <1>1 DEF HeadInv, OneHead, OnePoster, Called
<1>3. \A v \in Workers : Vacant(task[v])'
    BY <1>1 DEF HeadInv, Vacant, NoOtherHead, DeptAfter, Posters
<1> QED BY <1>2, <1>3 DEF HeadInv

LEMMA PlainHead == ASSUME TypeInv, HeadInv, Plain PROVE HeadInv'
<1>1. UNCHANGED post
    BY DEF Plain, Quiet
<1>2. CASE UNCHANGED task
    BY <1>1, <1>2 DEF HeadInv, OneHead, OnePoster, Called, Vacant, NoOtherHead, DeptAfter
<1>3. ASSUME NEW w \in Workers, NEW x \in Handler, task' = [task EXCEPT ![w] = x],
             Takes(w, x), x.op \notin OrgOps
      PROVE  HeadInv'
    BY <1>1, <1>3, SamePostsHead DEF Takes, OrgOps, Posters
<1> QED BY <1>2, <1>3 DEF Plain

\* A handler that will write a position has looked at it.
LEMMA PosterHead ==
    ASSUME TypeInv, HeadInv, HeadsApart, NEW w \in Workers, NEW x,
           task' = [task EXCEPT ![w] = x], UNCHANGED post,
           x.op \in Posters \cap Ops, MayPass(x.op), Vacant(x)
    PROVE  HeadInv'
<1>1. task'[w] = x /\ \A v \in Workers \ {w} : task'[v] = task[v]
    BY DEF TypeInv
<1>2. \A v \in Workers : task[v].op \notin Posters
    <2> SUFFICES ASSUME NEW v \in Workers, task[v].op \in Posters PROVE FALSE
        OBVIOUS
    <2>1. task[v].op \in Posters \cap Ops
        BY DEF HeadInv, Called, Posters
    <2>2. PICK group \in Apart : {x.op, task[v].op} \subseteq group
        BY <2>1 DEF HeadsApart
    <2>3. task[v].phase # "target" /\ Busy(v)
        BY DEF Posters, Busy, TypeInv, Handler, Ready
    <2> QED BY <2>2, <2>3 DEF MayPass
<1>3. OneHead' /\ OnePoster' /\ Called'
    BY <1>1, <1>2 DEF HeadInv, OneHead, OnePoster, Called
<1>4. \A v \in Workers : Vacant(task[v])'
    BY <1>1 DEF HeadInv, Vacant, NoOtherHead, DeptAfter
<1> QED BY <1>3, <1>4 DEF HeadInv

\* A position is written by the one handler that may: no check rests on it.
LEMMA WrittenHead ==
    ASSUME TypeInv, HeadInv, NEW w \in Workers, Finish(w), task[w].op \in Posters,
           NEW p \in Positions, NEW row, post' = [post EXCEPT ![p] = row],
           \A dept \in Depts : HeadsDept(row, dept) =>
               HeadsDept(post[p], dept) \/ NoOtherHead(p, dept)
    PROVE  HeadInv'
<1>1. task'[w] = Idle /\ \A v \in Workers \ {w} : task'[v] = task[v]
    BY DEF TypeInv, Finish
<1>2. Idle.op = "idle" /\ "idle" \notin Posters
    BY DEF Idle, Posters
<1>3. \A v \in Workers : task'[v].op \notin Posters
    BY <1>1, <1>2 DEF HeadInv, OnePoster
<1>4. OnePoster' /\ Called'
    BY <1>1, <1>2, <1>3 DEF HeadInv, OnePoster, Called
<1>5. \A v \in Workers : Vacant(task[v])'
    BY <1>3 DEF Vacant, Posters
<1>6. post'[p] = row /\ \A q \in Positions \ {p} : post'[q] = post[q]
    BY DEF TypeInv, Shapes
<1>7. OneHead'
    <2> SUFFICES ASSUME NEW dept \in Depts, NEW q \in Positions, NEW r \in Positions,
                        HeadsDept(post'[q], dept), HeadsDept(post'[r], dept), q # r
                 PROVE  FALSE
        BY DEF OneHead, HeadsDept
    <2>1. ASSUME NEW o \in Positions, o # p, HeadsDept(post[o], dept), HeadsDept(row, dept)
          PROVE  FALSE
        BY <2>1 DEF HeadInv, OneHead, NoOtherHead
    <2>2. CASE q = p \/ r = p
        BY <1>6, <2>1, <2>2
    <2>3. CASE q # p /\ r # p
        BY <1>6, <2>3 DEF HeadInv, OneHead
    <2> QED BY <2>2, <2>3
<1> QED BY <1>4, <1>5, <1>7 DEF HeadInv

\* A role sent for the position was checked when it is a head's.
LEMMA NewPostWriteHead ==
    ASSUME TypeInv, HeadInv, NEW w \in Workers, NewPostWrite(w) PROVE HeadInv'
<1> DEFINE t == task[w]
           row == [dept |-> t.form.dept, role |-> t.form.role, exists |-> TRUE]
<1>1. t.post \in Positions /\ t.op = "newpost"
    BY DEF NewPostWrite, TypeInv, Handler, Ready
<1>2. post' = [post EXCEPT ![t.post] = row] /\ Finish(w)
    BY DEF NewPostWrite
<1>3. \A dept \in Depts : HeadsDept(row, dept) => NoOtherHead(t.post, dept)
    BY <1>1 DEF HeadsDept, HeadInv, Vacant
<1> HIDE DEF row
<1> QED BY <1>1, <1>2, <1>3, WrittenHead DEF Posters

LEMMA PositionCommitHead ==
    ASSUME TypeInv, HeadInv, RoleSentOnMoves, NEW w \in Workers, PositionCommit(w)
    PROVE  HeadInv'
<1> DEFINE t == task[w]
           p == t.post
           form == t.form
           dept == IF form.dept = None THEN post[p].dept ELSE form.dept
           own == CASE form.role = None -> post[p].role [] form.role = "null" -> None
                    [] OTHER -> form.role
           row == [post[p] EXCEPT !.dept = dept, !.role = own]
<1>1. p \in Positions /\ t.op = "position" /\ form \in PositionForms
    BY DEF PositionCommit, TypeInv, Handler, Ready, HeadInv, Vacant
<1>2. post[p] \in PositionRow
    BY <1>1 DEF TypeInv, Shapes
<1>3. post' = [post EXCEPT ![p].dept = dept, ![p].role = own] /\ Finish(w)
    BY DEF PositionCommit
<1>4. form.role = None => own = post[p].role /\ dept = post[p].dept
    BY <1>1, AccountAssumption DEF RoleSentOnMoves
<1>5. form.role = "null" => own # "Manager"
    BY AccountAssumption DEF Roles
<1>6. form.role \notin {None, "null"} => own = form.role
    OBVIOUS
<1>7. form.role = "Manager" => NoOtherHead(p, dept)
    BY <1>1 DEF HeadInv, Vacant, DeptAfter
<1> HIDE DEF own, dept
<1>8. post' = [post EXCEPT ![p] = row]
    BY <1>3
<1>9. row.dept = dept /\ row.role = own /\ row.exists = post[p].exists
    BY <1>2 DEF PositionRow
<1> HIDE DEF row
<1>10. \A d \in Depts : HeadsDept(row, d) => HeadsDept(post[p], d) \/ NoOtherHead(p, d)
    BY <1>4, <1>5, <1>6, <1>7, <1>9 DEF HeadsDept
<1> QED BY <1>1, <1>3, <1>8, <1>10, WrittenHead DEF Posters

LEMMA NewPostCallHead ==
    ASSUME TypeInv, HeadInv, HeadsApart, NEW w \in Workers, NEW p \in Positions,
           NEW form \in PositionForms, NewPostCall(w, p, form)
    PROVE  HeadInv'
<1> DEFINE x == [Idle EXCEPT !.op = "newpost", !.phase = "write", !.post = p, !.form = form]
<1>1. /\ task' = [task EXCEPT ![w] = x] /\ "newpost" \in Ops /\ MayPass("newpost")
      /\ UNCHANGED post
    BY DEF NewPostCall, Start, MayStart, MayRun, orgVars
<1>2. form.role = "Manager" => NoOtherHead(p, form.dept)
    BY SecondHeadIs DEF NewPostCall
<1>3. x.op = "newpost" /\ x.post = p /\ x.form = form
    BY DEF Idle
<1> HIDE DEF x
<1>4. Vacant(x) /\ x.op \in Posters \cap Ops /\ MayPass(x.op)
    BY <1>1, <1>2, <1>3 DEF Vacant, Posters
<1> QED BY <1>1, <1>4, PosterHead

LEMMA PositionBeginHead ==
    ASSUME TypeInv, HeadInv, HeadsApart, NEW w \in Workers, NEW p \in Positions,
           NEW form \in PositionForms, PositionBegin(w, p, form)
    PROVE  HeadInv'
<1> DEFINE holders == IF form.role = None THEN {}
                      ELSE {u \in Holders(p) : user[u].role # CascadedRole(form)}
           x == [Idle EXCEPT !.op = "position", !.phase = "tx", !.post = p, !.form = form,
                             !.holders = holders]
<1>1. /\ task' = [task EXCEPT ![w] = x] /\ "position" \in Ops /\ MayPass("position")
      /\ UNCHANGED post
    BY DEF PositionBegin, Start, MayStart, MayRun, orgVars
<1>2. form.role = "Manager" => NoOtherHead(p, DeptAfter(p, form))
    BY SecondHeadIs DEF PositionBegin, DeptAfter
<1> HIDE DEF holders
<1>3. x.op = "position" /\ x.post = p /\ x.form = form
    BY DEF Idle
<1> HIDE DEF x
<1>4. Vacant(x) /\ x.op \in Posters \cap Ops /\ MayPass(x.op)
    BY <1>1, <1>2, <1>3 DEF Vacant, Posters
<1> QED BY <1>1, <1>4, PosterHead

\* Employees come and go without touching positions.
LEMMA EmployeesHead ==
    ASSUME TypeInv, HeadInv, NEW w \in Workers,
           \/ \E u \in Users, form \in EmployeeForms :
                 EmployeeBegin(w, u, form) \/ HireCall(w, u, form)
           \/ EmployeeCommit(w) \/ HireCommit(w) \/ RoleWrite(w)
    PROVE  HeadInv'
<1>1. CASE Finish(w) /\ UNCHANGED post
    BY <1>1, IdleSound, SamePostsHead DEF Finish, Posters
<1>2. CASE EmployeeCommit(w) \/ HireCommit(w) \/ RoleWrite(w)
    BY <1>1, <1>2 DEF EmployeeCommit, HireCommit, RoleWrite
<1>3. ASSUME NEW u \in Users, NEW form \in EmployeeForms, EmployeeBegin(w, u, form)
      PROVE  HeadInv'
    <2> DEFINE role == RoleAskedFor(u, form)
               on == Moves(u, form)
               x == [Idle EXCEPT !.op = "employee", !.phase = "tx", !.user = u,
                                 !.seen = user[u], !.form = form, !.role = role, !.on = on]
    <2>1. task' = [task EXCEPT ![w] = x] /\ "employee" \in Ops /\ UNCHANGED post
        BY <1>3 DEF EmployeeBegin, Start, MayStart, MayRun, orgVars
    <2> HIDE DEF role, on
    <2>2. x.op = "employee"
        BY DEF Idle
    <2> HIDE DEF x
    <2> QED BY <2>1, <2>2, SamePostsHead DEF Posters
<1>4. ASSUME NEW u \in Users, NEW form \in EmployeeForms, HireCall(w, u, form)
      PROVE  HeadInv'
    <2> DEFINE role == ImpliedRole(form.post, form.role)
               x == [Idle EXCEPT !.op = "hire", !.phase = "tx", !.user = u, !.form = form,
                                 !.role = role]
    <2>1. task' = [task EXCEPT ![w] = x] /\ "hire" \in Ops /\ UNCHANGED post
        BY <1>4 DEF HireCall, Start, MayStart, MayRun, orgVars
    <2> HIDE DEF role
    <2>2. x.op = "hire"
        BY DEF Idle
    <2> HIDE DEF x
    <2> QED BY <2>1, <2>2, SamePostsHead DEF Posters
<1> QED BY <1>2, <1>3, <1>4

LEMMA HeadInvKept ==
    ASSUME TypeInv, HeadInv, HeadsApart, RoleSentOnMoves, [Next]_accountVars PROVE HeadInv'
<1>1. Called
    BY DEF HeadInv
<1> QED BY <1>1, StepKinds, PlainHead, EmployeesHead, NewPostCallHead, PositionBeginHead,
           NewPostWriteHead, PositionCommitHead

LEMMA HeadInvAtStart == OneHeadAtStart /\ Init => HeadInv
<1> SUFFICES ASSUME OneHeadAtStart, Init PROVE HeadInv
    OBVIOUS
<1>1. (\A w \in Workers : task[w] = Idle) /\ post = PostAtStart
    BY DEF Init, AccountInit
<1>2. Idle.op = "idle"
    BY DEF Idle
<1> QED BY <1>1, <1>2 DEF HeadInv, OneHead, OneHeadAtStart, OnePoster, Called, Vacant, Posters

\* A department has at most one position of role Manager, whatever positions are
\* created, moved and given roles, when such handlers are past their check one at a
\* time and a move of a position sends its role along (createPosition, updatePosition).
THEOREM OneHeadPostHolds ==
    HeadsApart /\ RoleSentOnMoves /\ OneHeadAtStart => (Spec => []OneHeadPost)
<1> SUFFICES ASSUME HeadsApart, RoleSentOnMoves, OneHeadAtStart PROVE Spec => []OneHeadPost
    OBVIOUS
<1>1. TypeInv /\ HeadInv /\ [Next]_accountVars => (TypeInv /\ HeadInv)'
    BY StepType, HeadInvKept
<1>2. Init => TypeInv /\ HeadInv
    BY InitType, HeadInvAtStart
<1>3. HeadInv => OneHeadPost
    <2> SUFFICES ASSUME HeadInv, NEW dept \in Depts PROVE Cardinality(HeadPosts(dept)) <= 1
        BY DEF OneHeadPost
    <2>1. \A p, q \in HeadPosts(dept) : p = q
        BY DEF HeadInv, OneHead, HeadPosts, HeadsDept
    <2>2. CASE HeadPosts(dept) = {}
        BY <2>2, FS_EmptySet
    <2>3. CASE HeadPosts(dept) # {}
        <3>1. PICK p : p \in HeadPosts(dept)
            BY <2>3
        <3>2. HeadPosts(dept) = {p}
            BY <2>1, <3>1
        <3>3. Cardinality(HeadPosts(dept)) = 1
            BY <3>2, FS_Singleton
        <3> QED BY <3>3
    <2> QED BY <2>2, <2>3
<1> QED BY <1>1, <1>2, <1>3, PTL DEF Spec

-----------------------------------------------------------------------------
(* Whoever holds a position with a role of its own has that role. *)

\* A move of an employee or a change of a position is the only one of the
\* operations that decide a role to be past its guards.
RolesApart ==
    \A a \in {"employee", "position"} \cap Ops, b \in RoleOps \cap Ops :
        \E group \in Apart : {a, b} \subseteq group

\* The first accounts hold positions there are, and have their roles.
RolesAtStart ==
    \A u \in Users : RoleAtStart[u] # None =>
        LET row == PostAtStart[WorksAs[u]] IN
        /\ row.exists
        /\ RoleAtStart[u] # "Admin" /\ row.role # None => RoleAtStart[u] = row.role

Placed == \A u \in Users : Live(u) => post[emp[u].post].exists

Beside ==
    \A v, w \in Workers :
        v # w /\ task[v].op \in {"employee", "position"} => ~InPlay(task[w])

\* What the handler has looked at is still so, and the role it will write is the
\* one that follows.
Known(t) ==
    /\ t.op = "employee" =>
          /\ t.on <=> Moves(t.user, t.form)
          /\ Live(t.user) => user[t.user].role = t.seen.role
          /\ t.on => /\ post[t.form.post].exists
                     /\ t.role = ImpliedRole(t.form.post, t.seen.role)
    /\ t.op = "hire" => /\ post[t.form.post].exists
                        /\ t.role = ImpliedRole(t.form.post, t.form.role)
    /\ t.op = "position" =>
          /\ post[t.post].exists
          /\ \A u \in t.holders : emp[u].post = t.post
          /\ t.form.role # None =>
                \A u \in Holders(t.post) :
                    user[u].role # CascadedRole(t.form) => u \in t.holders

RoleInv ==
    /\ HoldersHaveTheRole /\ Placed
    /\ Beside /\ Called /\ \A w \in Workers : Known(task[w])

\* Handlers of employees and positions look once, and are in play from then on.
LEMMA LookOnce ==
    ASSUME NEW t \in Handler, t.op \in {"employee", "hire", "position"} PROVE InPlay(t)
BY DEF InPlay, RoleOps, Handler, Ready

LEMMA BesideKept ==
    ASSUME TypeInv, Beside, Called, RolesApart, NEW w \in Workers, NEW x \in Handler,
           task' = [task EXCEPT ![w] = x], Takes(w, x)
    PROVE  Beside' /\ Called'
<1>1. task'[w] = x /\ \A v \in Workers \ {w} : task'[v] = task[v]
    BY DEF TypeInv
<1>2. Called'
    BY <1>1 DEF Called, Takes
<1>3. ASSUME NEW v \in Workers, v # w, InPlay(task[v]), InPlay(x),
             {x.op, task[v].op} \cap {"employee", "position"} # {}
      PROVE  FALSE
    <2>1. CASE InPlay(task[w]) /\ x.op = task[w].op
        BY <1>3, <2>1 DEF Beside
    <2>2. CASE MayPass(x.op)
        <3>1. {x.op, task[v].op} \subseteq RoleOps \cap Ops
            BY <1>3 DEF InPlay, Called, Takes, RoleOps
        <3>2. PICK group \in Apart : {x.op, task[v].op} \subseteq group
            BY <1>3, <3>1 DEF RolesApart
        <3>3. Busy(v) /\ task[v].phase # "target"
            BY <1>3 DEF Busy, InPlay, RoleOps
        <3> QED BY <2>2, <3>2, <3>3 DEF MayPass
    <2> QED BY <1>3, <2>1, <2>2 DEF Takes
<1>4. Beside'
    <2> SUFFICES ASSUME NEW v \in Workers, NEW o \in Workers, v # o,
                        task'[v].op \in {"employee", "position"}, InPlay(task'[o])
                 PROVE  FALSE
        BY DEF Beside, InPlay
    <2>1. task'[v] \in Handler
        BY <1>1 DEF TypeInv
    <2>2. InPlay(task'[v])
        BY <2>1, LookOnce
    <2>3. CASE v # w /\ o # w
        BY <1>1, <2>3 DEF Beside
    <2>4. CASE v = w \/ o = w
        BY <1>1, <1>3, <2>2, <2>4
    <2> QED BY <2>3, <2>4
<1> QED BY <1>2, <1>4

\* While positions and roles stay, what was known stays so.
LEMMA KnownStays ==
    ASSUME TypeInv, NEW CONSTANT t \in Handler, Known(t), UNCHANGED <<post, emp>>, RolesStay
    PROVE  Known(t)'
<1>1. CASE t.op = "employee"
    <2>1. t.user \in Users
        BY <1>1 DEF Handler, Ready
    <2> QED BY <1>1, <2>1 DEF Known, RolesStay, Moves, ImpliedRole, RoleForPosition
<1>2. CASE t.op = "hire"
    BY <1>2 DEF Known, ImpliedRole, RoleForPosition
<1>3. CASE t.op = "position"
    <2>1. \A u \in Holders(t.post)' : u \in Holders(t.post) /\ user'[u].role = user[u].role
        BY DEF Holders, RolesStay
    <2> QED BY <1>3, <2>1 DEF Known, CascadedRole
<1> QED BY <1>1, <1>2, <1>3 DEF Known

\* A step that leaves positions and roles as they are, whatever handler takes it.
LEMMA QuietRoles ==
    ASSUME TypeInv, RoleInv, RolesApart, Quiet, NEW w \in Workers, NEW x \in Handler,
           task' = [task EXCEPT ![w] = x], Takes(w, x), Known(x)
    PROVE  RoleInv'
<1>1. task'[w] = x /\ \A v \in Workers \ {w} : task'[v] = task[v]
    BY DEF TypeInv
<1>2. Beside' /\ Called'
    BY BesideKept DEF RoleInv
<1>3. \A v \in Workers : Known(task[v])'
    <2>1. ASSUME NEW CONSTANT t \in Handler, Known(t) PROVE Known(t)'
        BY <2>1, KnownStays DEF Quiet
    <2> QED BY <1>1, <2>1 DEF TypeInv, RoleInv
<1>4. HoldersHaveTheRole' /\ Placed'
    BY DEF RoleInv, HoldersHaveTheRole, Placed, Quiet, RolesStay
<1> QED BY <1>2, <1>3, <1>4 DEF RoleInv

LEMMA PlainRoles == ASSUME TypeInv, RoleInv, RolesApart, Plain PROVE RoleInv'
<1>1. Quiet
    BY DEF Plain
<1>2. CASE UNCHANGED task
    <2>1. HoldersHaveTheRole' /\ Placed'
        BY <1>1 DEF RoleInv, HoldersHaveTheRole, Placed, Quiet, RolesStay
    <2>2. \A v \in Workers : Known(task[v])'
        <3>1. ASSUME NEW CONSTANT t \in Handler, Known(t) PROVE Known(t)'
            BY <1>1, <3>1, KnownStays DEF Quiet
        <3> QED BY <1>2, <3>1 DEF TypeInv, RoleInv
    <2> QED BY <1>2, <2>1, <2>2 DEF RoleInv, Beside, Called
<1>3. ASSUME NEW w \in Workers, NEW x \in Handler, task' = [task EXCEPT ![w] = x],
             Takes(w, x), x.op \notin OrgOps
      PROVE  RoleInv'
    <2>1. Known(x)
        BY <1>3 DEF Known, OrgOps
    <2> QED BY <1>1, <1>3, <2>1, QuietRoles
<1> QED BY <1>2, <1>3 DEF Plain

\* A handler begins with what it has looked at.
LEMMA BegunRoles ==
    ASSUME TypeInv, TypeInv', RoleInv, RolesApart, NEW w \in Workers, NEW x,
           task' = [task EXCEPT ![w] = x], UNCHANGED <<user, orgVars>>,
           x.op \in Ops, MayPass(x.op), Known(x)
    PROVE  RoleInv'
<1>1. x \in Handler
    BY DEF TypeInv
<1>2. Quiet /\ Takes(w, x)
    BY SameUsersKeep DEF Quiet, orgVars, Takes
<1> QED BY <1>1, <1>2, QuietRoles

LEMMA EmployeeBeginRoles ==
    ASSUME TypeInv, TypeInv', RoleInv, RolesApart, NEW w \in Workers, NEW u \in Users,
           NEW form \in EmployeeForms, EmployeeBegin(w, u, form)
    PROVE  RoleInv'
<1> DEFINE role == RoleAskedFor(u, form)
           on == Moves(u, form)
           x == [Idle EXCEPT !.op = "employee", !.phase = "tx", !.user = u,
                             !.seen = user[u], !.form = form, !.role = role, !.on = on]
<1>1. /\ task' = [task EXCEPT ![w] = x] /\ "employee" \in Ops /\ MayPass("employee")
      /\ UNCHANGED <<user, orgVars>>
    BY DEF EmployeeBegin, Start, MayStart, MayRun
<1>2. on => post[form.post].exists /\ role = ImpliedRole(form.post, user[u].role)
    BY DEF EmployeeBegin, RoleAskedFor
<1>3. on <=> Moves(u, form)
    OBVIOUS
<1> HIDE DEF role, on
<1>4. /\ x.op = "employee" /\ x.user = u /\ x.seen = user[u] /\ x.form = form
      /\ x.role = role /\ x.on = on
    BY DEF Idle
<1> HIDE DEF x
<1>5. Known(x)
    BY <1>2, <1>3, <1>4 DEF Known
<1> QED BY <1>1, <1>4, <1>5, BegunRoles

LEMMA HireCallRoles ==
    ASSUME TypeInv, TypeInv', RoleInv, RolesApart, NEW w \in Workers, NEW u \in Users,
           NEW form \in EmployeeForms, HireCall(w, u, form)
    PROVE  RoleInv'
<1> DEFINE role == ImpliedRole(form.post, form.role)
           x == [Idle EXCEPT !.op = "hire", !.phase = "tx", !.user = u, !.form = form,
                             !.role = role]
<1>1. /\ task' = [task EXCEPT ![w] = x] /\ "hire" \in Ops /\ MayPass("hire")
      /\ UNCHANGED <<user, orgVars>> /\ post[form.post].exists
    BY DEF HireCall, Start, MayStart, MayRun
<1>2. role = ImpliedRole(form.post, form.role)
    OBVIOUS
<1> HIDE DEF role
<1>3. x.op = "hire" /\ x.form = form /\ x.role = role
    BY DEF Idle
<1> HIDE DEF x
<1>4. Known(x)
    BY <1>1, <1>2, <1>3 DEF Known
<1> QED BY <1>1, <1>3, <1>4, BegunRoles

LEMMA NewPostCallRoles ==
    ASSUME TypeInv, TypeInv', RoleInv, RolesApart, NEW w \in Workers, NEW p \in Positions,
           NEW form \in PositionForms, NewPostCall(w, p, form)
    PROVE  RoleInv'
<1> DEFINE x == [Idle EXCEPT !.op = "newpost", !.phase = "write", !.post = p, !.form = form]
<1>1. /\ task' = [task EXCEPT ![w] = x] /\ "newpost" \in Ops /\ MayPass("newpost")
      /\ UNCHANGED <<user, orgVars>>
    BY DEF NewPostCall, Start, MayStart, MayRun
<1>2. x.op = "newpost"
    BY DEF Idle
<1> HIDE DEF x
<1>3. Known(x)
    BY <1>2 DEF Known
<1> QED BY <1>1, <1>2, <1>3, BegunRoles

LEMMA PositionBeginRoles ==
    ASSUME TypeInv, TypeInv', RoleInv, RolesApart, NEW w \in Workers, NEW p \in Positions,
           NEW form \in PositionForms, PositionBegin(w, p, form)
    PROVE  RoleInv'
<1> DEFINE holders == IF form.role = None THEN {}
                      ELSE {u \in Holders(p) : user[u].role # CascadedRole(form)}
           x == [Idle EXCEPT !.op = "position", !.phase = "tx", !.post = p, !.form = form,
                             !.holders = holders]
<1>1. /\ task' = [task EXCEPT ![w] = x] /\ "position" \in Ops /\ MayPass("position")
      /\ UNCHANGED <<user, orgVars>> /\ post[p].exists
    BY DEF PositionBegin, Start, MayStart, MayRun
<1>2. /\ \A u \in holders : emp[u].post = p
      /\ form.role # None =>
            \A u \in Holders(p) : user[u].role # CascadedRole(form) => u \in holders
    BY DEF Holders
<1> HIDE DEF holders
<1>3. x.op = "position" /\ x.post = p /\ x.form = form /\ x.holders = holders
    BY DEF Idle
<1> HIDE DEF x
<1>4. Known(x)
    BY <1>1, <1>2, <1>3 DEF Known
<1> QED BY <1>1, <1>3, <1>4, BegunRoles

-----------------------------------------------------------------------------
(* The writers of roles and positions. *)

\* A handler ends: the others are as they were, and none rests on a role when
\* this one was in play, on a position when it was in play with one.
LEMMA EndedRoles ==
    ASSUME TypeInv, RoleInv, RolesApart, NEW w \in Workers, Finish(w)
    PROVE  /\ Beside' /\ Called'
           /\ \A v \in Workers : task'[v] = Idle \/ (v # w /\ task'[v] = task[v])
           /\ InPlay(task[w]) =>
                 \A v \in Workers : task'[v].op \notin {"employee", "position"}
           /\ task[w].op \in {"employee", "position"} =>
                 \A v \in Workers : task'[v].op \notin {"employee", "hire", "position"}
<1>1. task'[w] = Idle /\ \A v \in Workers \ {w} : task'[v] = task[v]
    BY DEF TypeInv, Finish
<1>2. Idle.op = "idle" /\ Takes(w, Idle)
    BY DEF Idle, Takes, InPlay, RoleOps
<1>3. Beside' /\ Called'
    BY <1>2, IdleType, BesideKept DEF Finish, RoleInv
<1>4. ASSUME InPlay(task[w]), NEW v \in Workers
      PROVE  task'[v].op \notin {"employee", "position"}
    BY <1>1, <1>2, <1>4 DEF RoleInv, Beside
<1>5. ASSUME task[w].op \in {"employee", "position"}, NEW v \in Workers
      PROVE  task'[v].op \notin {"employee", "hire", "position"}
    <2>1. task[v] \in Handler
        BY DEF TypeInv
    <2> QED BY <1>1, <1>2, <1>5, <2>1, LookOnce DEF RoleInv, Beside
<1> QED BY <1>1, <1>3, <1>4, <1>5

\* Hirings rest on positions only.
LEMMA HiringsStay ==
    ASSUME TypeInv, RoleInv, RolesApart, NEW w \in Workers, Finish(w), InPlay(task[w]),
           UNCHANGED post
    PROVE  \A v \in Workers : Known(task[v])'
<1> SUFFICES ASSUME NEW v \in Workers PROVE Known(task[v])'
    OBVIOUS
<1>1. task'[v].op \notin {"employee", "position"}
    BY EndedRoles
<1>2. task'[v] = Idle \/ task'[v] = task[v]
    BY EndedRoles
<1>3. Idle.op = "idle"
    BY DEF Idle
<1>4. CASE task'[v].op = "hire"
    <2>1. task'[v] = task[v]
        BY <1>2, <1>3, <1>4
    <2> QED BY <1>4, <2>1 DEF RoleInv, Known, ImpliedRole, RoleForPosition
<1> QED BY <1>1, <1>4 DEF Known

LEMMA RoleWriteRoles ==
    ASSUME TypeInv, RoleInv, RolesApart, NEW w \in Workers, RoleWrite(w) PROVE RoleInv'
<1> DEFINE u == task[w].user
           row == RoleChanged(user[u], task[w].role)
<1>1. u \in Users /\ Live(u) /\ InPlay(task[w])
    BY DEF RoleWrite, TypeInv, Handler, Ready, InPlay, RoleOps
<1>2. /\ user' = [user EXCEPT ![u] = row] /\ byHand' = byHand \cup {u}
      /\ UNCHANGED <<post, emp>> /\ Finish(w)
    BY DEF RoleWrite
<1> HIDE DEF row
<1>3. \A v \in Users \ {u} : user'[v] = user[v]
    BY <1>2 DEF TypeInv, Shapes
<1>4. HoldersHaveTheRole'
    BY <1>2, <1>3 DEF RoleInv, HoldersHaveTheRole, Live
<1>5. Placed'
    BY <1>1, <1>2, <1>3 DEF RoleInv, Placed, Live
<1> QED BY <1>1, <1>2, <1>4, <1>5, EndedRoles, HiringsStay DEF RoleInv

LEMMA HireCommitRoles ==
    ASSUME TypeInv, RoleInv, RolesApart, NEW w \in Workers, HireCommit(w) PROVE RoleInv'
<1> DEFINE t == task[w]
           u == t.user
           row == NewRow(t.role)
           place == [post |-> t.form.post, dept |-> t.form.dept]
<1>1. u \in Users /\ t.op = "hire" /\ t.role \in Roles /\ t \in Handler
    BY DEF HireCommit, TypeInv, Handler, Ready
<1>2. /\ user' = [user EXCEPT ![u] = row] /\ emp' = [emp EXCEPT ![u] = place]
      /\ UNCHANGED <<post, byHand>> /\ Finish(w)
    BY DEF HireCommit
<1>3. post[t.form.post].exists /\ t.role = ImpliedRole(t.form.post, t.form.role)
    BY <1>1 DEF RoleInv, Known
<1>4. place.post = t.form.post
    OBVIOUS
<1>5. row.role = t.role
    BY DEF NewRow
<1> HIDE DEF row, place
<1>6. /\ user'[u] = row /\ emp'[u] = place
      /\ \A v \in Users \ {u} : user'[v] = user[v] /\ emp'[v] = emp[v]
    BY <1>1, <1>2 DEF TypeInv, Shapes
<1>7. post[t.form.post].role # None => t.role = post[t.form.post].role
    BY <1>3 DEF ImpliedRole
<1>8. HoldersHaveTheRole'
    BY <1>2, <1>4, <1>5, <1>6, <1>7 DEF RoleInv, HoldersHaveTheRole, Live
<1>9. Placed'
    BY <1>2, <1>3, <1>4, <1>6 DEF RoleInv, Placed, Live
<1>10. InPlay(t)
    BY <1>1, LookOnce
<1> QED BY <1>2, <1>8, <1>9, <1>10, EndedRoles, HiringsStay DEF RoleInv

\* After a write that leaves no handler of employees, hirings or positions.
LEMMA NoneKnown ==
    ASSUME TypeInv, RoleInv, RolesApart, NEW w \in Workers, Finish(w),
           task[w].op \in {"employee", "position"}, HoldersHaveTheRole', Placed'
    PROVE  RoleInv'
<1>1. \A v \in Workers : task'[v].op \notin {"employee", "hire", "position"}
    BY EndedRoles
<1>2. \A v \in Workers : Known(task[v])'
    BY <1>1 DEF Known
<1> QED BY <1>2, EndedRoles DEF RoleInv

LEMMA EmployeeCommitRoles ==
    ASSUME TypeInv, RoleInv, RolesApart, NEW w \in Workers, EmployeeCommit(w) PROVE RoleInv'
<1> DEFINE t == task[w]
           u == t.user
           changed == t.role \notin {None, t.seen.role}
           row == RoleChanged(user[u], t.role)
           dept == IF t.form.dept = None THEN emp[u].dept ELSE t.form.dept
           held == IF t.form.post = None THEN emp[u].post ELSE t.form.post
           place == [post |-> held, dept |-> dept]
<1>1. /\ u \in Users /\ Live(u) /\ t.op = "employee" /\ t.form \in EmployeeForm
      /\ t.role \in Roles \cup {None} /\ t.seen \in Row /\ t.on \in BOOLEAN
    BY DEF EmployeeCommit, TypeInv, Handler, Ready, Task
<1>2. /\ user' = IF changed THEN [user EXCEPT ![u] = row] ELSE user
      /\ emp' = [emp EXCEPT ![u] = place]
      /\ byHand' = IF t.on THEN byHand \ {u}
                   ELSE IF changed THEN byHand \cup {u} ELSE byHand
      /\ UNCHANGED post /\ Finish(w)
    BY DEF EmployeeCommit
<1>3. user[u] \in Row
    BY <1>1, LiveRow
<1>4. t.role # None => row \in Row /\ row.role = t.role
    BY <1>1, <1>3, SignedOutType, RoleChangedType DEF RoleChanged, Row
<1>5. /\ t.on <=> Moves(u, t.form)
      /\ user[u].role = t.seen.role
      /\ t.on => post[t.form.post].exists /\ t.role = ImpliedRole(t.form.post, t.seen.role)
    BY <1>1 DEF RoleInv, Known
<1>6. CASE t.on
    <2>1. t.form.post # None /\ held = t.form.post
        BY <1>5, <1>6 DEF Moves
    <2>2. t.form.post \in Positions
        BY <1>1, <2>1 DEF EmployeeForm
    <2>3. t.role \in Roles /\ t.role # None
        BY <1>5, <1>6, <2>2, ImpliedRoleType, AccountAssumption
    <2>4. place.post = t.form.post
        BY <2>1
    <2> HIDE DEF place, row, held
    <2>5. user'[u] \in Row /\ user'[u].role = t.role
        BY <1>1, <1>2, <1>3, <1>4, <1>5, <2>3 DEF TypeInv, Shapes
    <2>6. /\ emp'[u] = place
          /\ \A v \in Users \ {u} : user'[v] = user[v] /\ emp'[v] = emp[v]
        BY <1>1, <1>2 DEF TypeInv, Shapes
    <2>7. post[t.form.post].role # None => t.role = post[t.form.post].role
        BY <1>5, <1>6 DEF ImpliedRole
    <2>8. HoldersHaveTheRole'
        BY <1>2, <1>6, <2>4, <2>5, <2>6, <2>7 DEF RoleInv, HoldersHaveTheRole, Live
    <2>9. Placed'
        BY <1>2, <1>5, <1>6, <2>4, <2>6 DEF RoleInv, Placed, Live
    <2> QED BY <1>1, <1>2, <2>8, <2>9, NoneKnown
<1>7. CASE ~t.on
    <2>1. held = emp[u].post
        BY <1>5, <1>7 DEF Moves
    <2>2. place.post = emp[u].post
        BY <2>1
    <2> HIDE DEF place, row, held
    <2>3. /\ emp'[u] = place
          /\ \A v \in Users \ {u} : user'[v] = user[v] /\ emp'[v] = emp[v]
        BY <1>1, <1>2 DEF TypeInv, Shapes
    <2>4. user' = user \/ u \in byHand'
        BY <1>2, <1>7
    <2>5. byHand \subseteq byHand'
        BY <1>2, <1>7
    <2>6. HoldersHaveTheRole'
        BY <1>2, <2>2, <2>3, <2>4, <2>5 DEF RoleInv, HoldersHaveTheRole, Live
    <2>7. Placed'
        BY <1>1, <1>2, <2>2, <2>3 DEF RoleInv, Placed, Live
    <2> QED BY <1>1, <1>2, <2>6, <2>7, NoneKnown
<1> QED BY <1>1, <1>6, <1>7

\* A new position is nobody's, and no handler has looked at it.
LEMMA NewPostWriteRoles ==
    ASSUME TypeInv, RoleInv, RolesApart, NEW w \in Workers, NewPostWrite(w) PROVE RoleInv'
<1> DEFINE t == task[w]
           row == [dept |-> t.form.dept, role |-> t.form.role, exists |-> TRUE]
<1>1. t.post \in Positions /\ ~post[t.post].exists
    BY DEF NewPostWrite, TypeInv, Handler, Ready
<1>2. /\ post' = [post EXCEPT ![t.post] = row] /\ UNCHANGED <<user, emp, byHand>> /\ Finish(w)
    BY DEF NewPostWrite
<1> HIDE DEF row
<1>3. \A p \in Positions : post[p].exists => post'[p] = post[p]
    BY <1>1, <1>2 DEF TypeInv, Shapes
<1>4. \A u \in Users : emp[u].post \in Positions
    BY DEF TypeInv, Shapes
<1>5. HoldersHaveTheRole' /\ Placed'
    BY <1>2, <1>3, <1>4 DEF RoleInv, HoldersHaveTheRole, Placed, Live
<1>6. ASSUME NEW v \in Workers PROVE Known(task[v])'
    <2>1. CASE task'[v] = Idle
        BY <2>1 DEF Idle, Known
    <2>2. CASE task'[v] = task[v]
        <3> DEFINE s == task[v]
        <3>1. s \in Handler /\ Known(s)
            BY DEF TypeInv, RoleInv
        <3>2. CASE s.op = "employee"
            <4>1. s.on => s.form.post \in Positions
                BY <3>1, <3>2 DEF Known, Moves, Handler, Ready, EmployeeForm
            <4>2. s.on => post'[s.form.post] = post[s.form.post]
                BY <1>3, <3>1, <3>2, <4>1 DEF Known
            <4> QED BY <1>2, <2>2, <3>1, <3>2, <4>2
                    DEF Known, Moves, ImpliedRole, RoleForPosition, Live
        <3>3. CASE s.op = "hire"
            <4>1. s.form.post \in Positions
                BY <3>1, <3>3 DEF Handler, Ready, EmployeeForm
            <4>2. post'[s.form.post] = post[s.form.post]
                BY <1>3, <3>1, <3>3, <4>1 DEF Known
            <4> QED BY <2>2, <3>1, <3>3, <4>2 DEF Known, ImpliedRole, RoleForPosition
        <3>4. CASE s.op = "position"
            <4>1. s.post \in Positions
                BY <3>1, <3>4 DEF Handler, Ready
            <4>2. post'[s.post] = post[s.post]
                BY <1>3, <3>1, <3>4, <4>1 DEF Known
            <4> QED BY <1>2, <2>2, <3>1, <3>4, <4>2 DEF Known, Holders, CascadedRole, Live
        <3> QED BY <2>2, <3>2, <3>3, <3>4 DEF Known
    <2> QED BY <1>2, <2>1, <2>2, EndedRoles
<1> QED BY <1>2, <1>5, <1>6, EndedRoles DEF RoleInv

LEMMA PositionCommitRoles ==
    ASSUME TypeInv, RoleInv, RolesApart, NEW w \in Workers, PositionCommit(w) PROVE RoleInv'
<1> DEFINE t == task[w]
           p == t.post
           form == t.form
           role == CascadedRole(form)
           dept == IF form.dept = None THEN post[p].dept ELSE form.dept
           own == CASE form.role = None -> post[p].role [] form.role = "null" -> None
                    [] OTHER -> form.role
           row == [post[p] EXCEPT !.dept = dept, !.role = own]
<1>1. /\ p \in Positions /\ t.op = "position" /\ form \in PositionForm
      /\ t.holders \subseteq Users
      /\ t.holders # {} => form.role # None
    BY DEF PositionCommit, TypeInv, Handler, Ready, Task
<1>2. post[p] \in PositionRow
    BY <1>1 DEF TypeInv, Shapes
<1>3. post' = [post EXCEPT ![p].dept = dept, ![p].role = own] /\ Finish(w)
    BY DEF PositionCommit
<1>4. /\ form.role = None => own = post[p].role
      /\ form.role = "null" => own = None
      /\ form.role \notin {None, "null"} => own = form.role /\ role = form.role
    BY AccountAssumption DEF CascadedRole
<1>5. \A u \in Users : user'[u] = IF u \in t.holders THEN RoleChanged(user[u], role) ELSE user[u]
    BY DEF PositionCommit
<1>6. \A u \in t.holders : RoleChanged(user[u], role) \in Row
                           /\ RoleChanged(user[u], role).role = role
    <2> SUFFICES ASSUME NEW u \in t.holders
                 PROVE  RoleChanged(user[u], role) \in Row
                        /\ RoleChanged(user[u], role).role = role
        OBVIOUS
    <2>1. Live(u) /\ u \in Users /\ role \in Roles
        BY <1>1, CascadedRoleType DEF PositionCommit
    <2>2. user[u] \in Row
        BY <2>1, LiveRow
    <2> HIDE DEF role
    <2> QED BY <2>1, <2>2, SignedOutType, RoleChangedType DEF RoleChanged, Row
<1>7. \A u \in Users : emp'[u].post = emp[u].post
    <2> DEFINE moved(u) == [emp[u] EXCEPT !.dept = form.dept]
    <2>1. ASSUME NEW u \in Users PROVE moved(u).post = emp[u].post
        BY DEF TypeInv, Shapes
    <2>2. emp' = [u \in Users |-> IF form.dept # None /\ u \in Holders(p)
                                  THEN moved(u) ELSE emp[u]]
        BY DEF PositionCommit
    <2> HIDE DEF moved
    <2> QED BY <2>1, <2>2
<1>8. byHand' = IF form.role = None THEN byHand ELSE byHand \ Holders(p)
    BY DEF PositionCommit
<1>9. /\ post[p].exists /\ \A u \in t.holders : emp[u].post = p /\ Live(u)
      /\ form.role # None =>
            \A u \in Holders(p) : user[u].role # role => u \in t.holders
    BY <1>1 DEF RoleInv, Known, PositionCommit
<1> HIDE DEF role, own, dept
<1>10. post' = [post EXCEPT ![p] = row]
    BY <1>3
<1>11. row.role = own /\ row.exists = post[p].exists
    BY <1>2 DEF PositionRow
<1> HIDE DEF row
<1>12. post'[p] = row /\ \A q \in Positions \ {p} : post'[q] = post[q]
    BY <1>1, <1>10 DEF TypeInv, Shapes
<1>13. \A u \in Users : Live(u)' => Live(u)
    BY <1>5, <1>9 DEF Live
<1>14. \A u \in Users : emp[u].post \in Positions
    BY DEF TypeInv, Shapes
<1>15. Placed'
    BY <1>7, <1>9, <1>11, <1>12, <1>13, <1>14 DEF RoleInv, Placed
<1>16. HoldersHaveTheRole'
    <2> SUFFICES ASSUME NEW u \in Users, u \notin byHand', Live(u)', user'[u].role # "Admin",
                        post'[emp'[u].post].role # None
                 PROVE  user'[u].role = post'[emp'[u].post].role
        BY DEF HoldersHaveTheRole
    <2>1. Live(u) /\ emp'[u].post = emp[u].post /\ emp[u].post \in Positions
        BY <1>7, <1>13, <1>14
    <2>2. CASE emp[u].post # p
        <3>1. user'[u] = user[u] /\ post'[emp[u].post] = post[emp[u].post]
            BY <1>5, <1>9, <1>12, <2>1, <2>2
        <3>2. u \notin byHand
            BY <1>8, <2>2 DEF Holders
        <3> QED BY <2>1, <3>1, <3>2 DEF RoleInv, HoldersHaveTheRole
    <2>3. CASE emp[u].post = p /\ form.role = None
        <3>1. user'[u] = user[u] /\ u \notin byHand
            BY <1>1, <1>5, <1>8, <2>3
        <3>2. post'[p].role = post[p].role
            BY <1>4, <1>11, <1>12, <2>3
        <3> QED BY <2>1, <2>3, <3>1, <3>2 DEF RoleInv, HoldersHaveTheRole
    <2>4. CASE emp[u].post = p /\ form.role # None
        <3>1. post'[p].role = role
            BY <1>4, <1>11, <1>12, <2>1, <2>4
        <3>2. CASE u \in t.holders
            BY <1>5, <1>6, <2>1, <2>4, <3>1, <3>2
        <3>3. CASE u \notin t.holders
            <4>1. user'[u] = user[u]
                BY <1>5, <3>3
            <4>2. u \in Holders(p)
                BY <2>1, <2>4, <4>1 DEF Holders
            <4> QED BY <1>9, <2>1, <2>4, <3>1, <3>3, <4>1, <4>2
        <3> QED BY <3>2, <3>3
    <2> QED BY <2>2, <2>3, <2>4
<1> QED BY <1>1, <1>3, <1>15, <1>16, NoneKnown

-----------------------------------------------------------------------------
LEMMA RoleInvKept ==
    ASSUME TypeInv, RoleInv, RolesApart, [Next]_accountVars PROVE RoleInv'
<1>1. TypeInv' /\ Called
    BY StepType DEF RoleInv
<1> QED BY <1>1, StepKinds, PlainRoles, EmployeeBeginRoles, HireCallRoles, NewPostCallRoles,
           PositionBeginRoles, EmployeeCommitRoles, HireCommitRoles, NewPostWriteRoles,
           PositionCommitRoles, RoleWriteRoles

LEMMA RoleInvAtStart == RolesAtStart /\ Init => RoleInv
<1> SUFFICES ASSUME RolesAtStart, Init PROVE RoleInv
    OBVIOUS
<1>1. \A w \in Workers : task[w] = Idle
    BY DEF Init, AccountInit
<1>2. ASSUME NEW u \in Users, Live(u)
      PROVE  RoleAtStart[u] # None /\ user[u].role = RoleAtStart[u]
    <2>1. user[u] = RowAtStart(u) /\ RoleAtStart[u] # None
        BY <1>2 DEF Init, AccountInit, Live, RowAtStart
    <2> DEFINE row == NewRow(RoleAtStart[u])
               token == TokenOf(u, row)
    <2>2. RowAtStart(u) = [row EXCEPT !.refresh = token]
        BY <2>1 DEF RowAtStart
    <2> HIDE DEF token
    <2> QED BY <2>1, <2>2 DEF NewRow
<1>3. \A u \in Users : emp[u].post = WorksAs[u] /\ post = PostAtStart
    BY DEF Init, AccountInit
<1>4. HoldersHaveTheRole /\ Placed
    BY <1>2, <1>3 DEF HoldersHaveTheRole, Placed, RolesAtStart
<1>5. Idle.op = "idle"
    BY DEF Idle
<1> QED BY <1>1, <1>4, <1>5 DEF RoleInv, Beside, Called, Known, InPlay, RoleOps

\* Whoever holds a position with a role of its own has that role (unless a role was
\* chosen by hand since), whatever moves, hirings, deletions and changes of positions
\* follow one another, when a move or a change of a position does not overlap another
\* operation that decides a role (roleForPosition, the cascade of updatePosition).
THEOREM HoldersHaveTheRoleHolds ==
    RolesApart /\ RolesAtStart => (Spec => []HoldersHaveTheRole)
<1> SUFFICES ASSUME RolesApart, RolesAtStart PROVE Spec => []HoldersHaveTheRole
    OBVIOUS
<1>1. TypeInv /\ RoleInv /\ [Next]_accountVars => (TypeInv /\ RoleInv)'
    BY StepType, RoleInvKept
<1>2. Init => TypeInv /\ RoleInv
    BY InitType, RoleInvAtStart
<1>3. RoleInv => HoldersHaveTheRole
    BY DEF RoleInv
<1> QED BY <1>1, <1>2, <1>3, PTL DEF Spec

-----------------------------------------------------------------------------
(* Reminders. *)

\* Everybody is in a department (employee.departmentId is not nullable).
Housed == \A u \in Users : emp[u].dept # None

HousedAtStart == \A u \in Users : PostAtStart[WorksAs[u]].dept # None

MailOK == mail \in Mail /\ stage \in [Requests -> Stages]

HrRead == mail.hr # None \/ mail.phase \in {"heads", "send"}
CeoRead == mail.ceo # None \/ mail.phase \in {"heads", "send"}

\* Whoever is watched may still decide the request where the job found it, and
\* each query so far has found them if it is the one for that stage.
WatchOK ==
    \A w \in watch :
        /\ w \in Deciders
        /\ [r |-> w[2], stage |-> w[3], dept |-> w[4]] \in mail.pending
        /\ HrRead /\ w[3] \in {"PENDING_VERIFY", "PENDING_CANCELLATION"} => w[1] \in mail.hr
        /\ CeoRead /\ w[3] = "PENDING_EXECUTIVE" => w[1] \in mail.ceo
        /\ mail.phase = "send" /\ w[3] = "PENDING_SUPERVISOR" => <<w[1], w[4]>> \in mail.heads

WatchInv ==
    /\ mail.phase \in {"users", "heads", "send"} => WatchOK
    /\ RemindsStandingApprovers

\* Only commits of HR's handlers change where somebody works.
LEMMA EmpStep ==
    ASSUME [Next]_accountVars
    PROVE  \/ UNCHANGED emp
           \/ \E w \in Workers : EmployeeCommit(w) \/ HireCommit(w) \/ PositionCommit(w)
<1>1. ASSUME NEW w \in Workers, SessionCall(w) \/ SessionStep(w) PROVE UNCHANGED emp
    BY <1>1 DEF SessionCall, ProfileCall, LoginCall, RefreshCall, SessionStep, LoginClaim,
           LoginUnlock, WrongPassword, RightPassword, LoginSuspended, LoginUnknown, StoreTokens,
           ProfileWrite, orgVars
<1>2. ASSUME NEW w \in Workers, AdminCall(w) \/ AdminStep(w) PROVE UNCHANGED emp
    BY <1>2 DEF AdminCall, SuspendCall, RoleCall, AdminStep, ReadTarget, CountAdmins,
           SuspendWrite, RoleWrite, orgVars
<1>3. ASSUME NEW w \in Workers, StaffCall(w) PROVE UNCHANGED emp
    BY <1>3 DEF StaffCall, StatusCall, EmployeeBegin, HireCall, FireCall, NewPostCall,
           PositionBegin, orgVars
<1>4. ASSUME NEW w \in Workers, StaffStep(w)
      PROVE  UNCHANGED emp \/ EmployeeCommit(w) \/ HireCommit(w) \/ PositionCommit(w)
    BY <1>4 DEF StaffStep, StatusWrite, FireCommit, NewPostWrite, orgVars
<1>5. CASE Statement
    BY <1>5 DEF Statement, SessionStatement, AdminStatement, GenerateCaptcha, PurgeCaptcha,
           Logout, ForgotPassword, ResetPassword, ForceLogout, Activate, TempPassword, orgVars
<1>6. ASSUME NEW w \in Workers, Fail(w) PROVE UNCHANGED emp
    BY <1>6 DEF Fail, orgVars
<1>7. CASE Tick \/ UNCHANGED accountVars
    BY <1>7 DEF Tick, accountVars, orgVars
<1> QED BY <1>1, <1>2, <1>3, <1>4, <1>5, <1>6, <1>7 DEF Next, Call, Step

\* Nobody is moved out of all departments.
LEMMA HousedStep ==
    ASSUME TypeInv, Housed, [Next]_accountVars PROVE Housed'
<1>1. CASE UNCHANGED emp
    BY <1>1 DEF Housed
<1>2. ASSUME NEW w \in Workers, EmployeeCommit(w) PROVE Housed'
    <2> DEFINE t == task[w]
               dept == IF t.form.dept = None THEN emp[t.user].dept ELSE t.form.dept
               held == IF t.form.post = None THEN emp[t.user].post ELSE t.form.post
               place == [post |-> held, dept |-> dept]
    <2>1. t.user \in Users
        BY <1>2 DEF EmployeeCommit, TypeInv, Handler, Ready
    <2>2. emp' = [emp EXCEPT ![t.user] = place]
        BY <1>2 DEF EmployeeCommit
    <2>3. place.dept # None
        BY <2>1 DEF Housed
    <2> HIDE DEF place
    <2> QED BY <2>1, <2>2, <2>3 DEF Housed, TypeInv, Shapes
<1>3. ASSUME NEW w \in Workers, HireCommit(w) PROVE Housed'
    <2> DEFINE t == task[w]
               place == [post |-> t.form.post, dept |-> t.form.dept]
    <2>1. t.user \in Users /\ t.form.dept # None
        BY <1>3 DEF HireCommit, TypeInv, Handler, Ready
    <2>2. emp' = [emp EXCEPT ![t.user] = place]
        BY <1>3 DEF HireCommit
    <2>3. place.dept # None
        BY <2>1
    <2> HIDE DEF place
    <2> QED BY <2>1, <2>2, <2>3 DEF Housed, TypeInv, Shapes
<1>4. ASSUME NEW w \in Workers, PositionCommit(w) PROVE Housed'
    <2> DEFINE t == task[w]
               moved(u) == [emp[u] EXCEPT !.dept = t.form.dept]
    <2>1. ASSUME NEW u \in Users PROVE moved(u).dept = t.form.dept
        BY DEF TypeInv, Shapes
    <2>2. emp' = [u \in Users |-> IF t.form.dept # None /\ u \in Holders(t.post)
                                  THEN moved(u) ELSE emp[u]]
        BY <1>4 DEF PositionCommit
    <2> HIDE DEF moved
    <2> QED BY <2>1, <2>2 DEF Housed
<1> QED BY <1>1, <1>2, <1>3, <1>4, EmpStep

\* What the queries read has its type.
LEMMA MailTypes ==
    ASSUME TypeInv, MailOK
    PROVE  /\ Waiting \in SUBSET Item
           /\ \A role : OfRole(role) \in SUBSET Users
           /\ \A u \in Users : emp[u].dept \in Depts \cup {None}
<1>1. \A u \in Users : emp[u].dept \in Depts \cup {None}
    BY DEF TypeInv, Shapes
<1>2. ASSUME NEW r \in Requests, stage[r] # "decided"
      PROVE  [r |-> r, stage |-> stage[r], dept |-> emp[OwnerOf[r]].dept] \in Item
    BY <1>1, <1>2, ReminderAssumption DEF MailOK, Item
<1> QED BY <1>1, <1>2 DEF Waiting, OfRole

\* Who may decide is a matter of the accounts and the stages.
LEMMA SameDeciders ==
    ASSUME UNCHANGED <<accountVars, stage>> PROVE Deciders' = Deciders
BY DEF Deciders, MayDecide, MayHead, Active, Live, accountVars

LEMMA DeciderIs ==
    ASSUME NEW w \in Deciders
    PROVE  /\ w[1] \in Users /\ w[2] \in Requests /\ MayDecide(w[1], w[2])
           /\ w[3] = stage[w[2]] /\ w[4] = emp[OwnerOf[w[2]]].dept
BY DEF Deciders

\* The watch goes on while the job does nothing.
LEMMA SameMailWatch ==
    ASSUME WatchInv, UNCHANGED mail, Watching PROVE WatchInv'
<1>1. CASE mail.phase = "sent"
    BY <1>1 DEF Watching, WatchInv, RemindsStandingApprovers
<1>2. CASE mail.phase \in {"users", "heads", "send"}
    <2>1. watch' = watch \cap Deciders'
        BY <1>2 DEF Watching
    <2> QED BY <1>2, <2>1 DEF WatchInv, WatchOK, HrRead, CeoRead, RemindsStandingApprovers
<1>3. CASE mail.phase \notin {"users", "heads", "send", "sent"}
    BY <1>3 DEF WatchInv, RemindsStandingApprovers
<1> QED BY <1>1, <1>2, <1>3

LEMMA ReadPendingWatch ==
    ASSUME TypeInv, MailOK, ReadPending, Watching PROVE MailOK' /\ WatchInv'
<1> DEFINE waiting == Waiting
<1>1. mail' = [NoMail EXCEPT !.phase = "users", !.pending = waiting] /\ mail.phase = "idle"
    BY DEF ReadPending
<1>2. waiting \in SUBSET Item
    BY MailTypes
<1>3. \A w \in Deciders : [r |-> w[2], stage |-> w[3], dept |-> w[4]] \in waiting
    <2> SUFFICES ASSUME NEW w \in Deciders
                 PROVE  [r |-> w[2], stage |-> w[3], dept |-> w[4]] \in waiting
        OBVIOUS
    <2>1. stage[w[2]] # "decided" /\ Live(OwnerOf[w[2]])
        BY DeciderIs DEF MayDecide
    <2> QED BY <2>1, DeciderIs DEF Waiting
<1> HIDE DEF waiting
<1>4. /\ mail'.phase = "users" /\ mail'.pending = waiting /\ mail'.hr = None /\ mail'.ceo = None
      /\ mail' \in Mail
    BY <1>1, <1>2 DEF NoMail, Mail
<1>5. watch' = Deciders /\ Deciders' = Deciders
    BY <1>1, <1>4, SameDeciders DEF Watching, ReadPending
<1>6. UNCHANGED stage
    BY DEF ReadPending
<1> QED BY <1>3, <1>4, <1>5, <1>6
        DEF MailOK, WatchInv, WatchOK, HrRead, CeoRead, RemindsStandingApprovers

\* A query in the middle of the job: who is watched may still decide.
LEMMA StillWatched ==
    ASSUME WatchInv, mail.phase \in {"users", "heads", "send"}, mail'.phase # "idle",
           UNCHANGED <<accountVars, stage>>, Watching
    PROVE  watch' = watch /\ Deciders' = Deciders /\ WatchOK
<1>1. watch' = watch \cap Deciders' /\ Deciders' = Deciders
    BY SameDeciders DEF Watching
<1> QED BY <1>1 DEF WatchInv, WatchOK

\* HR users and CEOs are those who may decide at their stages.
LEMMA RoleRead ==
    ASSUME NEW w \in Deciders
    PROVE  /\ w[3] \in {"PENDING_VERIFY", "PENDING_CANCELLATION"} => w[1] \in OfRole("HR")
           /\ w[3] = "PENDING_EXECUTIVE" => w[1] \in OfRole("CEO")
BY DeciderIs DEF MayDecide, OfRole

LEMMA ReadHrWatch ==
    ASSUME TypeInv, MailOK, WatchInv, ReadHr, Watching PROVE MailOK' /\ WatchInv'
<1> DEFINE hr == OfRole("HR")
           phase == IF mail.ceo = None THEN mail.phase ELSE "heads"
<1>1. mail' = [mail EXCEPT !.hr = hr, !.phase = phase] /\ mail.phase = "users"
    BY DEF ReadHr
<1>2. hr \in SUBSET Users /\ phase \in {"users", "heads"} /\ (phase = "heads" => mail.ceo # None)
    BY <1>1, MailTypes
<1>3. \A w \in Deciders :
         w[3] \in {"PENDING_VERIFY", "PENDING_CANCELLATION"} => w[1] \in hr
    BY RoleRead
<1> HIDE DEF hr, phase
<1>4. /\ mail'.phase = phase /\ mail'.pending = mail.pending /\ mail'.hr = hr
      /\ mail'.ceo = mail.ceo /\ mail' \in Mail
    BY <1>1, <1>2 DEF MailOK, Mail
<1>5. watch' = watch /\ Deciders' = Deciders /\ WatchOK
    BY <1>1, <1>2, <1>4, StillWatched DEF ReadHr
<1>6. WatchOK'
    BY <1>1, <1>2, <1>3, <1>4, <1>5 DEF WatchOK, HrRead, CeoRead
<1> QED BY <1>2, <1>4, <1>6 DEF MailOK, WatchInv, RemindsStandingApprovers, ReadHr

LEMMA ReadCeoWatch ==
    ASSUME TypeInv, MailOK, WatchInv, ReadCeo, Watching PROVE MailOK' /\ WatchInv'
<1> DEFINE ceo == OfRole("CEO")
           phase == IF mail.hr = None THEN mail.phase ELSE "heads"
<1>1. mail' = [mail EXCEPT !.ceo = ceo, !.phase = phase] /\ mail.phase = "users"
    BY DEF ReadCeo
<1>2. ceo \in SUBSET Users /\ phase \in {"users", "heads"} /\ (phase = "heads" => mail.hr # None)
    BY <1>1, MailTypes
<1>3. \A w \in Deciders : w[3] = "PENDING_EXECUTIVE" => w[1] \in ceo
    BY RoleRead
<1> HIDE DEF ceo, phase
<1>4. /\ mail'.phase = phase /\ mail'.pending = mail.pending /\ mail'.ceo = ceo
      /\ mail'.hr = mail.hr /\ mail' \in Mail
    BY <1>1, <1>2 DEF MailOK, Mail
<1>5. watch' = watch /\ Deciders' = Deciders /\ WatchOK
    BY <1>1, <1>2, <1>4, StillWatched DEF ReadCeo
<1>6. WatchOK'
    BY <1>1, <1>2, <1>3, <1>4, <1>5 DEF WatchOK, HrRead, CeoRead
<1> QED BY <1>2, <1>4, <1>6 DEF MailOK, WatchInv, RemindsStandingApprovers, ReadCeo

\* Whoever may decide for a department is one of its heads.
LEMMA ReadHeadsWatch ==
    ASSUME TypeInv, Housed, MailOK, WatchInv, ReadHeads, Watching PROVE MailOK' /\ WatchInv'
<1> DEFINE heads == {<<u, emp[u].dept>> :
                        u \in {v \in Users : Active(v) /\ emp[v].dept \in HeadDepts /\ IsHead(v)}}
<1>1. mail' = [mail EXCEPT !.phase = "send", !.heads = heads] /\ mail.phase = "heads"
    BY DEF ReadHeads
<1>2. heads \in SUBSET (Users \X (Depts \cup {None}))
    BY MailTypes
<1>3. mail'.phase = "send" /\ mail'.pending = mail.pending /\ mail'.heads = heads
      /\ mail'.hr = mail.hr /\ mail'.ceo = mail.ceo /\ mail' \in Mail
    <2> HIDE DEF heads
    <2> QED BY <1>1, <1>2 DEF MailOK, Mail
<1>4. watch' = watch /\ Deciders' = Deciders /\ WatchOK
    BY <1>1, <1>3, StillWatched DEF ReadHeads
<1>5. ASSUME NEW w \in watch, w[3] = "PENDING_SUPERVISOR" PROVE <<w[1], w[4]>> \in heads
    <2> DEFINE item == [r |-> w[2], stage |-> w[3], dept |-> w[4]]
    <2>1. w \in Deciders /\ item \in mail.pending
        BY <1>4 DEF WatchOK
    <2>2. /\ w[1] \in Users /\ w[2] \in Requests /\ MayDecide(w[1], w[2])
          /\ stage[w[2]] = "PENDING_SUPERVISOR" /\ w[4] = emp[OwnerOf[w[2]]].dept
        BY <1>5, <2>1, DeciderIs
    <2>3. Active(w[1]) /\ MayHead(w[1]) /\ emp[w[1]].dept = w[4]
        BY <2>2 DEF MayDecide
    <2>4. w[4] # None
        BY <2>2, ReminderAssumption DEF Housed
    <2>5. item.stage = "PENDING_SUPERVISOR" /\ item.dept = w[4]
        BY <1>5
    <2>6. w[4] \in HeadDepts
        BY <2>1, <2>4, <2>5 DEF HeadDepts
    <2>7. IsHead(w[1])
        BY <2>3 DEF MayHead, IsHead
    <2> QED BY <2>2, <2>3, <2>6, <2>7
<1> HIDE DEF heads
<1>6. WatchOK'
    BY <1>1, <1>3, <1>4, <1>5 DEF WatchOK, HrRead, CeoRead
<1> QED BY <1>3, <1>6 DEF MailOK, WatchInv, RemindsStandingApprovers, ReadHeads

LEMMA SendWatch ==
    ASSUME TypeInv, MailOK, WatchInv, Send, Watching PROVE MailOK' /\ WatchInv'
<1> DEFINE sent == {<<p[1], p[2].r>> : p \in {q \in Users \X mail.pending :
                        q[1] \in Approvers(q[2]) /\ q[1] # OwnerOf[q[2].r]}}
<1>1. mail' = [mail EXCEPT !.phase = "sent", !.sent = sent] /\ mail.phase = "send"
    BY DEF Send
<1>2. mail.pending \subseteq Item
    BY DEF MailOK, Mail
<1>3. sent \in SUBSET (Users \X Requests)
    BY <1>2 DEF Item
<1>4. ASSUME NEW w \in watch, WatchOK PROVE <<w[1], w[2]>> \in sent
    <2> DEFINE item == [r |-> w[2], stage |-> w[3], dept |-> w[4]]
    <2>1. w \in Deciders /\ item \in mail.pending
        BY <1>4 DEF WatchOK
    <2>2. w[1] \in Users /\ MayDecide(w[1], w[2]) /\ w[3] = stage[w[2]]
        BY <2>1, DeciderIs
    <2>3. w[1] # OwnerOf[w[2]]
        BY <2>2 DEF MayDecide
    <2>4. w[3] \in {"PENDING_VERIFY", "PENDING_CANCELLATION", "PENDING_SUPERVISOR",
                    "PENDING_EXECUTIVE"}
        BY <2>2 DEF MayDecide
    <2>5. w[1] \in Approvers(item)
        <3>1. CASE w[3] \in {"PENDING_VERIFY", "PENDING_CANCELLATION"}
            BY <1>1, <1>4, <3>1 DEF WatchOK, HrRead, Approvers
        <3>2. CASE w[3] = "PENDING_EXECUTIVE"
            BY <1>1, <1>4, <3>2 DEF WatchOK, CeoRead, Approvers
        <3>3. CASE w[3] = "PENDING_SUPERVISOR"
            BY <1>1, <1>4, <2>2, <3>3 DEF WatchOK, Approvers
        <3> QED BY <2>4, <3>1, <3>2, <3>3
    <2>6. item.r = w[2]
        OBVIOUS
    <2> HIDE DEF item
    <2>7. <<w[1], item>> \in Users \X mail.pending
        BY <2>1, <2>2
    <2> QED BY <2>3, <2>5, <2>6, <2>7
<1> HIDE DEF sent
<1>5. mail'.phase = "sent" /\ mail'.sent = sent /\ mail' \in Mail
    BY <1>1, <1>3 DEF MailOK, Mail
<1>6. watch' = watch /\ WatchOK
    BY <1>1, <1>5, StillWatched DEF Send
<1> QED BY <1>4, <1>5, <1>6 DEF MailOK, WatchInv, RemindsStandingApprovers, Send

\* The job ends: nobody is watched.
LEMMA EndWatch ==
    ASSUME MailOK, MailFail \/ NextRun, Watching PROVE MailOK' /\ WatchInv'
<1>1. mail' = NoMail /\ UNCHANGED stage
    BY DEF MailFail, NextRun
<1>2. NoMail \in Mail /\ NoMail.phase = "idle"
    BY DEF NoMail, Mail
<1> QED BY <1>1, <1>2 DEF MailOK, WatchInv, RemindsStandingApprovers

LEMMA DecideWatch ==
    ASSUME MailOK, WatchInv, Watching, NEW u \in Users, NEW r \in Requests, Decide(u, r)
    PROVE  MailOK' /\ WatchInv'
<1>1. PICK s \in NextStages(stage[r]) : stage' = [stage EXCEPT ![r] = s]
    BY DEF Decide
<1>2. s \in Stages
    BY DEF NextStages, Stages
<1> QED BY <1>1, <1>2, SameMailWatch DEF MailOK, Decide

ReminderInv == TypeInv /\ Housed /\ MailOK /\ WatchInv

LEMMA ReminderInvKept ==
    ASSUME ReminderInv, [ReminderNext]_reminderVars PROVE ReminderInv'
<1>1. CASE UNCHANGED reminderVars
    <2>1. [Next]_accountVars /\ UNCHANGED <<accountVars, mail, stage, watch>>
        BY <1>1 DEF reminderVars, mailVars
    <2>2. TypeInv' /\ Housed'
        BY <2>1, StepType, HousedStep DEF ReminderInv
    <2>3. Deciders' = Deciders
        BY <2>1, SameDeciders
    <2> QED BY <2>1, <2>2, <2>3 DEF ReminderInv, MailOK, WatchInv, WatchOK, HrRead, CeoRead,
                                    RemindsStandingApprovers
<1>2. CASE MailStep /\ Watching
    <2>1. [Next]_accountVars
        BY <1>2 DEF MailStep, ReadPending, ReadHr, ReadCeo, ReadHeads, Send, MailFail, NextRun
    <2>2. TypeInv' /\ Housed'
        BY <2>1, StepType, HousedStep DEF ReminderInv
    <2> QED BY <1>2, <2>2, ReadPendingWatch, ReadHrWatch, ReadCeoWatch, ReadHeadsWatch, SendWatch,
               EndWatch DEF ReminderInv, MailStep
<1>3. ASSUME NEW u \in Users, NEW r \in Requests, Decide(u, r), Watching PROVE ReminderInv'
    <2>1. [Next]_accountVars
        BY <1>3 DEF Decide
    <2> QED BY <1>3, <2>1, StepType, HousedStep, DecideWatch DEF ReminderInv
<1>4. CASE Next /\ UNCHANGED <<stage, mail>> /\ Watching
    BY <1>4, StepType, HousedStep, SameMailWatch DEF ReminderInv, MailOK
<1> QED BY <1>1, <1>2, <1>3, <1>4 DEF ReminderNext

\* No order of the job's queries loses a standing approver, whatever the Admin
\* area, HR and the approvers do meanwhile, however handlers overlap
\* (sendPendingReminders).
THEOREM RemindsHolds == HousedAtStart => (ReminderSpec => []RemindsStandingApprovers)
<1> SUFFICES ASSUME HousedAtStart PROVE ReminderSpec => []RemindsStandingApprovers
    OBVIOUS
<1>1. ReminderInit => ReminderInv
    <2> SUFFICES ASSUME ReminderInit PROVE ReminderInv
        OBVIOUS
    <2>1. TypeInv
        BY InitType DEF ReminderInit
    <2>2. Housed
        BY DEF ReminderInit, Init, AccountInit, Housed, HousedAtStart
    <2>3. NoMail \in Mail /\ NoMail.phase = "idle"
        BY DEF NoMail, Mail
    <2>4. MailOK /\ WatchInv
        BY <2>3, ReminderAssumption
           DEF ReminderInit, MailOK, WatchInv, RemindsStandingApprovers
    <2> QED BY <2>1, <2>2, <2>4 DEF ReminderInv
<1>2. ReminderInv /\ [ReminderNext]_reminderVars => ReminderInv'
    BY ReminderInvKept
<1>3. ReminderInv => RemindsStandingApprovers
    BY DEF ReminderInv, WatchInv
<1> QED BY <1>1, <1>2, <1>3, PTL DEF ReminderSpec
=============================================================================
