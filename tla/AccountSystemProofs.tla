------------------------ MODULE AccountSystemProofs ------------------------
(***************************************************************************)
(* What holds of the accounts for every number of users, handlers,         *)
(* positions and captchas.                                                 *)
(***************************************************************************)
EXTENDS AccountSystem, TLAPS

-----------------------------------------------------------------------------
(* Types. *)

\* What a handler in flight has already made sure of.
Ready(t) ==
    /\ t.op = "login" =>
          /\ t.captcha \in Captchas
          /\ t.phase \in {"claim", "unlock", "check", "store"}
          /\ t.user = None => t.seen = None /\ t.phase \in {"claim", "check"}
          /\ t.user # None => t.seen \in Row
    /\ t.op \in {"refresh", "profile", "employee"} => t.user \in Users /\ t.seen \in Row
    /\ t.op \in {"suspend", "role", "status", "hire", "fire"} => t.user \in Users
    /\ t.op = "role" => t.role \in Roles
    /\ t.op = "hire" => t.form \in EmployeeForm /\ t.role \in Roles
                        /\ t.form.post # None /\ t.form.dept # None
    /\ t.op = "employee" => t.form \in EmployeeForm
    /\ t.op \in {"newpost", "position"} => t.post \in Positions /\ t.form \in PositionForm
    /\ t.op = "newpost" => t.form.role # "null"
    /\ t.op = "position" /\ t.holders # {} => t.form.role # None
    /\ t.phase \in {"target", "count"} => t.op \in {"suspend", "role"}

Handler == {t \in Task : Ready(t)}

Shapes ==
    /\ user \in [Users -> Row \cup {Unborn, Deleted}]
    /\ emp \in [Users -> [post : Positions, dept : Depts \cup {None}]]
    /\ post \in [Positions -> PositionRow]
    /\ captcha \in [Captchas -> {"none", "fresh", "claimed"}]
    /\ tokens \subseteq Token
    /\ links \subseteq Link /\ spent \subseteq links
    /\ misses \in [Users -> Nat]
    /\ byHand \subseteq Users
    /\ now \in Nat

TypeInv == Shapes /\ task \in [Workers -> Handler]

LEMMA TypeInvShape == TypeInv => AccountTypeOK
BY DEF TypeInv, Shapes, AccountTypeOK, Handler

LEMMA IdleType == Idle \in Handler
BY DEF Idle, Handler, Task, Ready, OpNames, Phases

\* A step of one handler that leaves it in order leaves all of them in order.
LEMMA TaskType ==
    ASSUME TypeInv, NEW w \in Workers, NEW t \in Handler, task' = [task EXCEPT ![w] = t]
    PROVE  task' \in [Workers -> Handler]
BY DEF TypeInv

LEMMA FinishType ==
    ASSUME TypeInv, NEW w \in Workers, Finish(w) PROVE task' \in [Workers -> Handler]
BY IdleType, TaskType DEF Finish

\* What is computed from a row is a row.
LEMMA UnlockedType ==
    ASSUME NEW row \in Row
    PROVE  /\ Unlocked(row) \in Row
           /\ Unlocked(row).role = row.role /\ Unlocked(row).version = row.version
           /\ Unlocked(row).refresh = row.refresh /\ Unlocked(row).active = row.active
<1> DEFINE r == [row EXCEPT !.attempts = 0, !.lock = None]
<1>1. r \in Row
    BY DEF Row
<1>2. r.role = row.role /\ r.version = row.version /\ r.refresh = row.refresh
      /\ r.active = row.active
    BY DEF Row
<1>3. Unlocked(row) = r
    BY DEF Unlocked
<1> QED BY <1>1, <1>2, <1>3

LEMMA SignedOutType ==
    ASSUME NEW row \in Row
    PROVE  /\ SignedOut(row) \in Row
           /\ SignedOut(row).role = row.role /\ SignedOut(row).version = row.version + 1
           /\ SignedOut(row).refresh = None
<1> DEFINE n == row.version + 1
           r == [row EXCEPT !.version = n, !.refresh = None]
<1>1. SignedOut(row) = r
    BY DEF SignedOut
<1>2. n \in Nat
    BY DEF Row
<1> HIDE DEF n
<1>3. r \in Row /\ r.role = row.role /\ r.version = n /\ r.refresh = None
    BY <1>2 DEF Row
<1> QED BY <1>1, <1>3 DEF n

LEMMA RoleChangedType ==
    ASSUME NEW row \in Row, NEW role \in Roles
    PROVE  /\ RoleChanged(row, role) \in Row
           /\ RoleChanged(row, role).version = row.version + 1
           /\ RoleChanged(row, role).refresh = None
BY SignedOutType DEF Row, RoleChanged

LEMMA NewRowType ==
    ASSUME NEW role \in Roles PROVE NewRow(role) \in Row /\ NewRow(role).refresh = None
BY DEF NewRow, Row

LEMMA TokenType ==
    ASSUME NEW u \in Users, NEW row \in Row
    PROVE  TokenOf(u, row) \in Token
BY DEF TokenOf, Token, Row

LEMMA LiveRow ==
    ASSUME TypeInv, NEW u \in Users, Live(u) PROVE user[u] \in Row
BY DEF TypeInv, Shapes, Live

LEMMA ImpliedRoleType ==
    ASSUME TypeInv, NEW p \in Positions, NEW current
    PROVE  ImpliedRole(p, current) \in Roles
<1>1. post[p].role \in Roles \cup {None}
    BY DEF TypeInv, Shapes, PositionRow
<1>2. RoleForPosition(p, current) \in Roles
    BY DEF RoleForPosition, Roles
<1> QED BY <1>1, <1>2 DEF ImpliedRole

-----------------------------------------------------------------------------
(* One step each: signing in and out. *)

LEMMA LoginCallType ==
    ASSUME TypeInv, NEW w \in Workers, NEW u \in Users \cup {None}, NEW c \in Captchas,
           LoginCall(w, u, c)
    PROVE  TypeInv'
<1> DEFINE t == LoginTask(u, IF u = None THEN None ELSE user[u], c)
<1>1. u # None => u \in Users /\ user[u] \in Row
    BY LiveRow DEF LoginCall
<1>2. t \in Handler
    BY <1>1 DEF LoginTask, Idle, Handler, Task, Ready, OpNames, Phases
<1>3. task' = [task EXCEPT ![w] = t]
    BY DEF LoginCall, Start
<1> HIDE DEF t
<1>4. task' \in [Workers -> Handler]
    BY <1>2, <1>3, TaskType
<1> QED BY <1>4 DEF LoginCall, TypeInv, Shapes, sessionVars, orgVars

LEMMA LoginClaimType ==
    ASSUME TypeInv, NEW w \in Workers, LoginClaim(w) PROVE TypeInv'
<1>1. task[w] \in Handler
    BY DEF TypeInv
<1>2. CASE Finish(w)
    BY <1>2, FinishType DEF LoginClaim, TypeInv, Shapes, orgVars
<1>3. CASE task' = [task EXCEPT ![w].phase = AfterClaim(task[w].seen)]
    <2> DEFINE t == [task[w] EXCEPT !.phase = AfterClaim(task[w].seen)]
    <2>1. t \in Handler
        BY <1>1 DEF LoginClaim, AfterClaim, Handler, Task, Ready, Phases
    <2>2. task' = [task EXCEPT ![w] = t]
        BY <1>3
    <2> HIDE DEF t
    <2>3. task' \in [Workers -> Handler]
        BY <2>1, <2>2, TaskType
    <2> QED BY <2>3 DEF LoginClaim, TypeInv, Shapes, orgVars
<1> QED BY <1>2, <1>3 DEF LoginClaim

LEMMA LoginUnlockType ==
    ASSUME TypeInv, NEW w \in Workers, LoginUnlock(w) PROVE TypeInv'
<1>1. task[w] \in Handler
    BY DEF TypeInv
<1> DEFINE u == task[w].user
           t == [task[w] EXCEPT !.phase = "check", !.seen = Unlocked(task[w].seen)]
<1>2. u \in Users /\ task[w].seen \in Row
    BY <1>1 DEF LoginUnlock, Handler, Task, Ready
<1>3. t \in Handler
    BY <1>1, <1>2, UnlockedType DEF LoginUnlock, Handler, Task, Ready, Phases
<1>4. task' = [task EXCEPT ![w] = t]
    BY DEF LoginUnlock
<1> HIDE DEF t
<1>5. task' \in [Workers -> Handler]
    BY <1>3, <1>4, TaskType
<1>6. user[u] \in Row /\ user' = [user EXCEPT ![u] = Unlocked(user[u])]
    BY <1>2, LiveRow DEF LoginUnlock
<1>7. user' \in [Users -> Row \cup {Unborn, Deleted}] /\ misses' \in [Users -> Nat]
    BY <1>2, <1>6, UnlockedType DEF LoginUnlock, TypeInv, Shapes
<1> QED BY <1>5, <1>7 DEF LoginUnlock, TypeInv, Shapes, orgVars

LEMMA LockAfterType ==
    ASSUME now \in Nat, NEW attempts \in Nat PROVE LockAfter(attempts) \in Nat \cup {None}
BY AccountAssumption DEF LockAfter

LEMMA WrongPasswordType ==
    ASSUME TypeInv, NEW w \in Workers, WrongPassword(w) PROVE TypeInv'
<1> DEFINE u == task[w].user
           n == task[w].seen.attempts + 1
           row == [user[u] EXCEPT !.attempts = n, !.lock = LockAfter(n)]
<1>1. task[w] \in Handler
    BY DEF TypeInv
<1>2. u \in Users /\ task[w].seen \in Row
    BY <1>1 DEF WrongPassword, Handler, Task, Ready
<1>3. n \in Nat
    BY <1>2 DEF Row
<1>4. LockAfter(n) \in Nat \cup {None}
    BY <1>3, LockAfterType DEF TypeInv, Shapes
<1>5. user[u] \in Row
    BY <1>2, LiveRow DEF WrongPassword
<1>6. row \in Row
    BY <1>3, <1>4, <1>5 DEF Row
<1>7. user' = [user EXCEPT ![u] = row]
    BY DEF WrongPassword
<1> HIDE DEF row
<1>8. user' \in [Users -> Row \cup {Unborn, Deleted}]
    BY <1>2, <1>6, <1>7 DEF TypeInv, Shapes
<1>9. misses' \in [Users -> Nat]
    <2>1. misses' = [misses EXCEPT ![u] = IF misses[u] < MaxAttempts THEN misses[u] + 1
                                          ELSE misses[u]]
        BY DEF WrongPassword
    <2> QED BY <1>2, <2>1 DEF TypeInv, Shapes
<1> QED BY <1>8, <1>9, FinishType DEF WrongPassword, TypeInv, Shapes, orgVars

LEMMA RightPasswordType ==
    ASSUME TypeInv, NEW w \in Workers, RightPassword(w) PROVE TypeInv'
<1> DEFINE u == task[w].user
           t == [task[w] EXCEPT !.phase = "store"]
<1>1. task[w] \in Handler
    BY DEF TypeInv
<1>2. u \in Users
    BY <1>1 DEF RightPassword, Handler, Task
<1>3. t \in Handler
    BY <1>1, <1>2 DEF RightPassword, Handler, Task, Ready, Phases
<1>4. task' = [task EXCEPT ![w] = t]
    BY DEF RightPassword
<1> HIDE DEF t
<1>5. task' \in [Workers -> Handler]
    BY <1>3, <1>4, TaskType
<1>6. user[u] \in Row /\ user' = [user EXCEPT ![u] = Unlocked(user[u])]
    BY <1>2, LiveRow DEF RightPassword
<1>7. user' \in [Users -> Row \cup {Unborn, Deleted}] /\ misses' \in [Users -> Nat]
    BY <1>2, <1>6, UnlockedType DEF RightPassword, TypeInv, Shapes
<1> QED BY <1>5, <1>7 DEF RightPassword, TypeInv, Shapes, orgVars

LEMMA StoreTokensType ==
    ASSUME TypeInv, NEW w \in Workers, StoreTokens(w) PROVE TypeInv'
<1> DEFINE u == task[w].user
           token == TokenOf(u, task[w].seen)
           row == [user[u] EXCEPT !.refresh = token]
<1>1. task[w] \in Handler
    BY DEF TypeInv
<1>2. u \in Users /\ task[w].seen \in Row
    BY <1>1 DEF StoreTokens, Handler, Task, Ready
<1>3. token \in Token /\ user[u] \in Row
    BY <1>2, LiveRow, TokenType DEF StoreTokens
<1>4. user' = [user EXCEPT ![u] = row] /\ tokens' = tokens \cup {token}
    BY DEF StoreTokens
<1> HIDE DEF token
<1>5. row \in Row
    BY <1>3 DEF Row
<1> HIDE DEF row
<1>6. user' \in [Users -> Row \cup {Unborn, Deleted}] /\ tokens' \subseteq Token
    BY <1>2, <1>3, <1>4, <1>5 DEF TypeInv, Shapes
<1> QED BY <1>6, FinishType DEF StoreTokens, TypeInv, Shapes, orgVars

LEMMA ProfileWriteType ==
    ASSUME TypeInv, NEW w \in Workers, ProfileWrite(w) PROVE TypeInv'
<1> DEFINE u == task[w].user
           n == task[w].seen.version + 1
           token == [user |-> u, role |-> task[w].seen.role, version |-> n]
           row == [user[u] EXCEPT !.version = token.version, !.refresh = token]
<1>1. task[w] \in Handler
    BY DEF TypeInv
<1>2. u \in Users /\ task[w].seen \in Row
    BY <1>1 DEF ProfileWrite, Handler, Task, Ready
<1>3. n \in Nat /\ task[w].seen.role \in Roles /\ user[u] \in Row
    BY <1>2, LiveRow DEF ProfileWrite, Row
<1>4. user' = [user EXCEPT ![u] = row] /\ tokens' = tokens \cup {token}
    BY DEF ProfileWrite
<1> HIDE DEF n
<1>5. token \in Token /\ token.version \in Nat
    BY <1>2, <1>3 DEF Token
<1> HIDE DEF token
<1>6. row \in Row
    BY <1>3, <1>5 DEF Row
<1> HIDE DEF row
<1>7. user' \in [Users -> Row \cup {Unborn, Deleted}] /\ tokens' \subseteq Token
    BY <1>2, <1>4, <1>5, <1>6 DEF TypeInv, Shapes
<1> QED BY <1>7, FinishType DEF ProfileWrite, TypeInv, Shapes, orgVars

LEMMA SessionCallType ==
    ASSUME TypeInv, NEW w \in Workers, SessionCall(w) PROVE TypeInv'
<1>1. ASSUME NEW u \in Users, ProfileCall(w, u) PROVE TypeInv'
    <2> DEFINE t == [Idle EXCEPT !.op = "profile", !.phase = "write", !.user = u,
                                 !.seen = user[u]]
    <2>1. user[u] \in Row
        BY <1>1, LiveRow DEF ProfileCall, SignedIn, Accepted
    <2>2. t \in Handler
        BY <2>1 DEF Idle, Handler, Task, Ready, OpNames, Phases
    <2>3. task' = [task EXCEPT ![w] = t]
        BY <1>1 DEF ProfileCall, Start
    <2> HIDE DEF t
    <2>4. task' \in [Workers -> Handler]
        BY <2>2, <2>3, TaskType
    <2> QED BY <1>1, <2>4 DEF ProfileCall, TypeInv, Shapes, sessionVars, orgVars
<1>2. ASSUME NEW t \in tokens, RefreshCall(w, t) PROVE TypeInv'
    <2> DEFINE x == [Idle EXCEPT !.op = "refresh", !.phase = "store", !.user = t.user,
                                 !.seen = user[t.user]]
    <2>1. t.user \in Users
        BY DEF TypeInv, Shapes, Token
    <2>2. user[t.user] \in Row
        BY <1>2, <2>1, LiveRow DEF RefreshCall
    <2>3. x \in Handler
        BY <2>1, <2>2 DEF Idle, Handler, Task, Ready, OpNames, Phases
    <2>4. task' = [task EXCEPT ![w] = x]
        BY <1>2 DEF RefreshCall, Start
    <2> HIDE DEF x
    <2>5. task' \in [Workers -> Handler]
        BY <2>3, <2>4, TaskType
    <2> QED BY <1>2, <2>5 DEF RefreshCall, TypeInv, Shapes, sessionVars, orgVars
<1> QED BY <1>1, <1>2, LoginCallType DEF SessionCall

LEMMA SessionStepType ==
    ASSUME TypeInv, NEW w \in Workers, SessionStep(w) PROVE TypeInv'
<1>1. CASE LoginSuspended(w)
    BY <1>1, FinishType DEF LoginSuspended, TypeInv, Shapes, sessionVars, orgVars
<1>2. CASE LoginUnknown(w)
    BY <1>2, FinishType DEF LoginUnknown, TypeInv, Shapes, sessionVars, orgVars
<1> QED BY <1>1, <1>2, LoginClaimType, LoginUnlockType, WrongPasswordType,
           RightPasswordType, StoreTokensType, ProfileWriteType DEF SessionStep

-----------------------------------------------------------------------------
(* One step each: the Admin area. *)

\* One row is written, and nothing else the types depend on.
LEMMA RowType ==
    ASSUME TypeInv, NEW u \in Users, NEW row \in Row \cup {Deleted},
           user' = [user EXCEPT ![u] = row]
    PROVE  user' \in [Users -> Row \cup {Unborn, Deleted}]
BY DEF TypeInv, Shapes

LEMMA AdminCallType ==
    ASSUME TypeInv, NEW w \in Workers, AdminCall(w) PROVE TypeInv'
<1>1. ASSUME NEW a \in Users, NEW u \in Users, SuspendCall(w, a, u) PROVE TypeInv'
    <2> DEFINE t == [Idle EXCEPT !.op = "suspend", !.phase = "target", !.user = u]
    <2>1. t \in Handler
        BY DEF Idle, Handler, Task, Ready, OpNames, Phases
    <2>2. task' = [task EXCEPT ![w] = t]
        BY <1>1 DEF SuspendCall, Start
    <2> HIDE DEF t
    <2>3. task' \in [Workers -> Handler]
        BY <2>1, <2>2, TaskType
    <2> QED BY <1>1, <2>3 DEF SuspendCall, TypeInv, Shapes, sessionVars, orgVars
<1>2. ASSUME NEW a \in Users, NEW u \in Users, NEW role \in RoleForms, RoleCall(w, a, u, role)
      PROVE  TypeInv'
    <2> DEFINE phase == IF role = "Admin" THEN "write" ELSE "target"
               t == [Idle EXCEPT !.op = "role", !.user = u, !.role = role, !.phase = phase]
    <2>1. task' = [task EXCEPT ![w] = t]
        BY <1>2 DEF RoleCall, Start
    <2>2. role \in Roles /\ phase \in {"write", "target"}
        BY AccountAssumption
    <2> HIDE DEF phase
    <2>3. t \in Handler
        BY <2>2 DEF Idle, Handler, Task, Ready, OpNames, Phases
    <2> HIDE DEF t
    <2>4. task' \in [Workers -> Handler]
        BY <2>1, <2>3, TaskType
    <2> QED BY <1>2, <2>4 DEF RoleCall, TypeInv, Shapes, sessionVars, orgVars
<1> QED BY <1>1, <1>2 DEF AdminCall

LEMMA PhaseType ==
    ASSUME TypeInv, NEW w \in Workers, NEW phase \in {"count", "write"},
           task[w].op \in {"suspend", "role"}, task' = [task EXCEPT ![w].phase = phase]
    PROVE  task' \in [Workers -> Handler]
<1> DEFINE t == [task[w] EXCEPT !.phase = phase]
<1>1. t \in Handler
    BY DEF TypeInv, Handler, Task, Ready, Phases
<1>2. task' = [task EXCEPT ![w] = t]
    OBVIOUS
<1> HIDE DEF t
<1> QED BY <1>1, <1>2, TaskType

LEMMA SuspendWriteType ==
    ASSUME TypeInv, NEW w \in Workers, SuspendWrite(w) PROVE TypeInv'
<1> DEFINE u == task[w].user
           out == SignedOut(user[u])
           row == [out EXCEPT !.active = FALSE]
<1>1. u \in Users
    BY DEF SuspendWrite, TypeInv, Handler, Ready
<1>2. user' = [user EXCEPT ![u] = row]
    BY DEF SuspendWrite
<1>3. out \in Row
    BY <1>1, LiveRow, SignedOutType DEF SuspendWrite
<1> HIDE DEF out
<1>4. row \in Row
    BY <1>3 DEF Row
<1> HIDE DEF row
<1>5. user' \in [Users -> Row \cup {Unborn, Deleted}]
    BY <1>1, <1>2, <1>4, RowType
<1> QED BY <1>5, FinishType DEF SuspendWrite, TypeInv, Shapes, sessionVars, orgVars

LEMMA RoleWriteType ==
    ASSUME TypeInv, NEW w \in Workers, RoleWrite(w) PROVE TypeInv'
<1> DEFINE u == task[w].user
           row == RoleChanged(user[u], task[w].role)
<1>1. u \in Users /\ task[w].role \in Roles
    BY DEF RoleWrite, TypeInv, Handler, Ready
<1>2. user' = [user EXCEPT ![u] = row]
    BY DEF RoleWrite
<1>3. row \in Row
    BY <1>1, LiveRow, RoleChangedType DEF RoleWrite
<1> HIDE DEF row
<1>4. user' \in [Users -> Row \cup {Unborn, Deleted}]
    BY <1>1, <1>2, <1>3, RowType
<1> QED BY <1>1, <1>4, FinishType DEF RoleWrite, TypeInv, Shapes, sessionVars

LEMMA AdminStepType ==
    ASSUME TypeInv, NEW w \in Workers, AdminStep(w) PROVE TypeInv'
<1>1. CASE ReadTarget(w)
    <2>1. task[w].op \in {"suspend", "role"}
        BY <1>1 DEF ReadTarget, TypeInv, Handler, Ready
    <2>2. task' \in [Workers -> Handler]
        BY <1>1, <2>1, PhaseType DEF ReadTarget
    <2> QED BY <1>1, <2>2 DEF ReadTarget, TypeInv, Shapes, sessionVars, orgVars
<1>2. CASE CountAdmins(w)
    <2>1. task[w].op \in {"suspend", "role"}
        BY <1>2 DEF CountAdmins, TypeInv, Handler, Ready
    <2>2. task' \in [Workers -> Handler]
        BY <1>2, <2>1, PhaseType, FinishType DEF CountAdmins
    <2> QED BY <1>2, <2>2 DEF CountAdmins, TypeInv, Shapes, sessionVars, orgVars
<1> QED BY <1>1, <1>2, SuspendWriteType, RoleWriteType DEF AdminStep

LEMMA StatementType ==
    ASSUME TypeInv, SessionStatement \/ AdminStatement PROVE TypeInv'
<1>1. ASSUME NEW c \in Captchas, GenerateCaptcha(c) \/ PurgeCaptcha(c) PROVE TypeInv'
    BY <1>1 DEF GenerateCaptcha, PurgeCaptcha, TypeInv, Shapes, orgVars
<1>2. ASSUME NEW u \in Users, ForgotPassword(u) PROVE TypeInv'
    <2>1. [user |-> u, version |-> user[u].version] \in Link
        BY <1>2, LiveRow DEF ForgotPassword, Link, Row
    <2> QED BY <1>2, <2>1 DEF ForgotPassword, TypeInv, Shapes, orgVars
<1>3. ASSUME NEW u \in Users, Live(u), user' = [user EXCEPT ![u] = SignedOut(user[u])],
             UNCHANGED <<sessionVars, orgVars, now, task>>
      PROVE  TypeInv'
    <2>1. user' \in [Users -> Row \cup {Unborn, Deleted}]
        BY <1>3, LiveRow, SignedOutType, RowType
    <2> QED BY <1>3, <2>1 DEF TypeInv, Shapes, sessionVars, orgVars
<1>4. ASSUME NEW u \in Users, Logout(u) PROVE TypeInv'
    BY <1>3, <1>4 DEF Logout, SignedIn, Accepted
<1>5. ASSUME NEW a \in Users, NEW u \in Users, ForceLogout(a, u) PROVE TypeInv'
    BY <1>3, <1>5 DEF ForceLogout, ByAdmin
<1>6. ASSUME NEW l \in links, ResetPassword(l) PROVE TypeInv'
    <2>1. l.user \in Users
        BY DEF TypeInv, Shapes, Link
    <2>2. user' = [user EXCEPT ![l.user] = SignedOut(user[l.user])]
        BY <1>6 DEF ResetPassword, PasswordReset
    <2>3. user' \in [Users -> Row \cup {Unborn, Deleted}]
        BY <1>6, <2>1, <2>2, LiveRow, SignedOutType, RowType DEF ResetPassword, LinkMatches
    <2> QED BY <1>6, <2>3 DEF ResetPassword, TypeInv, Shapes, orgVars
<1>7. ASSUME NEW a \in Users, NEW u \in Users, Activate(a, u) PROVE TypeInv'
    <2> DEFINE free == Unlocked(user[u])
               row == [free EXCEPT !.active = TRUE]
    <2>1. user' = [user EXCEPT ![u] = row]
        BY <1>7 DEF Activate
    <2>2. free \in Row
        BY <1>7, LiveRow, UnlockedType DEF Activate, ByAdmin
    <2> HIDE DEF free
    <2>3. row \in Row
        BY <2>2 DEF Row
    <2> HIDE DEF row
    <2>4. user' \in [Users -> Row \cup {Unborn, Deleted}]
        BY <2>1, <2>3, RowType
    <2> QED BY <1>7, <2>4 DEF Activate, TypeInv, Shapes, orgVars
<1>8. ASSUME NEW a \in Users, NEW u \in Users, TempPassword(a, u) PROVE TypeInv'
    <2>1. user' = [user EXCEPT ![u] = Unlocked(SignedOut(user[u]))]
        BY <1>8 DEF TempPassword
    <2>2. Unlocked(SignedOut(user[u])) \in Row
        BY <1>8, LiveRow, SignedOutType, UnlockedType DEF TempPassword, ByAdmin
    <2>3. user' \in [Users -> Row \cup {Unborn, Deleted}]
        BY <2>1, <2>2, RowType
    <2> QED BY <1>8, <2>3 DEF TempPassword, TypeInv, Shapes, orgVars
<1> QED BY <1>1, <1>2, <1>4, <1>5, <1>6, <1>7, <1>8 DEF SessionStatement, AdminStatement

-----------------------------------------------------------------------------
(* One step each: HR. *)

LEMMA EmployeeFormType ==
    ASSUME NEW form \in EmployeeForms
    PROVE  /\ form \in EmployeeForm /\ form.post \in Positions \cup {None}
           /\ form.role \in Roles \cup {None} /\ form.dept \in Depts \cup {None}
BY AccountAssumption DEF EmployeeForm

LEMMA PositionFormType ==
    ASSUME NEW form \in PositionForms
    PROVE  /\ form \in PositionForm /\ form.role \in Roles \cup {"null", None}
           /\ form.dept \in Depts \cup {None}
BY AccountAssumption DEF PositionForm

LEMMA StatusCallType ==
    ASSUME TypeInv, NEW w \in Workers, NEW u \in Users, NEW on \in BOOLEAN, StatusCall(w, u, on)
    PROVE  TypeInv'
<1> DEFINE t == [Idle EXCEPT !.op = "status", !.phase = "write", !.user = u, !.on = on]
<1>1. t \in Handler
    BY DEF Idle, Handler, Task, Ready, OpNames, Phases
<1>2. task' = [task EXCEPT ![w] = t]
    BY DEF StatusCall, Start
<1> HIDE DEF t
<1>3. task' \in [Workers -> Handler]
    BY <1>1, <1>2, TaskType
<1> QED BY <1>3 DEF StatusCall, TypeInv, Shapes, sessionVars, orgVars

LEMMA EmployeeBeginType ==
    ASSUME TypeInv, NEW w \in Workers, NEW u \in Users, NEW form \in EmployeeForms,
           EmployeeBegin(w, u, form)
    PROVE  TypeInv'
<1> DEFINE role == RoleAskedFor(u, form)
           on == Moves(u, form)
           t == [Idle EXCEPT !.op = "employee", !.phase = "tx", !.user = u,
                             !.seen = user[u], !.form = form, !.role = role, !.on = on]
<1>1. task' = [task EXCEPT ![w] = t]
    BY DEF EmployeeBegin, Start
<1>2. user[u] \in Row
    BY LiveRow DEF EmployeeBegin
<1>3. role \in Roles \cup {None} /\ on \in BOOLEAN
    <2>1. on => form.post \in Positions
        BY EmployeeFormType DEF Moves
    <2> QED BY <2>1, ImpliedRoleType, EmployeeFormType DEF RoleAskedFor, Moves
<1> HIDE DEF role, on
<1>4. t \in Handler
    BY <1>2, <1>3, EmployeeFormType DEF Idle, Handler, Task, Ready, OpNames, Phases
<1> HIDE DEF t
<1>5. task' \in [Workers -> Handler]
    BY <1>1, <1>4, TaskType
<1> QED BY <1>5 DEF EmployeeBegin, TypeInv, Shapes, sessionVars, orgVars

LEMMA HireCallType ==
    ASSUME TypeInv, NEW w \in Workers, NEW u \in Users, NEW form \in EmployeeForms,
           HireCall(w, u, form)
    PROVE  TypeInv'
<1> DEFINE role == ImpliedRole(form.post, form.role)
           t == [Idle EXCEPT !.op = "hire", !.phase = "tx", !.user = u, !.form = form,
                             !.role = role]
<1>1. task' = [task EXCEPT ![w] = t]
    BY DEF HireCall, Start
<1>2. role \in Roles
    BY EmployeeFormType, ImpliedRoleType DEF HireCall
<1> HIDE DEF role
<1>3. t \in Handler
    BY <1>2, EmployeeFormType DEF HireCall, Idle, Handler, Task, Ready, OpNames, Phases
<1> HIDE DEF t
<1>4. task' \in [Workers -> Handler]
    BY <1>1, <1>3, TaskType
<1> QED BY <1>4 DEF HireCall, TypeInv, Shapes, sessionVars, orgVars

LEMMA FireCallType ==
    ASSUME TypeInv, NEW w \in Workers, NEW u \in Users, FireCall(w, u) PROVE TypeInv'
<1> DEFINE t == [Idle EXCEPT !.op = "fire", !.phase = "tx", !.user = u]
<1>1. t \in Handler
    BY DEF Idle, Handler, Task, Ready, OpNames, Phases
<1>2. task' = [task EXCEPT ![w] = t]
    BY DEF FireCall, Start
<1> HIDE DEF t
<1>3. task' \in [Workers -> Handler]
    BY <1>1, <1>2, TaskType
<1> QED BY <1>3 DEF FireCall, TypeInv, Shapes, sessionVars, orgVars

LEMMA NewPostCallType ==
    ASSUME TypeInv, NEW w \in Workers, NEW p \in Positions, NEW form \in PositionForms,
           NewPostCall(w, p, form)
    PROVE  TypeInv'
<1> DEFINE t == [Idle EXCEPT !.op = "newpost", !.phase = "write", !.post = p, !.form = form]
<1>1. t \in Handler
    BY PositionFormType DEF NewPostCall, Idle, Handler, Task, Ready, OpNames, Phases
<1>2. task' = [task EXCEPT ![w] = t]
    BY DEF NewPostCall, Start
<1> HIDE DEF t
<1>3. task' \in [Workers -> Handler]
    BY <1>1, <1>2, TaskType
<1> QED BY <1>3 DEF NewPostCall, TypeInv, Shapes, sessionVars, orgVars

LEMMA PositionBeginType ==
    ASSUME TypeInv, NEW w \in Workers, NEW p \in Positions, NEW form \in PositionForms,
           PositionBegin(w, p, form)
    PROVE  TypeInv'
<1> DEFINE holders == IF form.role = None THEN {}
                      ELSE {u \in Holders(p) : user[u].role # CascadedRole(form)}
           t == [Idle EXCEPT !.op = "position", !.phase = "tx", !.post = p, !.form = form,
                             !.holders = holders]
<1>1. task' = [task EXCEPT ![w] = t]
    BY DEF PositionBegin, Start
<1>2. holders \subseteq Users /\ (holders # {} => form.role # None)
    BY DEF Holders
<1> HIDE DEF holders
<1>3. t \in Handler
    BY <1>2, PositionFormType DEF Idle, Handler, Task, Ready, OpNames, Phases
<1> HIDE DEF t
<1>4. task' \in [Workers -> Handler]
    BY <1>1, <1>3, TaskType
<1> QED BY <1>4 DEF PositionBegin, TypeInv, Shapes, sessionVars, orgVars

LEMMA StaffCallType ==
    ASSUME TypeInv, NEW w \in Workers, StaffCall(w) PROVE TypeInv'
BY StatusCallType, EmployeeBeginType, HireCallType, FireCallType, NewPostCallType,
   PositionBeginType DEF StaffCall

LEMMA StatusWriteType ==
    ASSUME TypeInv, NEW w \in Workers, StatusWrite(w) PROVE TypeInv'
<1> DEFINE u == task[w].user
           on == task[w].on
           refresh == IF on THEN user[u].refresh ELSE None
           row == [user[u] EXCEPT !.active = on, !.refresh = refresh]
<1>1. u \in Users /\ on \in BOOLEAN
    BY DEF StatusWrite, TypeInv, Handler, Task, Ready
<1>2. user' = [user EXCEPT ![u] = row]
    BY DEF StatusWrite
<1>3. user[u] \in Row
    BY <1>1, LiveRow DEF StatusWrite
<1>4. refresh \in Token \cup {None}
    BY <1>3 DEF Row
<1> HIDE DEF on, refresh
<1>5. row \in Row
    BY <1>1, <1>3, <1>4 DEF Row
<1> HIDE DEF row
<1>6. user' \in [Users -> Row \cup {Unborn, Deleted}]
    BY <1>1, <1>2, <1>5, RowType
<1> QED BY <1>6, FinishType DEF StatusWrite, TypeInv, Shapes, sessionVars, orgVars

LEMMA EmployeeCommitType ==
    ASSUME TypeInv, NEW w \in Workers, EmployeeCommit(w) PROVE TypeInv'
<1> DEFINE t == task[w]
           u == t.user
<1>1. t \in Task /\ u \in Users /\ t.form \in EmployeeForm /\ t.role \in Roles \cup {None}
    BY DEF EmployeeCommit, TypeInv, Handler, Task, Ready
<1>2. user' \in [Users -> Row \cup {Unborn, Deleted}]
    <2>1. CASE UNCHANGED user
        BY <2>1 DEF TypeInv, Shapes
    <2>2. CASE t.role # None /\ user' = [user EXCEPT ![u] = RoleChanged(user[u], t.role)]
        <3> DEFINE row == RoleChanged(user[u], t.role)
        <3>1. t.role \in Roles /\ user[u] \in Row
            BY <1>1, <2>2, LiveRow DEF EmployeeCommit
        <3>2. row \in Row
            BY <3>1, RoleChangedType
        <3> HIDE DEF row
        <3> QED BY <1>1, <2>2, <3>2, RowType DEF row
    <2> QED BY <2>1, <2>2 DEF EmployeeCommit
<1>3. emp' \in [Users -> [post : Positions, dept : Depts \cup {None}]]
    <2> DEFINE p == IF t.form.post = None THEN emp[u].post ELSE t.form.post
               d == IF t.form.dept = None THEN emp[u].dept ELSE t.form.dept
    <2>1. emp' = [emp EXCEPT ![u] = [post |-> p, dept |-> d]]
        BY DEF EmployeeCommit
    <2>2. p \in Positions /\ d \in Depts \cup {None}
        BY <1>1 DEF TypeInv, Shapes, EmployeeForm
    <2> HIDE DEF p, d
    <2> QED BY <1>1, <2>1, <2>2 DEF TypeInv, Shapes
<1>4. byHand' \subseteq Users
    BY <1>1 DEF EmployeeCommit, TypeInv, Shapes
<1> QED BY <1>2, <1>3, <1>4, FinishType DEF EmployeeCommit, TypeInv, Shapes, sessionVars

LEMMA HireCommitType ==
    ASSUME TypeInv, NEW w \in Workers, HireCommit(w) PROVE TypeInv'
<1> DEFINE t == task[w]
           u == t.user
<1>1. u \in Users /\ t.role \in Roles /\ t.form.post \in Positions /\ t.form.dept \in Depts
    BY DEF HireCommit, TypeInv, Handler, Task, Ready, EmployeeForm
<1>2. user' \in [Users -> Row \cup {Unborn, Deleted}]
    BY <1>1, NewRowType, RowType DEF HireCommit
<1>3. emp' \in [Users -> [post : Positions, dept : Depts \cup {None}]]
    BY <1>1 DEF HireCommit, TypeInv, Shapes
<1> QED BY <1>2, <1>3, FinishType DEF HireCommit, TypeInv, Shapes, sessionVars

LEMMA FireCommitType ==
    ASSUME TypeInv, NEW w \in Workers, FireCommit(w) PROVE TypeInv'
<1>1. task[w].user \in Users
    BY DEF FireCommit, TypeInv, Handler, Ready
<1>2. user' \in [Users -> Row \cup {Unborn, Deleted}]
    BY <1>1, RowType DEF FireCommit
<1> QED BY <1>2, FinishType DEF FireCommit, TypeInv, Shapes, sessionVars, orgVars

LEMMA NewPostWriteType ==
    ASSUME TypeInv, NEW w \in Workers, NewPostWrite(w) PROVE TypeInv'
<1> DEFINE t == task[w]
           row == [dept |-> t.form.dept, role |-> t.form.role, exists |-> TRUE]
<1>1. t.post \in Positions /\ t.form \in PositionForm /\ t.form.role # "null"
    BY DEF NewPostWrite, TypeInv, Handler, Ready
<1>2. row \in PositionRow
    BY <1>1 DEF PositionForm, PositionRow
<1>3. post' = [post EXCEPT ![t.post] = row]
    BY DEF NewPostWrite
<1> HIDE DEF row
<1>4. post' \in [Positions -> PositionRow]
    BY <1>1, <1>2, <1>3 DEF TypeInv, Shapes
<1> QED BY <1>4, FinishType DEF NewPostWrite, TypeInv, Shapes, sessionVars

LEMMA CascadedRoleType ==
    ASSUME NEW form \in PositionForm, form.role # None PROVE CascadedRole(form) \in Roles
BY DEF CascadedRole, PositionForm, Roles

LEMMA PositionCommitType ==
    ASSUME TypeInv, NEW w \in Workers, PositionCommit(w) PROVE TypeInv'
<1> DEFINE t == task[w]
           form == t.form
           role == CascadedRole(form)
           dept == IF form.dept = None THEN post[t.post].dept ELSE form.dept
           own == CASE form.role = None -> post[t.post].role [] form.role = "null" -> None
                    [] OTHER -> form.role
           row == [post[t.post] EXCEPT !.dept = dept, !.role = own]
<1>1. /\ t.post \in Positions /\ form \in PositionForm /\ t.holders \subseteq Users
      /\ t.holders # {} => form.role # None
    BY DEF PositionCommit, TypeInv, Handler, Task, Ready
<1>2. /\ form.dept \in Depts \cup {None} /\ form.role \in Roles \cup {"null", None}
      /\ post[t.post] \in PositionRow
      /\ post[t.post].dept \in Depts \cup {None} /\ post[t.post].role \in Roles \cup {None}
    BY <1>1 DEF PositionForm, TypeInv, Shapes, PositionRow
<1>3. user' \in [Users -> Row \cup {Unborn, Deleted}]
    <2>1. user' = [u \in Users |-> IF u \in t.holders THEN RoleChanged(user[u], role) ELSE user[u]]
        BY DEF PositionCommit
    <2>2. ASSUME NEW u \in t.holders PROVE RoleChanged(user[u], role) \in Row
        <3>1. Live(u) /\ u \in Users /\ role \in Roles
            BY <1>1, CascadedRoleType DEF PositionCommit
        <3> QED BY <3>1, LiveRow, RoleChangedType
    <2> HIDE DEF role
    <2> QED BY <2>1, <2>2 DEF TypeInv, Shapes
<1>4. post' \in [Positions -> PositionRow]
    <2>1. post' = [post EXCEPT ![t.post].dept = dept, ![t.post].role = own]
        BY DEF PositionCommit
    <2>2. dept \in Depts \cup {None} /\ own \in Roles \cup {None}
        BY <1>2
    <2> HIDE DEF dept, own
    <2>3. post' = [post EXCEPT ![t.post] = row]
        BY <2>1
    <2>4. row \in PositionRow
        BY <1>2, <2>2 DEF PositionRow
    <2> HIDE DEF row
    <2> QED BY <1>1, <2>3, <2>4 DEF TypeInv, Shapes
<1>5. emp' \in [Users -> [post : Positions, dept : Depts \cup {None}]]
    <2> DEFINE moved(u) == [emp[u] EXCEPT !.dept = form.dept]
    <2>1. ASSUME NEW u \in Users PROVE moved(u) \in [post : Positions, dept : Depts \cup {None}]
        BY <1>2 DEF TypeInv, Shapes
    <2>2. emp' = [u \in Users |-> IF form.dept # None /\ u \in Holders(t.post)
                                  THEN moved(u) ELSE emp[u]]
        BY DEF PositionCommit
    <2> HIDE DEF moved
    <2> QED BY <2>1, <2>2 DEF TypeInv, Shapes
<1>6. byHand' \subseteq Users
    BY DEF PositionCommit, TypeInv, Shapes
<1> QED BY <1>3, <1>4, <1>5, <1>6, FinishType DEF PositionCommit, TypeInv, Shapes, sessionVars

LEMMA StaffStepType ==
    ASSUME TypeInv, NEW w \in Workers, StaffStep(w) PROVE TypeInv'
BY StatusWriteType, EmployeeCommitType, HireCommitType, FireCommitType, NewPostWriteType,
   PositionCommitType DEF StaffStep

-----------------------------------------------------------------------------
(* All steps. *)

LEMMA StepType == TypeInv /\ [Next]_accountVars => TypeInv'
<1> SUFFICES ASSUME TypeInv, [Next]_accountVars PROVE TypeInv'
    OBVIOUS
<1>1. CASE UNCHANGED accountVars
    BY <1>1 DEF accountVars, TypeInv, Shapes
<1>2. ASSUME NEW w \in Workers, Fail(w) PROVE TypeInv'
    BY <1>2, FinishType DEF Fail, TypeInv, Shapes, sessionVars, orgVars
<1>3. CASE Tick
    BY <1>3 DEF Tick, TypeInv, Shapes, sessionVars, orgVars
<1> QED BY <1>1, <1>2, <1>3, SessionCallType, SessionStepType, AdminCallType, AdminStepType,
           StaffCallType, StaffStepType, StatementType DEF Next, Call, Step, Statement

LEMMA RowAtStartType ==
    ASSUME NEW u \in Users
    PROVE  /\ RowAtStart(u) \in Row \cup {Unborn}
           /\ RoleAtStart[u] # None => RowAtStart(u) \in Row
                  /\ RowAtStart(u).refresh = TokenOf(u, RowAtStart(u))
<1> DEFINE row == NewRow(RoleAtStart[u])
           token == TokenOf(u, row)
           in == [row EXCEPT !.refresh = token]
<1>1. CASE RoleAtStart[u] = None
    BY <1>1 DEF RowAtStart
<1>2. CASE RoleAtStart[u] # None
    <2>1. RoleAtStart[u] \in Roles
        BY <1>2, AccountAssumption
    <2>2. row \in Row
        BY <2>1, NewRowType
    <2>3. token \in Token
        BY <2>2, TokenType
    <2>4. RowAtStart(u) = in
        BY <1>2 DEF RowAtStart
    <2> HIDE DEF row
    <2>5. TokenOf(u, in) = token
        BY <2>2 DEF TokenOf, Row
    <2> HIDE DEF token
    <2>6. in \in Row /\ in.refresh = token
        BY <2>2, <2>3 DEF Row
    <2> QED BY <2>4, <2>5, <2>6
<1> QED BY <1>1, <1>2

LEMMA InitType == Init => TypeInv
<1> SUFFICES ASSUME Init PROVE TypeInv
    OBVIOUS
<1>1. user \in [Users -> Row \cup {Unborn, Deleted}]
    BY RowAtStartType DEF Init, AccountInit
<1>2. \A u \in Users : WorksAs[u] \in Positions /\ PostAtStart[WorksAs[u]].dept \in Depts \cup {None}
    BY AccountAssumption DEF PositionRow
<1>3. tokens \subseteq Token
    BY RowAtStartType, TokenType DEF Init, AccountInit
<1>4. task \in [Workers -> Handler]
    BY IdleType DEF Init, AccountInit
<1> QED BY <1>1, <1>2, <1>3, <1>4, AccountAssumption DEF Init, AccountInit, TypeInv, Shapes

\* Rows, tokens, links and handlers keep the shape the schema and the code give
\* them, for any number of users, positions and handlers in flight.
THEOREM AccountTypeCorrect == Spec => []AccountTypeOK
<1>1. Spec => []TypeInv
    BY InitType, StepType, PTL DEF Spec
<1> QED BY <1>1, TypeInvShape, PTL

-----------------------------------------------------------------------------
(* Sessions, when a login, a refresh or a change of the password overlaps    *)
(* nothing on its account.                                                   *)

SessionOps == {"login", "refresh", "profile"}

\* The cascade of a position works on accounts it does not name, so it counts
\* as an overlap.
Undisturbed == SessionOps \subseteq Exclusive /\ "position" \notin Ops

\* The handlers of sessions are alone on their accounts.
Alone ==
    \A v, w \in Workers :
        v # w /\ Busy(w) /\ task[v].op \in SessionOps /\ task[v].user = task[w].user =>
            task[v].user = None

\* What they read of the account is still so.
Current ==
    \A w \in Workers : task[w].op \in SessionOps /\ task[w].user # None =>
        /\ user[task[w].user] # Unborn
        /\ Live(task[w].user) => /\ task[w].seen.version = user[task[w].user].version
                                 /\ task[w].seen.role = user[task[w].user].role

\* Tokens and links are of this version or an older one.
TokensOld ==
    \A t \in tokens :
        /\ user[t.user] # Unborn
        /\ Live(t.user) => /\ t.version <= user[t.user].version
                           /\ t.version = user[t.user].version => t.role = user[t.user].role

LinksOld ==
    \A l \in links :
        /\ user[l.user] # Unborn
        /\ Live(l.user) => /\ l.version <= user[l.user].version
                           /\ l \in spent => l.version # user[l.user].version

NoCascade == \A w \in Workers : task[w].op # "position"

SessionInv ==
    Alone /\ Current /\ TokensOld /\ LinksOld /\ NoCascade /\ StoredSessionIsCurrent

-----------------------------------------------------------------------------
(* What one step does to accounts, tokens and handlers. *)

\* No handler of a session is left on the account.
Left(u) == \A v \in Workers : task'[v].op \in SessionOps => task'[v].user # u

SameSession(u) ==
    /\ user'[u].version = user[u].version /\ user'[u].role = user[u].role
    /\ user'[u].refresh \in {user[u].refresh, None, TokenOf(u, user'[u])}

NextSession(u) ==
    /\ user'[u].version = user[u].version + 1
    /\ user'[u].refresh \in {None, TokenOf(u, user'[u])}
    /\ Left(u)

RowStep(u) ==
    \/ user'[u] = user[u]
    \/ user[u] = Unborn /\ user'[u] \in Row /\ user'[u].refresh = None
    \/ user[u] \in Row /\ user'[u] = Deleted
    \/ user[u] \in Row /\ user'[u] \in Row /\ (SameSession(u) \/ NextSession(u))

HandsOut ==
    /\ \A t \in tokens' : t \in tokens \/ \E u \in Users :
          user[u] \in Row /\ user'[u] \in Row /\ t = TokenOf(u, user'[u])
    /\ \A l \in links' : l \in links \/ \E u \in Users :
          user[u] \in Row /\ user'[u] = user[u] /\ l = [user |-> u, version |-> user[u].version]
                         /\ l \notin spent'
    /\ \A l \in links : l \in spent' => l \in spent \/ NextSession(l.user)

Begins(v) ==
    /\ MayRun(task'[v].op, task'[v].user)
    /\ \A x \in Workers \ {v} : task'[x] = task[x]
    /\ user' = user
    /\ task'[v].op \in SessionOps /\ task'[v].user # None =>
          user[task'[v].user] \in Row /\ task'[v].seen = user[task'[v].user]

GoesOn(v) ==
    /\ task'[v].op = task[v].op /\ task'[v].user = task[v].user
    /\ task[v].op \in SessionOps /\ task[v].user # None =>
          task'[v].seen.version = task[v].seen.version /\ task'[v].seen.role = task[v].seen.role

Orderly ==
    /\ \A u \in Users : RowStep(u)
    /\ HandsOut
    /\ \A v \in Workers : task'[v] = Idle \/ GoesOn(v) \/ Begins(v)

LEMMA LiveIsRow ==
    ASSUME TypeInv, NEW u \in Users
    PROVE  (Live(u) <=> user[u] \in Row) /\ (~Live(u) <=> user[u] \in {Unborn, Deleted})
BY AccountAssumption DEF TypeInv, Shapes, Live

LEMMA IdleIsNone == Idle.op = "idle" /\ Idle.user = None
BY DEF Idle

\* The accounts' part of an orderly step: nothing comes back.
LEMMA RowsGrow ==
    ASSUME TypeInv, TypeInv', NEW u \in Users, RowStep(u)
    PROVE  /\ user[u] # Unborn => user'[u] # Unborn
           /\ user[u] # Unborn /\ Live(u)' =>
                 /\ Live(u)
                 /\ user[u].version \in Nat /\ user'[u].version \in Nat
                 /\ \/ user'[u] = user[u] \/ SameSession(u)
                    \/ NextSession(u)
<1>1. Unborn \notin Row /\ Deleted \notin Row /\ Unborn # Deleted
    BY AccountAssumption
<1>2. Live(u)' <=> user'[u] \in Row
    BY AccountAssumption DEF TypeInv, Shapes, Live
<1>3. Live(u) <=> user[u] \in Row
    BY LiveIsRow
<1>4. \A row \in Row : row.version \in Nat
    BY DEF Row
<1> QED BY <1>1, <1>2, <1>3, <1>4 DEF RowStep

LEMMA CurrentStep ==
    ASSUME TypeInv, TypeInv', SessionInv, Orderly PROVE Current'
<1> SUFFICES ASSUME NEW w \in Workers, NEW u \in Users, u = task'[w].user,
                    task'[w].op \in SessionOps, u # None
             PROVE  /\ user'[u] # Unborn
                    /\ Live(u)' => /\ task'[w].seen.version = user'[u].version
                                   /\ task'[w].seen.role = user'[u].role
    <2>1. \A w \in Workers : task'[w].user \in Users \cup {None}
        BY DEF TypeInv, Handler, Task
    <2> QED BY <2>1 DEF Current, Live
<1>2. task'[w] # Idle
    BY IdleIsNone DEF SessionOps
<1>3. CASE Begins(w)
    <2>1. user' = user /\ user[u] \in Row /\ task'[w].seen = user[u]
        BY <1>3 DEF Begins
    <2> QED BY <2>1, AccountAssumption
<1>4. CASE GoesOn(w)
    <2>1. /\ task[w].op \in SessionOps /\ task[w].user = u
          /\ task'[w].seen.version = task[w].seen.version
          /\ task'[w].seen.role = task[w].seen.role
        BY <1>4 DEF GoesOn
    <2>2. /\ user[u] # Unborn
          /\ Live(u) => /\ task[w].seen.version = user[u].version
                        /\ task[w].seen.role = user[u].role
        BY <2>1 DEF SessionInv, Current
    <2>3. ~NextSession(u)
        BY DEF NextSession, Left
    <2>4. RowStep(u)
        BY DEF Orderly
    <2> QED BY <2>1, <2>2, <2>3, <2>4, RowsGrow DEF SameSession
<1> QED BY <1>2, <1>3, <1>4 DEF Orderly

LEMMA TokensStep ==
    ASSUME TypeInv, TypeInv', SessionInv, Orderly PROVE TokensOld'
<1> SUFFICES ASSUME NEW t \in tokens'
             PROVE  /\ user'[t.user] # Unborn
                    /\ Live(t.user)' => /\ t.version <= user'[t.user].version
                                        /\ t.version = user'[t.user].version =>
                                              t.role = user'[t.user].role
    BY DEF TokensOld
<1>1. CASE t \in tokens
    <2>1. t.user \in Users /\ t.version \in Nat
        BY <1>1 DEF TypeInv, Shapes, Token
    <2>2. /\ user[t.user] # Unborn
          /\ Live(t.user) => /\ t.version <= user[t.user].version
                             /\ t.version = user[t.user].version => t.role = user[t.user].role
        BY <1>1 DEF SessionInv, TokensOld
    <2>3. RowStep(t.user)
        BY <2>1 DEF Orderly
    <2> QED BY <2>1, <2>2, <2>3, RowsGrow DEF SameSession, NextSession
<1>2. CASE t \notin tokens
    <2>1. PICK u \in Users : user'[u] \in Row /\ t = TokenOf(u, user'[u])
        BY <1>2 DEF Orderly, HandsOut
    <2>2. t.user = u /\ t.version = user'[u].version /\ t.role = user'[u].role
        BY <2>1 DEF TokenOf
    <2>3. user'[u].version \in Nat /\ user'[u] # Unborn
        BY <2>1, AccountAssumption DEF Row
    <2> QED BY <2>2, <2>3
<1> QED BY <1>1, <1>2

LEMMA LinksStep ==
    ASSUME TypeInv, TypeInv', SessionInv, Orderly PROVE LinksOld'
<1> SUFFICES ASSUME NEW l \in links'
             PROVE  /\ user'[l.user] # Unborn
                    /\ Live(l.user)' => /\ l.version <= user'[l.user].version
                                        /\ l \in spent' => l.version # user'[l.user].version
    BY DEF LinksOld
<1>1. CASE l \in links
    <2>1. l.user \in Users /\ l.version \in Nat
        BY <1>1 DEF TypeInv, Shapes, Link
    <2>2. /\ user[l.user] # Unborn
          /\ Live(l.user) => /\ l.version <= user[l.user].version
                             /\ l \in spent => l.version # user[l.user].version
        BY <1>1 DEF SessionInv, LinksOld
    <2>3. RowStep(l.user)
        BY <2>1 DEF Orderly
    <2>4. l \in spent' => l \in spent \/ NextSession(l.user)
        BY <1>1 DEF Orderly, HandsOut
    <2>5. ~(user[l.user].version = user[l.user].version + 1) \/ user[l.user].version \notin Nat
        OBVIOUS
    <2> QED BY <2>1, <2>2, <2>3, <2>4, <2>5, RowsGrow DEF SameSession, NextSession
<1>2. CASE l \notin links
    <2>1. PICK u \in Users : user[u] \in Row /\ user'[u] = user[u]
                               /\ l = [user |-> u, version |-> user[u].version]
                               /\ l \notin spent'
        BY <1>2 DEF Orderly, HandsOut
    <2>2. user[u].version \in Nat /\ user[u] # Unborn
        BY <2>1, AccountAssumption DEF Row
    <2> QED BY <2>1, <2>2
<1> QED BY <1>1, <1>2

LEMMA StoredStep ==
    ASSUME TypeInv, TypeInv', SessionInv, Orderly PROVE StoredSessionIsCurrent'
<1> SUFFICES ASSUME NEW u \in Users, Live(u)', user'[u].refresh # None
             PROVE  user'[u].refresh = TokenOf(u, user'[u])
    BY DEF StoredSessionIsCurrent
<1>1. RowStep(u)
    BY DEF Orderly
<1>2. Live(u) /\ user[u].refresh # None => user[u].refresh = TokenOf(u, user[u])
    BY DEF SessionInv, StoredSessionIsCurrent
<1>3. CASE user[u] = Unborn
    BY <1>1, <1>3, AccountAssumption DEF RowStep, Live
<1>4. CASE user[u] # Unborn
    BY <1>1, <1>2, <1>4, RowsGrow DEF SameSession, NextSession, TokenOf
<1> QED BY <1>3, <1>4

LEMMA AloneStep ==
    ASSUME TypeInv, TypeInv', SessionInv, Orderly, Undisturbed PROVE Alone'
<1> SUFFICES ASSUME NEW v \in Workers, NEW w \in Workers, v # w, Busy(w)',
                    task'[v].op \in SessionOps, task'[v].user = task'[w].user,
                    task'[v].user # None
             PROVE  FALSE
    BY DEF Alone
<1>1. task'[v] # Idle /\ task'[w] # Idle
    BY IdleIsNone DEF SessionOps, Busy
<1>2. CASE GoesOn(v) /\ GoesOn(w)
    BY <1>2 DEF GoesOn, SessionInv, Alone, Busy
<1>3. CASE Begins(v)
    BY <1>3 DEF Begins, MayRun, Busy, Undisturbed
<1>4. CASE Begins(w)
    <2>1. task[v].op \in SessionOps /\ task[v].user = task'[w].user /\ Busy(v)
        BY <1>4 DEF Begins, Busy, SessionOps
    <2> QED BY <1>4, <2>1 DEF Begins, MayRun, Undisturbed
<1> QED BY <1>1, <1>2, <1>3, <1>4 DEF Orderly

LEMMA OrderlyStep ==
    ASSUME TypeInv, TypeInv', SessionInv, Orderly, Undisturbed PROVE SessionInv'
<1>1. NoCascade'
    <2> SUFFICES ASSUME NEW w \in Workers PROVE task'[w].op # "position"
        BY DEF NoCascade
    <2>1. CASE task'[w] = Idle
        BY <2>1, IdleIsNone
    <2>2. CASE GoesOn(w)
        BY <2>2 DEF GoesOn, SessionInv, NoCascade
    <2>3. CASE Begins(w)
        BY <2>3 DEF Begins, MayRun, Undisturbed
    <2> QED BY <2>1, <2>2, <2>3 DEF Orderly
<1> QED BY <1>1, AloneStep, CurrentStep, TokensStep, LinksStep, StoredStep DEF SessionInv

-----------------------------------------------------------------------------
(* Every step is orderly: the shapes of steps. *)

LEMMA SameHands == ASSUME UNCHANGED <<tokens, links, spent>> PROVE HandsOut
BY DEF HandsOut

LEMMA SameRows == ASSUME UNCHANGED user PROVE \A u \in Users : RowStep(u)
BY DEF RowStep

LEMMA OneRow ==
    ASSUME TypeInv, NEW u \in Users, NEW row, user' = [user EXCEPT ![u] = row], RowStep(u)
    PROVE  \A v \in Users : RowStep(v)
<1> SUFFICES ASSUME NEW v \in Users, v # u PROVE user'[v] = user[v]
    BY DEF RowStep
<1> QED BY DEF TypeInv, Shapes

\* A handler begins.
LEMMA BeginStep ==
    ASSUME TypeInv, NEW w \in Workers, NEW x, task' = [task EXCEPT ![w] = x],
           MayRun(x.op, x.user), UNCHANGED <<user, tokens, links, spent>>,
           x.op \in SessionOps /\ x.user # None => user[x.user] \in Row /\ x.seen = user[x.user]
    PROVE  Orderly
<1>1. task'[w] = x /\ \A v \in Workers \ {w} : task'[v] = task[v]
    BY DEF TypeInv
<1>2. Begins(w)
    BY <1>1 DEF Begins
<1>3. \A v \in Workers \ {w} : GoesOn(v)
    BY <1>1 DEF GoesOn
<1> QED BY <1>2, <1>3, SameRows, SameHands DEF Orderly

\* A handler goes on to its next phase.
LEMMA GoOnStep ==
    ASSUME TypeInv, NEW w \in Workers, NEW x, task' = [task EXCEPT ![w] = x],
           x.op = task[w].op, x.user = task[w].user,
           x.op \in SessionOps /\ x.user # None =>
              x.seen.version = task[w].seen.version /\ x.seen.role = task[w].seen.role,
           \A u \in Users : RowStep(u), HandsOut
    PROVE  Orderly
<1>1. task'[w] = x /\ \A v \in Workers \ {w} : task'[v] = task[v]
    BY DEF TypeInv
<1>2. \A v \in Workers : GoesOn(v)
    BY <1>1 DEF GoesOn
<1> QED BY <1>2 DEF Orderly

\* A handler ends.
LEMMA EndStep ==
    ASSUME TypeInv, NEW w \in Workers, Finish(w), \A u \in Users : RowStep(u), HandsOut
    PROVE  Orderly
<1>1. task'[w] = Idle /\ \A v \in Workers \ {w} : task'[v] = task[v]
    BY DEF TypeInv, Finish
<1>2. \A v \in Workers \ {w} : GoesOn(v)
    BY <1>1 DEF GoesOn
<1> QED BY <1>1, <1>2 DEF Orderly

\* The account a handler worked on is left by sessions when the handler ends.
LEMMA LeftAtEnd ==
    ASSUME TypeInv, SessionInv, NEW w \in Workers, Finish(w), Busy(w),
           NEW u \in Users, task[w].user = u
    PROVE  Left(u)
<1>1. u # None
    BY AccountAssumption
<1>2. task'[w].op \notin SessionOps
    BY IdleIsNone DEF TypeInv, Finish, SessionOps
<1>3. ASSUME NEW v \in Workers \ {w}, task[v].op \in SessionOps PROVE task[v].user # u
    BY <1>1, <1>3 DEF SessionInv, Alone
<1>4. \A v \in Workers \ {w} : task'[v] = task[v]
    BY DEF TypeInv, Finish
<1> QED BY <1>2, <1>3, <1>4 DEF Left

\* A statement on an account finds no handler of a session there.
LEMMA LeftByStatement ==
    ASSUME Undisturbed, NEW op, NEW u \in Users, MayRun(op, u), UNCHANGED task
    PROVE  Left(u)
<1>1. u # None
    BY AccountAssumption
<1> QED BY <1>1 DEF Left, MayRun, Busy, Undisturbed, SessionOps

LEMMA StatementStep ==
    ASSUME TypeInv, UNCHANGED task, \A u \in Users : RowStep(u), HandsOut PROVE Orderly
BY DEF GoesOn, Orderly

\* Signing out is the next session.
LEMMA SignOutStep ==
    ASSUME NEW u \in Users, user[u] \in Row, user'[u] \in Row, Left(u),
           user'[u].version = user[u].version + 1, user'[u].refresh = None
    PROVE  RowStep(u) /\ NextSession(u)
BY DEF RowStep, NextSession

LEMMA SameSessionStep ==
    ASSUME NEW u \in Users, user[u] \in Row, user'[u] \in Row,
           user'[u].version = user[u].version, user'[u].role = user[u].role,
           user'[u].refresh \in {user[u].refresh, None}
    PROVE  RowStep(u)
BY DEF RowStep, SameSession

-----------------------------------------------------------------------------
(* Every step is orderly: the steps of sessions. *)

LEMMA SessionCallOrderly ==
    ASSUME TypeInv, NEW w \in Workers, SessionCall(w) PROVE Orderly
<1>1. ASSUME NEW u \in Users, ProfileCall(w, u) PROVE Orderly
    <2> DEFINE x == [Idle EXCEPT !.op = "profile", !.phase = "write", !.user = u,
                                 !.seen = user[u]]
    <2>1. task' = [task EXCEPT ![w] = x]
        BY <1>1 DEF ProfileCall, Start
    <2>2. user[u] \in Row
        BY <1>1, LiveRow DEF ProfileCall, SignedIn, Accepted
    <2>3. x.op = "profile" /\ x.user = u /\ x.seen = user[u]
        BY DEF Idle
    <2> HIDE DEF x
    <2> QED BY <1>1, <2>1, <2>2, <2>3, BeginStep DEF ProfileCall, MayStart, sessionVars
<1>2. ASSUME NEW u \in Users \cup {None}, NEW c \in Captchas, LoginCall(w, u, c)
      PROVE  Orderly
    <2> DEFINE x == LoginTask(u, IF u = None THEN None ELSE user[u], c)
    <2>1. task' = [task EXCEPT ![w] = x]
        BY <1>2 DEF LoginCall, Start
    <2>2. u # None => u \in Users /\ user[u] \in Row
        BY <1>2, LiveRow DEF LoginCall
    <2>3. x.op = "login" /\ x.user = u /\ (u # None => x.seen = user[u])
        BY DEF LoginTask, Idle
    <2> HIDE DEF x
    <2> QED BY <1>2, <2>1, <2>2, <2>3, BeginStep DEF LoginCall, MayStart, sessionVars
<1>3. ASSUME NEW t \in tokens, RefreshCall(w, t) PROVE Orderly
    <2> DEFINE u == t.user
               x == [Idle EXCEPT !.op = "refresh", !.phase = "store", !.user = u,
                                 !.seen = user[u]]
    <2>1. task' = [task EXCEPT ![w] = x]
        BY <1>3 DEF RefreshCall, Start
    <2>2. u \in Users /\ user[u] \in Row
        BY <1>3, LiveRow DEF RefreshCall, TypeInv, Shapes, Token
    <2>3. x.op = "refresh" /\ x.user = u /\ x.seen = user[u]
        BY DEF Idle
    <2> HIDE DEF x
    <2> QED BY <1>3, <2>1, <2>2, <2>3, BeginStep DEF RefreshCall, MayStart, sessionVars
<1> QED BY <1>1, <1>2, <1>3 DEF SessionCall

LEMMA LoginClaimOrderly ==
    ASSUME TypeInv, NEW w \in Workers, LoginClaim(w) PROVE Orderly
<1>1. (\A u \in Users : RowStep(u)) /\ HandsOut
    BY SameRows, SameHands DEF LoginClaim
<1>2. CASE Finish(w)
    BY <1>1, <1>2, EndStep
<1>3. CASE task' = [task EXCEPT ![w].phase = AfterClaim(task[w].seen)]
    <2> DEFINE x == [task[w] EXCEPT !.phase = AfterClaim(task[w].seen)]
    <2>1. task' = [task EXCEPT ![w] = x]
        BY <1>3
    <2>2. x.op = task[w].op /\ x.user = task[w].user /\ x.seen = task[w].seen
        BY DEF TypeInv, Handler, Task
    <2> HIDE DEF x
    <2> QED BY <1>1, <2>1, <2>2, GoOnStep
<1> QED BY <1>2, <1>3 DEF LoginClaim

LEMMA LoginUnlockOrderly ==
    ASSUME TypeInv, NEW w \in Workers, LoginUnlock(w) PROVE Orderly
<1> DEFINE u == task[w].user
           x == [task[w] EXCEPT !.phase = "check", !.seen = Unlocked(task[w].seen)]
<1>1. u \in Users /\ task[w].seen \in Row
    BY DEF LoginUnlock, TypeInv, Handler, Task, Ready
<1>2. task' = [task EXCEPT ![w] = x]
    BY DEF LoginUnlock
<1>3. x.op = task[w].op /\ x.user = u /\ x.seen = Unlocked(task[w].seen)
    BY DEF TypeInv, Handler, Task
<1> HIDE DEF x
<1>4. user[u] \in Row /\ user' = [user EXCEPT ![u] = Unlocked(user[u])]
    BY <1>1, LiveRow DEF LoginUnlock
<1>5. user'[u] = Unlocked(user[u])
    BY <1>1, <1>4 DEF TypeInv, Shapes
<1>6. RowStep(u)
    BY <1>1, <1>4, <1>5, UnlockedType, SameSessionStep
<1>7. \A v \in Users : RowStep(v)
    BY <1>1, <1>4, <1>6, OneRow
<1>8. x.seen.version = task[w].seen.version /\ x.seen.role = task[w].seen.role
    BY <1>1, <1>3, UnlockedType
<1>9. HandsOut
    BY SameHands DEF LoginUnlock
<1> QED BY <1>2, <1>3, <1>7, <1>8, <1>9, GoOnStep

LEMMA WrongPasswordOrderly ==
    ASSUME TypeInv, NEW w \in Workers, WrongPassword(w) PROVE Orderly
<1> DEFINE u == task[w].user
           n == task[w].seen.attempts + 1
           row == [user[u] EXCEPT !.attempts = n, !.lock = LockAfter(n)]
<1>1. u \in Users
    BY DEF WrongPassword, TypeInv, Handler, Task
<1>2. user[u] \in Row
    BY <1>1, LiveRow DEF WrongPassword
<1>3. user' = [user EXCEPT ![u] = row]
    BY DEF WrongPassword
<1>9. n \in Nat /\ LockAfter(n) \in Nat \cup {None}
    <2>1. task[w].seen \in Row
        BY <1>1, AccountAssumption DEF WrongPassword, TypeInv, Handler, Ready
    <2>2. n \in Nat
        BY <2>1 DEF Row
    <2> QED BY <2>2, LockAfterType DEF TypeInv, Shapes
<1> HIDE DEF n
<1>4. user'[u] = row
    BY <1>1, <1>3 DEF TypeInv, Shapes
<1>5. row.version = user[u].version /\ row.role = user[u].role /\ row.refresh = user[u].refresh
    BY <1>2 DEF Row
<1>6. row \in Row
    BY <1>2, <1>9 DEF Row
<1> HIDE DEF row
<1>7. RowStep(u)
    BY <1>1, <1>2, <1>4, <1>5, <1>6, SameSessionStep
<1>8. \A v \in Users : RowStep(v)
    BY <1>1, <1>3, <1>7, OneRow
<1> QED BY <1>8, EndStep, SameHands DEF WrongPassword

LEMMA RightPasswordOrderly ==
    ASSUME TypeInv, NEW w \in Workers, RightPassword(w) PROVE Orderly
<1> DEFINE u == task[w].user
           x == [task[w] EXCEPT !.phase = "store"]
<1>1. u \in Users
    BY DEF RightPassword, TypeInv, Handler, Task
<1>2. task' = [task EXCEPT ![w] = x]
    BY DEF RightPassword
<1>3. x.op = task[w].op /\ x.user = u /\ x.seen = task[w].seen
    BY DEF TypeInv, Handler, Task
<1> HIDE DEF x
<1>4. user[u] \in Row /\ user' = [user EXCEPT ![u] = Unlocked(user[u])]
    BY <1>1, LiveRow DEF RightPassword
<1>5. user'[u] = Unlocked(user[u])
    BY <1>1, <1>4 DEF TypeInv, Shapes
<1>6. RowStep(u)
    BY <1>1, <1>4, <1>5, UnlockedType, SameSessionStep
<1>7. \A v \in Users : RowStep(v)
    BY <1>1, <1>4, <1>6, OneRow
<1>8. HandsOut
    BY SameHands DEF RightPassword
<1> QED BY <1>2, <1>3, <1>7, <1>8, GoOnStep

\* What a handler of a session has read is what the row says.
LEMMA SeenIsCurrent ==
    ASSUME TypeInv, SessionInv, NEW w \in Workers, NEW u \in Users, u = task[w].user, Live(u),
           task[w].op \in SessionOps
    PROVE  /\ user[u] \in Row
           /\ task[w].seen.version = user[u].version /\ task[w].seen.role = user[u].role
BY LiveRow, AccountAssumption DEF SessionInv, Current

LEMMA StoreTokensOrderly ==
    ASSUME TypeInv, TypeInv', SessionInv, NEW w \in Workers, StoreTokens(w) PROVE Orderly
<1> DEFINE u == task[w].user
           token == TokenOf(u, task[w].seen)
           row == [user[u] EXCEPT !.refresh = token]
<1>1. u \in Users /\ task[w].seen \in Row /\ task[w].op \in SessionOps /\ Live(u)
    BY DEF StoreTokens, TypeInv, Handler, Task, Ready, SessionOps
<1>2. /\ user[u] \in Row
      /\ task[w].seen.version = user[u].version /\ task[w].seen.role = user[u].role
    BY <1>1, SeenIsCurrent
<1>3. token \in Token /\ token = TokenOf(u, user[u])
    BY <1>1, <1>2, TokenType DEF TokenOf
<1>4. user' = [user EXCEPT ![u] = row] /\ tokens' = tokens \cup {token}
    BY DEF StoreTokens
<1> HIDE DEF token
<1>5. /\ row \in Row /\ row.version = user[u].version /\ row.role = user[u].role
      /\ row.refresh = token
    BY <1>2, <1>3 DEF Row
<1> HIDE DEF row
<1>6. user'[u] = row
    BY <1>1, <1>4 DEF TypeInv, Shapes
<1>7. token = TokenOf(u, user'[u])
    BY <1>3, <1>5, <1>6 DEF TokenOf
<1>8. RowStep(u)
    BY <1>2, <1>5, <1>6, <1>7 DEF RowStep, SameSession
<1>9. \A v \in Users : RowStep(v)
    BY <1>1, <1>4, <1>8, OneRow
<1>10. HandsOut
    BY <1>1, <1>2, <1>4, <1>5, <1>6, <1>7 DEF HandsOut, StoreTokens
<1> QED BY <1>9, <1>10, EndStep DEF StoreTokens

LEMMA ProfileWriteOrderly ==
    ASSUME TypeInv, TypeInv', SessionInv, NEW w \in Workers, ProfileWrite(w) PROVE Orderly
<1> DEFINE u == task[w].user
           n == task[w].seen.version + 1
           token == [user |-> u, role |-> task[w].seen.role, version |-> n]
           row == [user[u] EXCEPT !.version = token.version, !.refresh = token]
<1>1. /\ u \in Users /\ task[w].seen \in Row /\ task[w].op \in SessionOps /\ Live(u)
      /\ Busy(w)
    BY DEF ProfileWrite, TypeInv, Handler, Task, Ready, SessionOps, Busy
<1>2. /\ user[u] \in Row
      /\ task[w].seen.version = user[u].version /\ task[w].seen.role = user[u].role
    BY <1>1, SeenIsCurrent
<1>3. n \in Nat /\ n = user[u].version + 1 /\ task[w].seen.role \in Roles
    BY <1>1, <1>2 DEF Row
<1>4. user' = [user EXCEPT ![u] = row] /\ tokens' = tokens \cup {token}
    BY DEF ProfileWrite
<1> HIDE DEF n
<1>5. token \in Token /\ token.version = n /\ token.role = user[u].role /\ token.user = u
    BY <1>1, <1>2, <1>3 DEF Token
<1>6. token = [user |-> u, role |-> user[u].role, version |-> n]
    BY <1>2
<1> HIDE DEF token
<1>7. /\ row \in Row /\ row.version = n /\ row.role = user[u].role
      /\ row.refresh = token
    BY <1>2, <1>3, <1>5 DEF Row
<1> HIDE DEF row
<1>8. user'[u] = row
    BY <1>1, <1>4 DEF TypeInv, Shapes
<1>9. token = TokenOf(u, user'[u])
    BY <1>6, <1>7, <1>8 DEF TokenOf
<1>10. Left(u)
    BY <1>1, LeftAtEnd DEF ProfileWrite
<1>11. RowStep(u)
    BY <1>2, <1>3, <1>7, <1>8, <1>9, <1>10 DEF RowStep, NextSession
<1>12. \A v \in Users : RowStep(v)
    BY <1>1, <1>4, <1>11, OneRow
<1>13. HandsOut
    BY <1>1, <1>2, <1>4, <1>7, <1>8, <1>9 DEF HandsOut, ProfileWrite
<1> QED BY <1>12, <1>13, EndStep DEF ProfileWrite

LEMMA SessionStepOrderly ==
    ASSUME TypeInv, TypeInv', SessionInv, NEW w \in Workers, SessionStep(w) PROVE Orderly
<1>1. CASE LoginSuspended(w)
    BY <1>1, EndStep, SameRows, SameHands DEF LoginSuspended, sessionVars
<1>2. CASE LoginUnknown(w)
    BY <1>2, EndStep, SameRows, SameHands DEF LoginUnknown, sessionVars
<1> QED BY <1>1, <1>2, LoginClaimOrderly, LoginUnlockOrderly, WrongPasswordOrderly,
           RightPasswordOrderly, StoreTokensOrderly, ProfileWriteOrderly DEF SessionStep

-----------------------------------------------------------------------------
(* Every step is orderly: the Admin area. *)

\* A handler that is none of a session's begins.
LEMMA OtherBeginStep ==
    ASSUME TypeInv, NEW w \in Workers, NEW x, task' = [task EXCEPT ![w] = x],
           MayRun(x.op, x.user), UNCHANGED <<user, tokens, links, spent>>,
           x.op \notin SessionOps
    PROVE  Orderly
BY BeginStep

LEMMA AdminCallOrderly ==
    ASSUME TypeInv, NEW w \in Workers, AdminCall(w) PROVE Orderly
<1>1. ASSUME NEW a \in Users, NEW u \in Users, SuspendCall(w, a, u) PROVE Orderly
    <2> DEFINE x == [Idle EXCEPT !.op = "suspend", !.phase = "target", !.user = u]
    <2>1. task' = [task EXCEPT ![w] = x]
        BY <1>1 DEF SuspendCall, Start
    <2>2. x.op = "suspend" /\ x.user = u
        BY DEF Idle
    <2> HIDE DEF x
    <2> QED BY <1>1, <2>1, <2>2, OtherBeginStep
            DEF SuspendCall, MayStart, sessionVars, SessionOps
<1>2. ASSUME NEW a \in Users, NEW u \in Users, NEW role \in RoleForms, RoleCall(w, a, u, role)
      PROVE  Orderly
    <2> DEFINE phase == IF role = "Admin" THEN "write" ELSE "target"
               x == [Idle EXCEPT !.op = "role", !.user = u, !.role = role, !.phase = phase]
    <2>1. task' = [task EXCEPT ![w] = x]
        BY <1>2 DEF RoleCall, Start
    <2> HIDE DEF phase
    <2>2. x.op = "role" /\ x.user = u
        BY DEF Idle
    <2> HIDE DEF x
    <2> QED BY <1>2, <2>1, <2>2, OtherBeginStep
            DEF RoleCall, MayStart, sessionVars, SessionOps
<1> QED BY <1>1, <1>2 DEF AdminCall

LEMMA ReadTargetOrderly ==
    ASSUME TypeInv, NEW w \in Workers, ReadTarget(w) PROVE Orderly
<1> DEFINE phase == IF user[task[w].user].role = "Admin" /\ user[task[w].user].active
                    THEN "count" ELSE "write"
           x == [task[w] EXCEPT !.phase = phase]
<1>1. task' = [task EXCEPT ![w] = x]
    BY DEF ReadTarget
<1> HIDE DEF phase
<1>2. x.op = task[w].op /\ x.user = task[w].user /\ x.seen = task[w].seen
    BY DEF TypeInv, Handler, Task
<1> HIDE DEF x
<1>3. (\A u \in Users : RowStep(u)) /\ HandsOut
    BY SameRows, SameHands DEF ReadTarget, sessionVars
<1> QED BY <1>1, <1>2, <1>3, GoOnStep

LEMMA CountAdminsOrderly ==
    ASSUME TypeInv, NEW w \in Workers, CountAdmins(w) PROVE Orderly
<1> DEFINE x == [task[w] EXCEPT !.phase = "write"]
<1>1. (\A u \in Users : RowStep(u)) /\ HandsOut
    BY SameRows, SameHands DEF CountAdmins, sessionVars
<1>2. CASE Finish(w)
    BY <1>1, <1>2, EndStep
<1>3. CASE task' = [task EXCEPT ![w] = x]
    <2>1. x.op = task[w].op /\ x.user = task[w].user /\ x.seen = task[w].seen
        BY DEF TypeInv, Handler, Task
    <2> HIDE DEF x
    <2> QED BY <1>1, <1>3, <2>1, GoOnStep
<1> QED BY <1>2, <1>3 DEF CountAdmins

\* A handler signs its account out and ends.
LEMMA SignOutAtEnd ==
    ASSUME TypeInv, SessionInv, NEW w \in Workers, Finish(w), Busy(w),
           NEW u \in Users, task[w].user = u, user[u] \in Row,
           NEW row \in Row, user' = [user EXCEPT ![u] = row],
           row.version = user[u].version + 1, row.refresh = None,
           UNCHANGED <<tokens, links, spent>>
    PROVE  Orderly
<1>1. Left(u)
    BY LeftAtEnd
<1>2. user'[u] = row
    BY DEF TypeInv, Shapes
<1>3. RowStep(u)
    BY <1>1, <1>2, SignOutStep
<1>4. \A v \in Users : RowStep(v)
    BY <1>3, OneRow
<1> QED BY <1>4, EndStep, SameHands

LEMMA SuspendWriteOrderly ==
    ASSUME TypeInv, SessionInv, NEW w \in Workers, SuspendWrite(w) PROVE Orderly
<1> DEFINE u == task[w].user
           out == SignedOut(user[u])
           row == [out EXCEPT !.active = FALSE]
<1>1. u \in Users /\ Busy(w)
    BY DEF SuspendWrite, TypeInv, Handler, Ready, Busy
<1>2. user' = [user EXCEPT ![u] = row]
    BY DEF SuspendWrite
<1>3. user[u] \in Row
    BY <1>1, LiveRow DEF SuspendWrite
<1>4. out \in Row /\ out.version = user[u].version + 1 /\ out.refresh = None
    BY <1>3, SignedOutType
<1> HIDE DEF out
<1>5. row \in Row /\ row.version = user[u].version + 1 /\ row.refresh = None
    BY <1>4 DEF Row
<1> HIDE DEF row
<1> QED BY <1>1, <1>2, <1>3, <1>5, SignOutAtEnd DEF SuspendWrite, sessionVars

LEMMA RoleWriteOrderly ==
    ASSUME TypeInv, SessionInv, NEW w \in Workers, RoleWrite(w) PROVE Orderly
<1> DEFINE u == task[w].user
           row == RoleChanged(user[u], task[w].role)
<1>1. u \in Users /\ Busy(w) /\ task[w].role \in Roles
    BY DEF RoleWrite, TypeInv, Handler, Ready, Busy
<1>2. user' = [user EXCEPT ![u] = row]
    BY DEF RoleWrite
<1>3. user[u] \in Row
    BY <1>1, LiveRow DEF RoleWrite
<1>4. row \in Row /\ row.version = user[u].version + 1 /\ row.refresh = None
    BY <1>1, <1>3, RoleChangedType
<1> HIDE DEF row
<1> QED BY <1>1, <1>2, <1>3, <1>4, SignOutAtEnd DEF RoleWrite, sessionVars

LEMMA AdminStepOrderly ==
    ASSUME TypeInv, SessionInv, NEW w \in Workers, AdminStep(w) PROVE Orderly
BY ReadTargetOrderly, CountAdminsOrderly, SuspendWriteOrderly, RoleWriteOrderly DEF AdminStep
-----------------------------------------------------------------------------
(* Every step is orderly: HR. *)

LEMMA StaffCallOrderly ==
    ASSUME TypeInv, Undisturbed, NEW w \in Workers, StaffCall(w) PROVE Orderly
<1>1. ASSUME NEW u \in Users, NEW on \in BOOLEAN, StatusCall(w, u, on) PROVE Orderly
    <2> DEFINE x == [Idle EXCEPT !.op = "status", !.phase = "write", !.user = u, !.on = on]
    <2>1. task' = [task EXCEPT ![w] = x]
        BY <1>1 DEF StatusCall, Start
    <2>2. x.op = "status" /\ x.user = u
        BY DEF Idle
    <2> HIDE DEF x
    <2> QED BY <1>1, <2>1, <2>2, OtherBeginStep
            DEF StatusCall, MayStart, sessionVars, SessionOps
<1>2. ASSUME NEW u \in Users, NEW form \in EmployeeForms, EmployeeBegin(w, u, form)
      PROVE  Orderly
    <2> DEFINE role == RoleAskedFor(u, form)
               on == Moves(u, form)
               x == [Idle EXCEPT !.op = "employee", !.phase = "tx", !.user = u,
                                 !.seen = user[u], !.form = form, !.role = role, !.on = on]
    <2>1. task' = [task EXCEPT ![w] = x]
        BY <1>2 DEF EmployeeBegin, Start
    <2> HIDE DEF role, on
    <2>2. x.op = "employee" /\ x.user = u
        BY DEF Idle
    <2> HIDE DEF x
    <2> QED BY <1>2, <2>1, <2>2, OtherBeginStep
            DEF EmployeeBegin, MayStart, sessionVars, SessionOps
<1>3. ASSUME NEW u \in Users, NEW form \in EmployeeForms, HireCall(w, u, form)
      PROVE  Orderly
    <2> DEFINE role == ImpliedRole(form.post, form.role)
               x == [Idle EXCEPT !.op = "hire", !.phase = "tx", !.user = u, !.form = form,
                                 !.role = role]
    <2>1. task' = [task EXCEPT ![w] = x]
        BY <1>3 DEF HireCall, Start
    <2> HIDE DEF role
    <2>2. x.op = "hire" /\ x.user = u
        BY DEF Idle
    <2> HIDE DEF x
    <2> QED BY <1>3, <2>1, <2>2, OtherBeginStep
            DEF HireCall, MayStart, sessionVars, SessionOps
<1>4. ASSUME NEW u \in Users, FireCall(w, u) PROVE Orderly
    <2> DEFINE x == [Idle EXCEPT !.op = "fire", !.phase = "tx", !.user = u]
    <2>1. task' = [task EXCEPT ![w] = x]
        BY <1>4 DEF FireCall, Start
    <2>2. x.op = "fire" /\ x.user = u
        BY DEF Idle
    <2> HIDE DEF x
    <2> QED BY <1>4, <2>1, <2>2, OtherBeginStep
            DEF FireCall, MayStart, sessionVars, SessionOps
<1>5. ASSUME NEW p \in Positions, NEW form \in PositionForms, NewPostCall(w, p, form)
      PROVE  Orderly
    <2> DEFINE x == [Idle EXCEPT !.op = "newpost", !.phase = "write", !.post = p,
                                 !.form = form]
    <2>1. task' = [task EXCEPT ![w] = x]
        BY <1>5 DEF NewPostCall, Start
    <2>2. x.op = "newpost" /\ x.user = None
        BY DEF Idle
    <2> HIDE DEF x
    <2> QED BY <1>5, <2>1, <2>2, OtherBeginStep
            DEF NewPostCall, MayStart, sessionVars, SessionOps
<1>6. ASSUME NEW p \in Positions, NEW form \in PositionForms, PositionBegin(w, p, form)
      PROVE  Orderly
    BY <1>6 DEF PositionBegin, MayStart, MayRun, Undisturbed
<1> QED BY <1>1, <1>2, <1>3, <1>4, <1>5, <1>6 DEF StaffCall

LEMMA StatusWriteOrderly ==
    ASSUME TypeInv, NEW w \in Workers, StatusWrite(w) PROVE Orderly
<1> DEFINE u == task[w].user
           on == task[w].on
           refresh == IF on THEN user[u].refresh ELSE None
           row == [user[u] EXCEPT !.active = on, !.refresh = refresh]
<1>1. u \in Users /\ on \in BOOLEAN
    BY DEF StatusWrite, TypeInv, Handler, Task, Ready
<1>2. user' = [user EXCEPT ![u] = row]
    BY DEF StatusWrite
<1>3. user[u] \in Row
    BY <1>1, LiveRow DEF StatusWrite
<1>4. refresh \in Token \cup {None} /\ refresh \in {user[u].refresh, None}
    BY <1>3 DEF Row
<1> HIDE DEF on, refresh
<1>5. /\ row \in Row /\ row.version = user[u].version /\ row.role = user[u].role
      /\ row.refresh \in {user[u].refresh, None}
    BY <1>1, <1>3, <1>4 DEF Row
<1> HIDE DEF row
<1>6. user'[u] = row
    BY <1>1, <1>2 DEF TypeInv, Shapes
<1>7. RowStep(u)
    BY <1>1, <1>3, <1>5, <1>6, SameSessionStep
<1>8. \A v \in Users : RowStep(v)
    BY <1>1, <1>2, <1>7, OneRow
<1> QED BY <1>8, EndStep, SameHands DEF StatusWrite, sessionVars

LEMMA EmployeeCommitOrderly ==
    ASSUME TypeInv, SessionInv, NEW w \in Workers, EmployeeCommit(w) PROVE Orderly
<1> DEFINE u == task[w].user
           role == task[w].role
<1>1. u \in Users /\ Busy(w) /\ role \in Roles \cup {None}
    BY DEF EmployeeCommit, TypeInv, Handler, Task, Ready, Busy
<1>2. CASE UNCHANGED user
    BY <1>2, EndStep, SameRows, SameHands DEF EmployeeCommit, sessionVars
<1>3. CASE role # None /\ user' = [user EXCEPT ![u] = RoleChanged(user[u], role)]
    <2> DEFINE row == RoleChanged(user[u], role)
    <2>1. user[u] \in Row
        BY <1>1, LiveRow DEF EmployeeCommit
    <2>2. row \in Row /\ row.version = user[u].version + 1 /\ row.refresh = None
        BY <1>1, <1>3, <2>1, RoleChangedType
    <2>3. user' = [user EXCEPT ![u] = row]
        BY <1>3
    <2> HIDE DEF row
    <2> QED BY <1>1, <2>1, <2>2, <2>3, SignOutAtEnd DEF EmployeeCommit, sessionVars
<1> QED BY <1>2, <1>3 DEF EmployeeCommit

LEMMA HireCommitOrderly ==
    ASSUME TypeInv, NEW w \in Workers, HireCommit(w) PROVE Orderly
<1> DEFINE u == task[w].user
           row == NewRow(task[w].role)
<1>1. u \in Users /\ task[w].role \in Roles /\ user[u] = Unborn
    BY DEF HireCommit, TypeInv, Handler, Ready
<1>2. user' = [user EXCEPT ![u] = row]
    BY DEF HireCommit
<1>3. row \in Row /\ row.refresh = None
    BY <1>1, NewRowType
<1> HIDE DEF row
<1>4. RowStep(u)
    BY <1>1, <1>2, <1>3 DEF RowStep, TypeInv, Shapes
<1>5. \A v \in Users : RowStep(v)
    BY <1>1, <1>2, <1>4, OneRow
<1> QED BY <1>5, EndStep, SameHands DEF HireCommit, sessionVars

LEMMA FireCommitOrderly ==
    ASSUME TypeInv, NEW w \in Workers, FireCommit(w) PROVE Orderly
<1> DEFINE u == task[w].user
<1>1. u \in Users /\ user' = [user EXCEPT ![u] = Deleted]
    BY DEF FireCommit, TypeInv, Handler, Ready
<1>2. user[u] \in Row /\ user'[u] = Deleted
    BY <1>1, LiveRow DEF FireCommit, TypeInv, Shapes
<1>3. RowStep(u)
    BY <1>2 DEF RowStep
<1>4. \A v \in Users : RowStep(v)
    BY <1>1, <1>3, OneRow
<1> QED BY <1>4, EndStep, SameHands DEF FireCommit, sessionVars

LEMMA StaffStepOrderly ==
    ASSUME TypeInv, SessionInv, NEW w \in Workers, StaffStep(w) PROVE Orderly
<1>1. CASE NewPostWrite(w)
    BY <1>1, EndStep, SameRows, SameHands DEF NewPostWrite, sessionVars
<1>2. CASE PositionCommit(w)
    BY <1>2 DEF PositionCommit, SessionInv, NoCascade
<1> QED BY <1>1, <1>2, StatusWriteOrderly, EmployeeCommitOrderly, HireCommitOrderly,
           FireCommitOrderly DEF StaffStep

-----------------------------------------------------------------------------
(* Every step is orderly: single statements, failures and the clock. *)

\* A statement signs an account out.
LEMMA SignOutByStatement ==
    ASSUME TypeInv, Undisturbed, NEW op, NEW u \in Users, MayRun(op, u),
           user[u] \in Row, NEW row \in Row, user' = [user EXCEPT ![u] = row],
           row.version = user[u].version + 1, row.refresh = None, UNCHANGED task
    PROVE  NextSession(u) /\ \A v \in Users : RowStep(v)
<1>1. Left(u)
    BY LeftByStatement
<1>2. user'[u] = row
    BY DEF TypeInv, Shapes
<1>3. RowStep(u) /\ NextSession(u)
    BY <1>1, <1>2, SignOutStep
<1> QED BY <1>3, OneRow

LEMMA LogoutOrderly ==
    ASSUME TypeInv, Undisturbed, NEW u \in Users, Logout(u) PROVE Orderly
<1>1. user[u] \in Row /\ user' = [user EXCEPT ![u] = SignedOut(user[u])]
    BY LiveRow DEF Logout, SignedIn, Accepted
<1>2. \A v \in Users : RowStep(v)
    BY <1>1, SignedOutType, SignOutByStatement DEF Logout
<1> QED BY <1>2, StatementStep, SameHands DEF Logout, sessionVars

LEMMA ForceLogoutOrderly ==
    ASSUME TypeInv, Undisturbed, NEW a \in Users, NEW u \in Users, ForceLogout(a, u)
    PROVE  Orderly
<1>1. user[u] \in Row /\ user' = [user EXCEPT ![u] = SignedOut(user[u])]
    BY LiveRow DEF ForceLogout, ByAdmin
<1>2. \A v \in Users : RowStep(v)
    BY <1>1, SignedOutType, SignOutByStatement DEF ForceLogout, ByAdmin
<1> QED BY <1>2, StatementStep, SameHands DEF ForceLogout, sessionVars

LEMMA TempPasswordOrderly ==
    ASSUME TypeInv, Undisturbed, NEW a \in Users, NEW u \in Users, TempPassword(a, u)
    PROVE  Orderly
<1> DEFINE row == Unlocked(SignedOut(user[u]))
<1>1. user[u] \in Row /\ user' = [user EXCEPT ![u] = row]
    BY LiveRow DEF TempPassword, ByAdmin
<1>2. row \in Row /\ row.version = user[u].version + 1 /\ row.refresh = None
    BY <1>1, SignedOutType, UnlockedType
<1> HIDE DEF row
<1>3. \A v \in Users : RowStep(v)
    BY <1>1, <1>2, SignOutByStatement DEF TempPassword, ByAdmin
<1> QED BY <1>3, StatementStep, SameHands DEF TempPassword

LEMMA ActivateOrderly ==
    ASSUME TypeInv, NEW a \in Users, NEW u \in Users, Activate(a, u) PROVE Orderly
<1> DEFINE free == Unlocked(user[u])
           row == [free EXCEPT !.active = TRUE]
<1>1. user[u] \in Row /\ user' = [user EXCEPT ![u] = row]
    BY LiveRow DEF Activate, ByAdmin
<1>2. /\ free \in Row /\ free.version = user[u].version /\ free.role = user[u].role
      /\ free.refresh = user[u].refresh
    BY <1>1, UnlockedType
<1> HIDE DEF free
<1>3. /\ row \in Row /\ row.version = user[u].version /\ row.role = user[u].role
      /\ row.refresh = user[u].refresh
    BY <1>2 DEF Row
<1> HIDE DEF row
<1>4. user'[u] = row
    BY <1>1 DEF TypeInv, Shapes
<1>5. RowStep(u)
    BY <1>1, <1>3, <1>4, SameSessionStep
<1>6. \A v \in Users : RowStep(v)
    BY <1>1, <1>5, OneRow
<1> QED BY <1>6, StatementStep, SameHands DEF Activate

LEMMA ForgotPasswordOrderly ==
    ASSUME TypeInv, NEW u \in Users, ForgotPassword(u) PROVE Orderly
<1> DEFINE link == [user |-> u, version |-> user[u].version]
<1>1. user[u] \in Row /\ links' = links \cup {link} /\ UNCHANGED <<user, tokens, spent>>
    BY LiveRow DEF ForgotPassword
<1>2. link \in links \/ link \notin spent'
    BY <1>1 DEF TypeInv, Shapes
<1> HIDE DEF link
<1>3. HandsOut
    BY <1>1, <1>2 DEF HandsOut, link
<1> QED BY <1>1, <1>3, SameRows, StatementStep DEF ForgotPassword

LEMMA ResetPasswordOrderly ==
    ASSUME TypeInv, Undisturbed, NEW l \in links, ResetPassword(l) PROVE Orderly
<1> DEFINE u == l.user
           row == SignedOut(user[u])
<1>1. u \in Users
    BY DEF TypeInv, Shapes, Link
<1>2. user[u] \in Row /\ user' = [user EXCEPT ![u] = row]
    BY <1>1, LiveRow DEF ResetPassword, PasswordReset, LinkMatches
<1>3. row \in Row /\ row.version = user[u].version + 1 /\ row.refresh = None
    BY <1>2, SignedOutType
<1> HIDE DEF row
<1>4. NextSession(u) /\ \A v \in Users : RowStep(v)
    BY <1>1, <1>2, <1>3, SignOutByStatement DEF ResetPassword
<1>5. HandsOut
    BY <1>4 DEF HandsOut, ResetPassword
<1> QED BY <1>4, <1>5, StatementStep DEF ResetPassword

LEMMA StatementOrderly ==
    ASSUME TypeInv, Undisturbed, Statement PROVE Orderly
<1>1. ASSUME NEW c \in Captchas, GenerateCaptcha(c) \/ PurgeCaptcha(c) PROVE Orderly
    BY <1>1, StatementStep, SameRows, SameHands DEF GenerateCaptcha, PurgeCaptcha
<1> QED BY <1>1, LogoutOrderly, ForgotPasswordOrderly, ResetPasswordOrderly,
           ForceLogoutOrderly, ActivateOrderly, TempPasswordOrderly
        DEF Statement, SessionStatement, AdminStatement

LEMMA NextOrderly ==
    ASSUME TypeInv, TypeInv', SessionInv, Undisturbed, Next PROVE Orderly
<1>1. ASSUME NEW w \in Workers, Fail(w) PROVE Orderly
    BY <1>1, EndStep, SameRows, SameHands DEF Fail, sessionVars
<1>2. CASE Tick
    BY <1>2, StatementStep, SameRows, SameHands DEF Tick, sessionVars
<1> QED BY <1>1, <1>2, SessionCallOrderly, SessionStepOrderly, AdminCallOrderly,
           AdminStepOrderly, StaffCallOrderly, StaffStepOrderly, StatementOrderly
        DEF Next, Call, Step

-----------------------------------------------------------------------------
(* The sessions' invariant. *)

LEMMA SessionInvKept ==
    ASSUME TypeInv, SessionInv, Undisturbed, [Next]_accountVars PROVE SessionInv'
<1>1. TypeInv'
    BY StepType
<1>2. CASE Next
    BY <1>1, <1>2, NextOrderly, OrderlyStep
<1>3. CASE UNCHANGED accountVars
    BY <1>3 DEF accountVars, SessionInv, Alone, Current, TokensOld, LinksOld, NoCascade,
                StoredSessionIsCurrent, Busy, Live, TokenOf
<1> QED BY <1>2, <1>3

LEMMA SessionInvAtStart == Init => SessionInv
<1> SUFFICES ASSUME Init PROVE SessionInv
    OBVIOUS
<1>1. \A w \in Workers : task[w] = Idle
    BY DEF Init, AccountInit
<1>2. Alone /\ Current /\ NoCascade
    BY <1>1, IdleIsNone DEF Alone, Current, NoCascade, Busy, SessionOps
<1>3. LinksOld
    BY DEF Init, AccountInit, LinksOld
<1>4. \A u \in Users : user[u] = RowAtStart(u)
    BY DEF Init, AccountInit
<1>5. StoredSessionIsCurrent
    <2> SUFFICES ASSUME NEW u \in Users, user[u] # Unborn
                 PROVE  user[u].refresh = TokenOf(u, user[u])
        BY DEF StoredSessionIsCurrent, Live
    <2>1. RoleAtStart[u] # None
        BY <1>4 DEF RowAtStart
    <2> QED BY <1>4, <2>1, RowAtStartType
<1>6. TokensOld
    <2> SUFFICES ASSUME NEW t \in tokens
                 PROVE  /\ user[t.user] \in Row
                        /\ t.version = user[t.user].version /\ t.role = user[t.user].role
        BY AccountAssumption DEF TokensOld, Row
    <2>1. PICK u \in Users : RoleAtStart[u] # None /\ t = TokenOf(u, RowAtStart(u))
        BY DEF Init, AccountInit
    <2>2. t.user = u /\ t.version = user[u].version /\ t.role = user[u].role
        BY <1>4, <2>1 DEF TokenOf
    <2> QED BY <1>4, <2>1, <2>2, RowAtStartType
<1> QED BY <1>2, <1>3, <1>5, <1>6 DEF SessionInv

LEMMA SessionInvHolds == Undisturbed => (Spec => [](TypeInv /\ SessionInv))
<1> SUFFICES ASSUME Undisturbed PROVE Spec => [](TypeInv /\ SessionInv)
    OBVIOUS
<1>1. TypeInv /\ SessionInv /\ [Next]_accountVars => (TypeInv /\ SessionInv)'
    BY StepType, SessionInvKept
<1>2. Init => TypeInv /\ SessionInv
    BY InitType, SessionInvAtStart
<1> QED BY <1>1, <1>2, PTL DEF Spec

\* Whoever's role changes is signed out: no token of an earlier role is accepted,
\* when no handler of a session overlaps another change of its account.
THEOREM AcceptedRoleHolds == Undisturbed => (Spec => []AcceptedRoleIsCurrent)
<1> SUFFICES ASSUME Undisturbed PROVE Spec => []AcceptedRoleIsCurrent
    OBVIOUS
<1>1. TypeInv /\ SessionInv => AcceptedRoleIsCurrent
    BY DEF SessionInv, TokensOld, AcceptedRoleIsCurrent, Accepted
<1> QED BY <1>1, SessionInvHolds, PTL

\* No sign-out leaves a refresh token behind, under the same condition.
THEOREM StoredSessionHolds == Undisturbed => (Spec => []StoredSessionIsCurrent)
<1> SUFFICES ASSUME Undisturbed PROVE Spec => []StoredSessionIsCurrent
    OBVIOUS
<1>1. TypeInv /\ SessionInv => StoredSessionIsCurrent
    BY DEF SessionInv
<1> QED BY <1>1, SessionInvHolds, PTL

\* A token of an older version stays dead, whatever sign-outs, resets and changes
\* of passwords and roles follow, under the same condition.
THEOREM NoRevivalHolds == Undisturbed => (Spec => NoRevival)
<1> SUFFICES ASSUME Undisturbed PROVE Spec => NoRevival
    OBVIOUS
<1> DEFINE Dead == \A t \in tokens :
                      Live(t.user) /\ t.version # user[t.user].version =>
                          ~(Live(t.user)' /\ t.version = user'[t.user].version)
<1>1. TypeInv /\ SessionInv /\ [Next]_accountVars => [Dead]_accountVars
    <2> SUFFICES ASSUME TypeInv, SessionInv, Next, NEW t \in tokens, Live(t.user),
                        t.version # user[t.user].version, Live(t.user)'
                 PROVE  t.version # user'[t.user].version
        OBVIOUS
    <2>1. t.user \in Users /\ t.version \in Nat
        BY DEF TypeInv, Shapes, Token
    <2>2. user[t.user] # Unborn /\ t.version <= user[t.user].version
        BY DEF SessionInv, TokensOld
    <2>3. TypeInv'
        BY StepType
    <2>4. RowStep(t.user)
        BY <2>1, <2>3, NextOrderly DEF Orderly
    <2> QED BY <2>1, <2>2, <2>3, <2>4, RowsGrow DEF SameSession, NextSession
<1> QED BY <1>1, SessionInvHolds, PTL DEF Spec, NoRevival

\* A reset link that has changed a password never changes one again, under the
\* same condition.
THEOREM LinkOnceHolds == Undisturbed => (Spec => LinkOnce)
<1> SUFFICES ASSUME Undisturbed PROVE Spec => LinkOnce
    OBVIOUS
<1> DEFINE Unused == \A l \in spent : ~ResetPassword(l)
<1>1. TypeInv /\ SessionInv /\ [Next]_accountVars => [Unused]_accountVars
    BY DEF TypeInv, Shapes, SessionInv, LinksOld, ResetPassword, LinkMatches
<1> QED BY <1>1, SessionInvHolds, PTL DEF Spec, LinkOnce

-----------------------------------------------------------------------------
(* Captchas. *)

\* A login past the captcha check has its captcha marked, and its own.
CaptchaInv ==
    /\ \A w \in Workers : PastCaptcha(w) => captcha[task[w].captcha] = "claimed"
    /\ CaptchaOnce

\* A step of one handler that lets no login past the captcha check.
Elsewhere(w) ==
    /\ \A v \in Workers \ {w} : task'[v] = task[v]
    /\ PastCaptcha(w)' => PastCaptcha(w) /\ task'[w].captcha = task[w].captcha
    /\ captcha' = captcha

LEMMA ElsewhereStep ==
    ASSUME CaptchaInv, NEW w \in Workers, Elsewhere(w) PROVE CaptchaInv'
BY DEF CaptchaInv, CaptchaOnce, Elsewhere, PastCaptcha

LEMMA FinishElsewhere ==
    ASSUME TypeInv, NEW w \in Workers, Finish(w), captcha' = captcha PROVE Elsewhere(w)
BY DEF TypeInv, Finish, Idle, Elsewhere, PastCaptcha

LEMMA StartElsewhere ==
    ASSUME TypeInv, NEW w \in Workers, NEW x, Start(w, x), captcha' = captcha,
           x.op # "login" \/ x.phase = "claim"
    PROVE  Elsewhere(w)
BY DEF TypeInv, Start, Elsewhere, PastCaptcha

LEMMA CallElsewhere ==
    ASSUME TypeInv, NEW w \in Workers, Call(w) PROVE Elsewhere(w)
<1>1. CASE SessionCall(w)
    BY <1>1, StartElsewhere DEF SessionCall, ProfileCall, LoginCall, RefreshCall, LoginTask,
                                Idle, sessionVars
<1>2. CASE AdminCall(w)
    BY <1>2, StartElsewhere DEF AdminCall, SuspendCall, RoleCall, Idle, sessionVars
<1>3. CASE StaffCall(w)
    BY <1>3, StartElsewhere DEF StaffCall, StatusCall, EmployeeBegin, HireCall, FireCall,
                                NewPostCall, PositionBegin, Idle, sessionVars
<1> QED BY <1>1, <1>2, <1>3 DEF Call

\* Two logins may be past their checks, of different captchas.
LEMMA ClaimKeepsCaptchaInv ==
    ASSUME TypeInv, CaptchaInv, NEW w \in Workers, LoginClaim(w) PROVE CaptchaInv'
<1> DEFINE c == task[w].captcha
<1>1. c \in Captchas
    BY DEF LoginClaim, TypeInv, Handler, Ready
<1>2. CASE Finish(w) /\ captcha' = captcha
    BY <1>2, FinishElsewhere, ElsewhereStep
<1>3. CASE Claimable(c) /\ captcha' = [captcha EXCEPT ![c] = "claimed"]
    <2>1. \A v \in Workers \ {w} : task'[v] = task[v]
        BY DEF LoginClaim, Finish, TypeInv
    <2>2. PastCaptcha(w)' => task'[w].captcha = c
        BY IdleIsNone DEF LoginClaim, Finish, TypeInv, Handler, Task, PastCaptcha
    <2>3. \A v \in Workers : PastCaptcha(v) => task[v].captcha # c
        BY <1>3 DEF CaptchaInv, Claimable
    <2>4. captcha'[c] = "claimed" /\ \A d \in Captchas \ {c} : captcha'[d] = captcha[d]
        BY <1>1, <1>3 DEF TypeInv, Shapes
    <2>5. \A v \in Workers : PastCaptcha(v) => task[v].captcha \in Captchas
        BY DEF TypeInv, Handler, Ready, PastCaptcha
    <2> QED BY <2>1, <2>2, <2>3, <2>4, <2>5 DEF CaptchaInv, CaptchaOnce, PastCaptcha
<1> QED BY <1>2, <1>3 DEF LoginClaim

LEMMA StepKeepsCaptchaInv ==
    ASSUME TypeInv, CaptchaInv, NEW w \in Workers, Step(w) \/ Fail(w) PROVE CaptchaInv'
<1>1. CASE LoginUnlock(w) \/ RightPassword(w) \/ ReadTarget(w)
    BY <1>1, ElsewhereStep DEF LoginUnlock, RightPassword, ReadTarget, TypeInv, Handler, Task,
                               Ready, Elsewhere, PastCaptcha, sessionVars
<1>2. CASE CountAdmins(w)
    <2>1. CASE Finish(w)
        BY <1>2, <2>1, FinishElsewhere, ElsewhereStep DEF CountAdmins, sessionVars
    <2>2. CASE task' = [task EXCEPT ![w].phase = "write"]
        BY <1>2, <2>2, ElsewhereStep DEF CountAdmins, TypeInv, Handler, Task, Ready, Elsewhere,
                                         PastCaptcha, sessionVars
    <2> QED BY <1>2, <2>1, <2>2 DEF CountAdmins
<1>3. CASE Finish(w) /\ captcha' = captcha
    BY <1>3, FinishElsewhere, ElsewhereStep
<1> QED BY <1>1, <1>2, <1>3, ClaimKeepsCaptchaInv
        DEF Step, SessionStep, AdminStep, StaffStep, WrongPassword, LoginSuspended,
            LoginUnknown, StoreTokens, ProfileWrite, SuspendWrite, RoleWrite, StatusWrite,
            EmployeeCommit, HireCommit, FireCommit, NewPostWrite, PositionCommit, Fail,
            sessionVars

LEMMA StatementKeepsCaptchaInv ==
    ASSUME TypeInv, CaptchaInv, Statement \/ Tick PROVE CaptchaInv'
<1>1. ASSUME NEW c \in Captchas, GenerateCaptcha(c) PROVE CaptchaInv'
    BY <1>1 DEF GenerateCaptcha, TypeInv, Shapes, CaptchaInv, CaptchaOnce, PastCaptcha
<1>2. ASSUME NEW c \in Captchas, PurgeCaptcha(c) PROVE CaptchaInv'
    BY <1>2 DEF PurgeCaptcha, TypeInv, Shapes, CaptchaInv, CaptchaOnce, PastCaptcha
<1>3. CASE UNCHANGED <<captcha, task>>
    BY <1>3 DEF CaptchaInv, CaptchaOnce, PastCaptcha
<1> QED BY <1>1, <1>2, <1>3
        DEF Statement, SessionStatement, AdminStatement, Logout, ForgotPassword, ResetPassword,
            ForceLogout, Activate, TempPassword, Tick, sessionVars

\* One picture lets at most one login past the check, however many logins show it
\* at once: claiming it is one conditional update.
THEOREM CaptchaOnceHolds == Spec => []CaptchaOnce
<1>1. Init => CaptchaInv
    BY DEF Init, AccountInit, Idle, CaptchaInv, CaptchaOnce, PastCaptcha
<1>2. TypeInv /\ CaptchaInv /\ [Next]_accountVars => CaptchaInv'
    <2> SUFFICES ASSUME TypeInv, CaptchaInv, [Next]_accountVars PROVE CaptchaInv'
        OBVIOUS
    <2>1. CASE UNCHANGED accountVars
        BY <2>1 DEF accountVars, CaptchaInv, CaptchaOnce, PastCaptcha
    <2> QED BY <2>1, CallElsewhere, ElsewhereStep, StepKeepsCaptchaInv,
               StatementKeepsCaptchaInv DEF Next
<1>3. CaptchaInv => CaptchaOnce
    BY DEF CaptchaInv
<1> QED BY <1>1, <1>2, <1>3, InitType, StepType, PTL DEF Spec

-----------------------------------------------------------------------------
(* Locks, when a login overlaps nothing on its account. *)

LoginsAlone == "login" \in Exclusive

\* A login is alone on its account.
LoginAlone ==
    \A v, w \in Workers :
        v # w /\ Busy(w) /\ task[v].op = "login" /\ task[v].user = task[w].user =>
            task[v].user = None

\* What a login has read of the lock is still so until the password is compared,
\* and past the captcha check no lock is in force.
LoginFresh ==
    \A w \in Workers : task[w].op = "login" /\ task[w].user # None =>
        /\ user[task[w].user] # Unborn
        /\ Live(task[w].user) /\ task[w].phase # "store" =>
              /\ task[w].seen.attempts = user[task[w].user].attempts
              /\ task[w].seen.lock = user[task[w].user].lock
              /\ task[w].phase # "claim" => ~InForce(task[w].user)

\* The row counts every wrong password since the last right one, and is locked
\* when they are too many.
Counted ==
    \A u \in Users :
        /\ user[u] = Unborn => misses[u] = 0
        /\ Live(u) => /\ misses[u] <= user[u].attempts
                      /\ user[u].attempts >= MaxAttempts => user[u].lock # None

LockInv == LoginAlone /\ LoginFresh /\ Counted

-----------------------------------------------------------------------------
(* What a step does to locks. *)

SameLock(u) ==
    /\ user[u] \in Row /\ user'[u] \in Row
    /\ user'[u].attempts = user[u].attempts /\ user'[u].lock = user[u].lock

LockStays(u) ==
    \/ user'[u] = user[u]
    \/ user[u] # Unborn /\ user'[u] = Deleted
    \/ user[u] = Unborn /\ user'[u] \in Row /\ user'[u].attempts = 0 /\ user'[u].lock = None
    \/ SameLock(u)

LocksStay == \A u \in Users : LockStays(u)

\* A handler ends, or one that is no login goes on.
Steady(v) ==
    \/ task'[v] = task[v] \/ task'[v] = Idle
    \/ task'[v].op = task[v].op /\ task'[v].user = task[v].user /\ task[v].op # "login"

Enters(v) ==
    /\ MayRun(task'[v].op, task'[v].user)
    /\ \A x \in Workers \ {v} : task'[x] = task[x]
    /\ user' = user
    /\ task'[v].op = "login" =>
          /\ task'[v].phase = "claim"
          /\ task'[v].user # None =>
                user[task'[v].user] \in Row /\ task'[v].seen = user[task'[v].user]

\* A step that touches no lock and takes no login further.
Calm ==
    /\ LocksStay
    /\ misses' = misses
    /\ now' \in {now, now + 1}
    /\ \A v \in Workers : Steady(v) \/ Enters(v)

LEMMA LockFacts ==
    ASSUME TypeInv, NEW u \in Users
    PROVE  /\ user[u] \in Row => /\ user[u].attempts \in Nat
                                 /\ user[u].lock \in Nat \cup {None}
                                 /\ user[u] # Unborn /\ Live(u)
           /\ user[u] \in Row \cup {Unborn, Deleted}
           /\ misses[u] \in Nat /\ now \in Nat
<1>1. \A row \in Row : row.attempts \in Nat /\ row.lock \in Nat \cup {None}
    BY DEF Row
<1>2. user[u] \in Row => user[u] # Unborn /\ Live(u)
    BY AccountAssumption DEF Live
<1> QED BY <1>1, <1>2 DEF TypeInv, Shapes

LEMMA SameUsersStay == ASSUME UNCHANGED user PROVE LocksStay
BY DEF LocksStay, LockStays

LEMMA OneLockStays ==
    ASSUME TypeInv, NEW u \in Users, user[u] \in Row, NEW row \in Row,
           user' = [user EXCEPT ![u] = row],
           row.attempts = user[u].attempts, row.lock = user[u].lock
    PROVE  LocksStay
<1>1. user'[u] = row /\ \A v \in Users \ {u} : user'[v] = user[v]
    BY DEF TypeInv, Shapes
<1>2. SameLock(u)
    BY <1>1 DEF SameLock
<1> QED BY <1>1, <1>2 DEF LocksStay, LockStays

\* Signing out and changing the role leave the lock alone.
LEMMA SignedOutLock ==
    ASSUME NEW row \in Row
    PROVE  /\ SignedOut(row).attempts = row.attempts /\ SignedOut(row).lock = row.lock
           /\ \A role : /\ RoleChanged(row, role).attempts = row.attempts
                        /\ RoleChanged(row, role).lock = row.lock
BY DEF Row, SignedOut, RoleChanged

LEMMA UnlockedLock ==
    ASSUME NEW row \in Row
    PROVE  Unlocked(row).attempts = 0 /\ Unlocked(row).lock = None
BY DEF Row, Unlocked

LEMMA CalmEnd ==
    ASSUME TypeInv, NEW w \in Workers, Finish(w), LocksStay, UNCHANGED <<misses, now>>
    PROVE  Calm
BY DEF TypeInv, Finish, Calm, Steady

LEMMA CalmStatement ==
    ASSUME LocksStay, UNCHANGED <<task, misses>>, now' \in {now, now + 1} PROVE Calm
BY DEF Calm, Steady

LEMMA CalmBegin ==
    ASSUME TypeInv, NEW w \in Workers, NEW x, task' = [task EXCEPT ![w] = x],
           MayRun(x.op, x.user), UNCHANGED <<user, misses, now>>,
           x.op = "login" =>
              /\ x.phase = "claim"
              /\ x.user # None => user[x.user] \in Row /\ x.seen = user[x.user]
    PROVE  Calm
<1>1. task'[w] = x /\ \A v \in Workers \ {w} : task'[v] = task[v]
    BY DEF TypeInv
<1>2. Enters(w)
    BY <1>1 DEF Enters
<1> QED BY <1>1, <1>2, SameUsersStay DEF Calm, Steady

\* A handler that is no login begins.
LEMMA CalmOther ==
    ASSUME TypeInv, NEW w \in Workers, NEW x, Start(w, x), MayRun(x.op, x.user),
           UNCHANGED <<user, misses, now>>, x.op # "login"
    PROVE  Calm
BY CalmBegin DEF Start

LEMMA SessionCallCalm ==
    ASSUME TypeInv, NEW w \in Workers, SessionCall(w) PROVE Calm
<1>1. ASSUME NEW u \in Users, ProfileCall(w, u) PROVE Calm
    <2> DEFINE x == [Idle EXCEPT !.op = "profile", !.phase = "write", !.user = u,
                                 !.seen = user[u]]
    <2>1. Start(w, x) /\ MayRun("profile", u) /\ UNCHANGED <<user, misses, now>>
        BY <1>1 DEF ProfileCall, MayStart, sessionVars
    <2>2. x.op = "profile" /\ x.user = u
        BY DEF Idle
    <2> HIDE DEF x
    <2> QED BY <2>1, <2>2, CalmOther
<1>2. ASSUME NEW u \in Users \cup {None}, NEW c \in Captchas, LoginCall(w, u, c)
      PROVE  Calm
    <2> DEFINE x == LoginTask(u, IF u = None THEN None ELSE user[u], c)
    <2>1. /\ task' = [task EXCEPT ![w] = x] /\ MayRun("login", u)
          /\ UNCHANGED <<user, misses, now>>
        BY <1>2 DEF LoginCall, Start, MayStart, sessionVars
    <2>2. u # None => u \in Users /\ user[u] \in Row
        BY <1>2, LiveRow DEF LoginCall
    <2>3. /\ x.op = "login" /\ x.user = u /\ x.phase = "claim"
          /\ u # None => x.seen = user[u]
        BY DEF LoginTask, Idle
    <2> HIDE DEF x
    <2> QED BY <2>1, <2>2, <2>3, CalmBegin
<1>3. ASSUME NEW t \in tokens, RefreshCall(w, t) PROVE Calm
    <2> DEFINE u == t.user
               x == [Idle EXCEPT !.op = "refresh", !.phase = "store", !.user = u,
                                 !.seen = user[u]]
    <2>1. Start(w, x) /\ MayRun("refresh", u) /\ UNCHANGED <<user, misses, now>>
        BY <1>3 DEF RefreshCall, MayStart, sessionVars
    <2>2. x.op = "refresh" /\ x.user = u
        BY DEF Idle
    <2> HIDE DEF x
    <2> QED BY <2>1, <2>2, CalmOther
<1> QED BY <1>1, <1>2, <1>3 DEF SessionCall

LEMMA AdminCallCalm ==
    ASSUME TypeInv, NEW w \in Workers, AdminCall(w) PROVE Calm
<1>1. ASSUME NEW a \in Users, NEW u \in Users, SuspendCall(w, a, u) PROVE Calm
    <2> DEFINE x == [Idle EXCEPT !.op = "suspend", !.phase = "target", !.user = u]
    <2>1. Start(w, x) /\ MayRun("suspend", u) /\ UNCHANGED <<user, misses, now>>
        BY <1>1 DEF SuspendCall, MayStart, sessionVars
    <2>2. x.op = "suspend" /\ x.user = u
        BY DEF Idle
    <2> HIDE DEF x
    <2> QED BY <2>1, <2>2, CalmOther
<1>2. ASSUME NEW a \in Users, NEW u \in Users, NEW role \in RoleForms, RoleCall(w, a, u, role)
      PROVE  Calm
    <2> DEFINE phase == IF role = "Admin" THEN "write" ELSE "target"
               x == [Idle EXCEPT !.op = "role", !.user = u, !.role = role, !.phase = phase]
    <2>1. Start(w, x) /\ MayRun("role", u) /\ UNCHANGED <<user, misses, now>>
        BY <1>2 DEF RoleCall, MayStart, sessionVars
    <2> HIDE DEF phase
    <2>2. x.op = "role" /\ x.user = u
        BY DEF Idle
    <2> HIDE DEF x
    <2> QED BY <2>1, <2>2, CalmOther
<1> QED BY <1>1, <1>2 DEF AdminCall

LEMMA StaffCallCalm ==
    ASSUME TypeInv, NEW w \in Workers, StaffCall(w) PROVE Calm
<1>1. ASSUME NEW u \in Users, NEW on \in BOOLEAN, StatusCall(w, u, on) PROVE Calm
    <2> DEFINE x == [Idle EXCEPT !.op = "status", !.phase = "write", !.user = u, !.on = on]
    <2>1. Start(w, x) /\ MayRun("status", u) /\ UNCHANGED <<user, misses, now>>
        BY <1>1 DEF StatusCall, MayStart, sessionVars
    <2>2. x.op = "status" /\ x.user = u
        BY DEF Idle
    <2> HIDE DEF x
    <2> QED BY <2>1, <2>2, CalmOther
<1>2. ASSUME NEW u \in Users, NEW form \in EmployeeForms, EmployeeBegin(w, u, form)
      PROVE  Calm
    <2> DEFINE role == RoleAskedFor(u, form)
               on == Moves(u, form)
               x == [Idle EXCEPT !.op = "employee", !.phase = "tx", !.user = u,
                                 !.seen = user[u], !.form = form, !.role = role, !.on = on]
    <2>1. Start(w, x) /\ MayRun("employee", u) /\ UNCHANGED <<user, misses, now>>
        BY <1>2 DEF EmployeeBegin, MayStart, sessionVars
    <2> HIDE DEF role, on
    <2>2. x.op = "employee" /\ x.user = u
        BY DEF Idle
    <2> HIDE DEF x
    <2> QED BY <2>1, <2>2, CalmOther
<1>3. ASSUME NEW u \in Users, NEW form \in EmployeeForms, HireCall(w, u, form)
      PROVE  Calm
    <2> DEFINE role == ImpliedRole(form.post, form.role)
               x == [Idle EXCEPT !.op = "hire", !.phase = "tx", !.user = u, !.form = form,
                                 !.role = role]
    <2>1. Start(w, x) /\ MayRun("hire", u) /\ UNCHANGED <<user, misses, now>>
        BY <1>3 DEF HireCall, MayStart, sessionVars
    <2> HIDE DEF role
    <2>2. x.op = "hire" /\ x.user = u
        BY DEF Idle
    <2> HIDE DEF x
    <2> QED BY <2>1, <2>2, CalmOther
<1>4. ASSUME NEW u \in Users, FireCall(w, u) PROVE Calm
    <2> DEFINE x == [Idle EXCEPT !.op = "fire", !.phase = "tx", !.user = u]
    <2>1. Start(w, x) /\ MayRun("fire", u) /\ UNCHANGED <<user, misses, now>>
        BY <1>4 DEF FireCall, MayStart, sessionVars
    <2>2. x.op = "fire" /\ x.user = u
        BY DEF Idle
    <2> HIDE DEF x
    <2> QED BY <2>1, <2>2, CalmOther
<1>5. ASSUME NEW p \in Positions, NEW form \in PositionForms, NewPostCall(w, p, form)
      PROVE  Calm
    <2> DEFINE x == [Idle EXCEPT !.op = "newpost", !.phase = "write", !.post = p,
                                 !.form = form]
    <2>1. Start(w, x) /\ MayRun("newpost", None) /\ UNCHANGED <<user, misses, now>>
        BY <1>5 DEF NewPostCall, MayStart, sessionVars
    <2>2. x.op = "newpost" /\ x.user = None
        BY DEF Idle
    <2> HIDE DEF x
    <2> QED BY <2>1, <2>2, CalmOther
<1>6. ASSUME NEW p \in Positions, NEW form \in PositionForms, PositionBegin(w, p, form)
      PROVE  Calm
    <2> DEFINE held == IF form.role = None THEN {}
                       ELSE {u \in Holders(p) : user[u].role # CascadedRole(form)}
               x == [Idle EXCEPT !.op = "position", !.phase = "tx", !.post = p,
                                 !.form = form, !.holders = held]
    <2>1. Start(w, x) /\ MayRun("position", None) /\ UNCHANGED <<user, misses, now>>
        BY <1>6 DEF PositionBegin, MayStart, sessionVars
    <2> HIDE DEF held
    <2>2. x.op = "position" /\ x.user = None
        BY DEF Idle
    <2> HIDE DEF x
    <2> QED BY <2>1, <2>2, CalmOther
<1> QED BY <1>1, <1>2, <1>3, <1>4, <1>5, <1>6 DEF StaffCall

LEMMA SessionStepCalm ==
    ASSUME TypeInv, NEW w \in Workers,
           LoginSuspended(w) \/ LoginUnknown(w) \/ StoreTokens(w) \/ ProfileWrite(w)
    PROVE  Calm
<1>1. CASE LoginSuspended(w) \/ LoginUnknown(w)
    BY <1>1, CalmEnd, SameUsersStay DEF LoginSuspended, LoginUnknown, sessionVars
<1>2. CASE StoreTokens(w)
    <2> DEFINE u == task[w].user
               token == TokenOf(u, task[w].seen)
               row == [user[u] EXCEPT !.refresh = token]
    <2>1. u \in Users /\ task[w].seen \in Row /\ Live(u)
        BY <1>2 DEF StoreTokens, TypeInv, Handler, Task, Ready
    <2>2. token \in Token /\ user[u] \in Row
        BY <2>1, TokenType, LiveRow
    <2>3. user' = [user EXCEPT ![u] = row] /\ Finish(w) /\ UNCHANGED <<misses, now>>
        BY <1>2 DEF StoreTokens
    <2> HIDE DEF token
    <2>4. row \in Row /\ row.attempts = user[u].attempts /\ row.lock = user[u].lock
        BY <2>2 DEF Row
    <2> HIDE DEF row
    <2> QED BY <2>1, <2>2, <2>3, <2>4, OneLockStays, CalmEnd
<1>3. CASE ProfileWrite(w)
    <2> DEFINE u == task[w].user
               n == task[w].seen.version + 1
               token == [user |-> u, role |-> task[w].seen.role, version |-> n]
               row == [user[u] EXCEPT !.version = token.version, !.refresh = token]
    <2>1. u \in Users /\ task[w].seen \in Row /\ Live(u)
        BY <1>3 DEF ProfileWrite, TypeInv, Handler, Task, Ready
    <2>2. user[u] \in Row /\ n \in Nat /\ task[w].seen.role \in Roles
        BY <2>1, LiveRow DEF Row
    <2>3. user' = [user EXCEPT ![u] = row] /\ Finish(w) /\ UNCHANGED <<misses, now>>
        BY <1>3 DEF ProfileWrite
    <2> HIDE DEF n
    <2>4. token \in Token /\ token.version \in Nat
        BY <2>1, <2>2 DEF Token
    <2> HIDE DEF token
    <2>5. row \in Row /\ row.attempts = user[u].attempts /\ row.lock = user[u].lock
        BY <2>2, <2>4 DEF Row
    <2> HIDE DEF row
    <2> QED BY <2>1, <2>2, <2>3, <2>5, OneLockStays, CalmEnd
<1> QED BY <1>1, <1>2, <1>3

\* A handler that is no login goes on.
LEMMA CalmOn ==
    ASSUME TypeInv, NEW w \in Workers, NEW x, task' = [task EXCEPT ![w] = x],
           x.op = task[w].op, x.user = task[w].user, x.op # "login",
           UNCHANGED <<user, misses, now>>
    PROVE  Calm
<1>1. task'[w] = x /\ \A v \in Workers \ {w} : task'[v] = task[v]
    BY DEF TypeInv
<1> QED BY <1>1, SameUsersStay DEF Calm, Steady

LEMMA AdminStepCalm ==
    ASSUME TypeInv, NEW w \in Workers, AdminStep(w) PROVE Calm
<1>1. CASE ReadTarget(w)
    <2> DEFINE phase == IF user[task[w].user].role = "Admin" /\ user[task[w].user].active
                        THEN "count" ELSE "write"
               x == [task[w] EXCEPT !.phase = phase]
    <2>1. /\ task' = [task EXCEPT ![w] = x] /\ UNCHANGED <<user, misses, now>>
          /\ task[w].op # "login"
        BY <1>1 DEF ReadTarget, sessionVars, TypeInv, Handler, Ready
    <2> HIDE DEF phase
    <2>2. x.op = task[w].op /\ x.user = task[w].user
        BY DEF TypeInv, Handler, Task
    <2> HIDE DEF x
    <2> QED BY <2>1, <2>2, CalmOn
<1>2. CASE CountAdmins(w)
    <2> DEFINE x == [task[w] EXCEPT !.phase = "write"]
    <2>1. UNCHANGED <<user, misses, now>> /\ task[w].op # "login"
        BY <1>2 DEF CountAdmins, sessionVars, TypeInv, Handler, Ready
    <2>2. Finish(w) \/ task' = [task EXCEPT ![w] = x]
        BY <1>2 DEF CountAdmins
    <2>3. x.op = task[w].op /\ x.user = task[w].user
        BY DEF TypeInv, Handler, Task
    <2> HIDE DEF x
    <2> QED BY <2>1, <2>2, <2>3, CalmOn, CalmEnd, SameUsersStay
<1>3. CASE SuspendWrite(w)
    <2> DEFINE u == task[w].user
               out == SignedOut(user[u])
               row == [out EXCEPT !.active = FALSE]
    <2>1. u \in Users /\ Live(u)
        BY <1>3 DEF SuspendWrite, TypeInv, Handler, Ready
    <2>2. user[u] \in Row
        BY <2>1, LiveRow
    <2>3. out \in Row /\ out.attempts = user[u].attempts /\ out.lock = user[u].lock
        BY <2>2, SignedOutType, SignedOutLock
    <2>4. user' = [user EXCEPT ![u] = row] /\ Finish(w) /\ UNCHANGED <<misses, now>>
        BY <1>3 DEF SuspendWrite, sessionVars
    <2> HIDE DEF out
    <2>5. row \in Row /\ row.attempts = user[u].attempts /\ row.lock = user[u].lock
        BY <2>3 DEF Row
    <2> HIDE DEF row
    <2> QED BY <2>1, <2>2, <2>4, <2>5, OneLockStays, CalmEnd
<1>4. CASE RoleWrite(w)
    <2> DEFINE u == task[w].user
               row == RoleChanged(user[u], task[w].role)
    <2>1. u \in Users /\ Live(u) /\ task[w].role \in Roles
        BY <1>4 DEF RoleWrite, TypeInv, Handler, Ready
    <2>2. user[u] \in Row
        BY <2>1, LiveRow
    <2>3. row \in Row /\ row.attempts = user[u].attempts /\ row.lock = user[u].lock
        BY <2>1, <2>2, RoleChangedType, SignedOutLock
    <2>4. user' = [user EXCEPT ![u] = row] /\ Finish(w) /\ UNCHANGED <<misses, now>>
        BY <1>4 DEF RoleWrite, sessionVars
    <2> HIDE DEF row
    <2> QED BY <2>1, <2>2, <2>3, <2>4, OneLockStays, CalmEnd
<1> QED BY <1>1, <1>2, <1>3, <1>4 DEF AdminStep

LEMMA StaffStepCalm ==
    ASSUME TypeInv, NEW w \in Workers, StaffStep(w) PROVE Calm
<1>1. CASE StatusWrite(w)
    <2> DEFINE u == task[w].user
               on == task[w].on
               refresh == IF on THEN user[u].refresh ELSE None
               row == [user[u] EXCEPT !.active = on, !.refresh = refresh]
    <2>1. u \in Users /\ on \in BOOLEAN /\ Live(u)
        BY <1>1 DEF StatusWrite, TypeInv, Handler, Task, Ready
    <2>2. user[u] \in Row
        BY <2>1, LiveRow
    <2>3. user' = [user EXCEPT ![u] = row] /\ Finish(w) /\ UNCHANGED <<misses, now>>
        BY <1>1 DEF StatusWrite, sessionVars
    <2>4. refresh \in Token \cup {None}
        BY <2>2 DEF Row
    <2> HIDE DEF on, refresh
    <2>5. row \in Row /\ row.attempts = user[u].attempts /\ row.lock = user[u].lock
        BY <2>1, <2>2, <2>4 DEF Row
    <2> HIDE DEF row
    <2> QED BY <2>1, <2>2, <2>3, <2>5, OneLockStays, CalmEnd
<1>2. CASE EmployeeCommit(w)
    <2> DEFINE u == task[w].user
               role == task[w].role
               row == RoleChanged(user[u], role)
    <2>1. u \in Users /\ role \in Roles \cup {None} /\ Live(u)
        BY <1>2 DEF EmployeeCommit, TypeInv, Handler, Task, Ready
    <2>2. Finish(w) /\ UNCHANGED <<misses, now>>
        BY <1>2 DEF EmployeeCommit, sessionVars
    <2>3. \/ UNCHANGED user
          \/ role # None /\ user' = [user EXCEPT ![u] = row]
        BY <1>2 DEF EmployeeCommit
    <2>4. user[u] \in Row
        BY <2>1, LiveRow
    <2>5. role # None =>
             row \in Row /\ row.attempts = user[u].attempts /\ row.lock = user[u].lock
        BY <2>1, <2>4, RoleChangedType, SignedOutLock
    <2> HIDE DEF row
    <2> QED BY <2>1, <2>2, <2>3, <2>4, <2>5, OneLockStays, SameUsersStay, CalmEnd
<1>3. CASE HireCommit(w)
    <2> DEFINE u == task[w].user
               row == NewRow(task[w].role)
    <2>1. u \in Users /\ task[w].role \in Roles /\ user[u] = Unborn
        BY <1>3 DEF HireCommit, TypeInv, Handler, Ready
    <2>2. user' = [user EXCEPT ![u] = row] /\ Finish(w) /\ UNCHANGED <<misses, now>>
        BY <1>3 DEF HireCommit, sessionVars
    <2>3. row \in Row /\ row.attempts = 0 /\ row.lock = None
        BY <2>1, NewRowType DEF NewRow
    <2> HIDE DEF row
    <2>4. user'[u] = row /\ \A v \in Users \ {u} : user'[v] = user[v]
        BY <2>1, <2>2 DEF TypeInv, Shapes
    <2>5. LocksStay
        BY <2>1, <2>3, <2>4 DEF LocksStay, LockStays
    <2> QED BY <2>2, <2>5, CalmEnd
<1>4. CASE FireCommit(w)
    <2> DEFINE u == task[w].user
    <2>1. u \in Users /\ Live(u)
        BY <1>4 DEF FireCommit, TypeInv, Handler, Ready
    <2>2. user' = [user EXCEPT ![u] = Deleted] /\ Finish(w) /\ UNCHANGED <<misses, now>>
        BY <1>4 DEF FireCommit, sessionVars
    <2>3. user'[u] = Deleted /\ \A v \in Users \ {u} : user'[v] = user[v]
        BY <2>1, <2>2 DEF TypeInv, Shapes
    <2>4. LocksStay
        BY <2>1, <2>3 DEF LocksStay, LockStays, Live
    <2> QED BY <2>2, <2>4, CalmEnd
<1>5. CASE NewPostWrite(w)
    BY <1>5, CalmEnd, SameUsersStay DEF NewPostWrite, sessionVars
<1>6. CASE PositionCommit(w)
    <2> DEFINE t == task[w]
               role == CascadedRole(t.form)
    <2>1. t.holders \subseteq Users /\ (t.holders # {} => role \in Roles)
        BY <1>6, CascadedRoleType DEF PositionCommit, TypeInv, Handler, Task, Ready
    <2>2. /\ user' = [u \in Users |-> IF u \in t.holders
                                      THEN RoleChanged(user[u], role) ELSE user[u]]
          /\ \A u \in t.holders : Live(u)
          /\ Finish(w) /\ UNCHANGED <<misses, now>>
        BY <1>6 DEF PositionCommit, sessionVars
    <2> HIDE DEF role
    <2>3. ASSUME NEW u \in t.holders PROVE SameLock(u)
        <3>1. u \in Users /\ Live(u) /\ role \in Roles
            BY <2>1, <2>2
        <3>2. user[u] \in Row /\ user'[u] = RoleChanged(user[u], role)
            BY <2>2, <3>1, LiveRow
        <3> QED BY <3>1, <3>2, RoleChangedType, SignedOutLock DEF SameLock
    <2>4. \A u \in Users \ t.holders : user'[u] = user[u]
        BY <2>2
    <2>5. LocksStay
        BY <2>3, <2>4 DEF LocksStay, LockStays
    <2> QED BY <2>2, <2>5, CalmEnd
<1> QED BY <1>1, <1>2, <1>3, <1>4, <1>5, <1>6 DEF StaffStep

\* Statements of an Admin that unlock.
Pardon == \E a, u \in Users : Activate(a, u) \/ TempPassword(a, u)

LEMMA StatementCalm ==
    ASSUME TypeInv, Statement, ~Pardon PROVE Calm
<1>1. ASSUME NEW c \in Captchas, GenerateCaptcha(c) \/ PurgeCaptcha(c) PROVE Calm
    BY <1>1, SameUsersStay, CalmStatement DEF GenerateCaptcha, PurgeCaptcha
<1>2. ASSUME NEW u \in Users, ForgotPassword(u) PROVE Calm
    BY <1>2, SameUsersStay, CalmStatement DEF ForgotPassword
<1>3. ASSUME NEW u \in Users, Live(u), user' = [user EXCEPT ![u] = SignedOut(user[u])],
             UNCHANGED <<misses, now, task>>
      PROVE  Calm
    <2> DEFINE row == SignedOut(user[u])
    <2>1. user[u] \in Row
        BY <1>3, LiveRow
    <2>2. row \in Row /\ row.attempts = user[u].attempts /\ row.lock = user[u].lock
        BY <2>1, SignedOutType, SignedOutLock
    <2> HIDE DEF row
    <2>3. user' = [user EXCEPT ![u] = row]
        BY <1>3 DEF row
    <2>4. LocksStay
        BY <2>1, <2>2, <2>3, OneLockStays
    <2> QED BY <1>3, <2>4, CalmStatement
<1>4. ASSUME NEW u \in Users, Logout(u) PROVE Calm
    <2>1. Live(u)
        BY <1>4 DEF Logout, SignedIn, Accepted
    <2> QED BY <1>3, <1>4, <2>1 DEF Logout, sessionVars
<1>5. ASSUME NEW a \in Users, NEW u \in Users, ForceLogout(a, u) PROVE Calm
    BY <1>3, <1>5 DEF ForceLogout, ByAdmin, sessionVars
<1>6. ASSUME NEW l \in links, ResetPassword(l) PROVE Calm
    <2>1. l.user \in Users
        BY DEF TypeInv, Shapes, Link
    <2> QED BY <1>3, <1>6, <2>1 DEF ResetPassword, PasswordReset, LinkMatches
<1> QED BY <1>1, <1>2, <1>4, <1>5, <1>6
        DEF Statement, SessionStatement, AdminStatement, Pardon

\* Every step is calm but those of a login before its tokens, and of an Admin who
\* unlocks.
LEMMA LockSteps ==
    ASSUME TypeInv, [Next]_accountVars
    PROVE  \/ Calm \/ Pardon
           \/ \E w \in Workers :
                 LoginClaim(w) \/ LoginUnlock(w) \/ WrongPassword(w) \/ RightPassword(w)
<1>1. ASSUME NEW w \in Workers, Fail(w) PROVE Calm
    BY <1>1, CalmEnd, SameUsersStay DEF Fail, sessionVars
<1>2. CASE Tick \/ UNCHANGED accountVars
    BY <1>2, CalmStatement, SameUsersStay DEF Tick, sessionVars, accountVars
<1> QED BY <1>1, <1>2, SessionCallCalm, AdminCallCalm, StaffCallCalm, SessionStepCalm,
           AdminStepCalm, StaffStepCalm, StatementCalm
        DEF Next, Call, Step, SessionStep

-----------------------------------------------------------------------------
(* The locks' invariant. *)

\* Of the handlers of one account, one that is no login goes on or ends, and one
\* that begins finds no login there.
LEMMA LoginAloneCalm ==
    ASSUME LoginsAlone, LoginAlone, Calm PROVE LoginAlone'
<1> SUFFICES ASSUME NEW v \in Workers, NEW w \in Workers, v # w, task'[w].op # "idle",
                    task'[v].op = "login", task'[v].user = task'[w].user,
                    task'[v].user # None
             PROVE  FALSE
    BY DEF LoginAlone, Busy
<1>1. ASSUME NEW x \in Workers, NEW y \in Workers, x # y, Enters(x), task'[y].op # "idle",
             task'[x].user = task'[y].user, task'[x].user # None,
             "login" \in {task'[x].op, task'[y].op}
      PROVE  FALSE
    <2>1. task'[y] = task[y]
        BY <1>1 DEF Enters
    <2>2. {task'[x].op, task[y].op} \cap Exclusive = {}
        BY <1>1, <2>1 DEF Enters, MayRun, Busy
    <2> QED BY <1>1, <2>1, <2>2 DEF LoginsAlone
<1>2. Steady(v) /\ Steady(w)
    BY <1>1 DEF Calm
<1>3. task[v].op = "login" /\ task[v].user = task'[v].user
    BY <1>2, IdleIsNone DEF Steady
<1>4. task[w].op # "idle" /\ task[w].user = task'[w].user
    BY <1>2, IdleIsNone DEF Steady
<1> QED BY <1>3, <1>4 DEF LoginAlone, Busy

LEMMA InForceStays ==
    ASSUME TypeInv, TypeInv', NEW u \in Users, LockStays(u), user[u] # Unborn,
           now' \in {now, now + 1}
    PROVE  /\ user'[u] # Unborn
           /\ Live(u)' => /\ Live(u)
                          /\ user'[u].attempts = user[u].attempts
                          /\ user'[u].lock = user[u].lock
           /\ InForce(u)' => InForce(u)
           /\ InForce(u) /\ now' = now => user'[u] = Deleted \/ InForce(u)'
<1>1. Live(u)' <=> user'[u] \in Row
    BY AccountAssumption DEF TypeInv, Shapes, Live
<1>2. Live(u) <=> user[u] \in Row
    BY LiveIsRow
<1>3. Unborn \notin Row /\ Deleted \notin Row /\ Unborn # Deleted
    BY AccountAssumption
<1>4. /\ user'[u] # Unborn
      /\ Live(u)' => /\ Live(u)
                     /\ user'[u].attempts = user[u].attempts /\ user'[u].lock = user[u].lock
      /\ Live(u) => user'[u] = Deleted \/ Live(u)'
    BY <1>1, <1>2, <1>3 DEF LockStays, SameLock
<1>5. Live(u) => user[u].lock \in Nat \cup {None}
    BY <1>2, LockFacts
<1>6. now \in Nat
    BY DEF TypeInv, Shapes
<1>7. InForce(u)' => InForce(u)
    <2> SUFFICES ASSUME InForce(u)' PROVE InForce(u)
        OBVIOUS
    <2>1. /\ Live(u) /\ user[u].lock # None /\ user'[u].lock = user[u].lock
          /\ user'[u].lock > now'
        BY <1>4 DEF InForce
    <2>2. user[u].lock \in Nat
        BY <1>5, <2>1
    <2>3. user[u].lock > now
        BY <1>6, <2>1, <2>2
    <2> QED BY <2>1, <2>3 DEF InForce
<1>8. InForce(u) /\ now' = now => user'[u] = Deleted \/ InForce(u)'
    BY <1>4 DEF InForce
<1> QED BY <1>4, <1>7, <1>8

LEMMA LoginFreshCalm ==
    ASSUME TypeInv, TypeInv', LoginFresh, Calm PROVE LoginFresh'
<1> SUFFICES ASSUME NEW w \in Workers, NEW u \in Users, u = task'[w].user,
                    task'[w].op = "login", u # None
             PROVE  /\ user'[u] # Unborn
                    /\ Live(u)' /\ task'[w].phase # "store" =>
                          /\ task'[w].seen.attempts = user'[u].attempts
                          /\ task'[w].seen.lock = user'[u].lock
                          /\ task'[w].phase # "claim" => ~InForce(u)'
    <2>1. \A w \in Workers : task'[w].user \in Users \cup {None}
        BY DEF TypeInv, Handler, Task
    <2> QED BY <2>1 DEF LoginFresh, Live, InForce
<1>1. CASE Enters(w)
    <2>1. user' = user /\ user[u] \in Row /\ task'[w].seen = user[u] /\ task'[w].phase = "claim"
        BY <1>1 DEF Enters
    <2> QED BY <2>1, AccountAssumption
<1>2. CASE Steady(w)
    <2>1. task'[w] = task[w]
        BY <1>2, IdleIsNone DEF Steady
    <2>2. /\ user[u] # Unborn
          /\ Live(u) /\ task[w].phase # "store" =>
                /\ task[w].seen.attempts = user[u].attempts
                /\ task[w].seen.lock = user[u].lock
                /\ task[w].phase # "claim" => ~InForce(u)
        BY <2>1 DEF LoginFresh
    <2>3. LockStays(u) /\ now' \in {now, now + 1}
        BY DEF Calm, LocksStay
    <2> QED BY <2>1, <2>2, <2>3, InForceStays
<1> QED BY <1>1, <1>2 DEF Calm

LEMMA CountedCalm ==
    ASSUME TypeInv, TypeInv', Counted, Calm PROVE Counted'
<1> SUFFICES ASSUME NEW u \in Users
             PROVE  /\ user'[u] = Unborn => misses'[u] = 0
                    /\ Live(u)' =>
                          /\ misses'[u] <= user'[u].attempts
                          /\ user'[u].attempts >= MaxAttempts => user'[u].lock # None
    BY DEF Counted, Live
<1>1. LockStays(u) /\ misses'[u] = misses[u]
    BY DEF Calm, LocksStay
<1>2. CASE user[u] = Unborn
    <2>1. misses[u] = 0 /\ Deleted # Unborn /\ Unborn \notin Row
        BY <1>2, AccountAssumption DEF Counted
    <2>2. CASE user'[u] = Unborn
        BY <1>1, <2>1, <2>2 DEF Live
    <2>3. CASE user'[u] \in Row /\ user'[u].attempts = 0 /\ user'[u].lock = None
        <3>1. ~(0 >= MaxAttempts)
            BY AccountAssumption
        <3> QED BY <1>1, <2>1, <2>3, <3>1
    <2> QED BY <1>1, <1>2, <2>1, <2>2, <2>3 DEF LockStays, SameLock
<1>3. CASE user[u] # Unborn
    <2>1. /\ user'[u] # Unborn
          /\ Live(u)' => /\ Live(u) /\ user'[u].attempts = user[u].attempts
                         /\ user'[u].lock = user[u].lock
        BY <1>1, <1>3, InForceStays DEF Calm
    <2> QED BY <1>1, <2>1 DEF Counted
<1> QED BY <1>2, <1>3

LEMMA CalmKeepsLockInv ==
    ASSUME LoginsAlone, TypeInv, TypeInv', LockInv, Calm PROVE LockInv'
BY LoginAloneCalm, LoginFreshCalm, CountedCalm DEF LockInv

\* The handler of one account goes on or ends, and writes no other row.
LEMMA OthersFresh ==
    ASSUME TypeInv, LockInv, NEW w \in Workers, NEW u \in Users, task[w].op = "login",
           task[w].user = u, \A v \in Workers \ {w} : task'[v] = task[v],
           \A x \in Users \ {u} : user'[x] = user[x] /\ misses'[x] = misses[x], now' = now,
           task'[w] = Idle \/ (task'[w].op = "login" /\ task'[w].user = u),
           NEW row \in Row, user'[u] = row,
           task'[w].op = "login" /\ task'[w].phase # "store" =>
              /\ task'[w].seen.attempts = row.attempts /\ task'[w].seen.lock = row.lock
              /\ task'[w].phase # "claim" => ~InForce(u)',
           misses'[u] <= row.attempts, row.attempts >= MaxAttempts => row.lock # None
    PROVE  LockInv'
<1>1. u # None /\ Unborn \notin Row
    BY AccountAssumption
<1>2. LoginAlone'
    <2> SUFFICES ASSUME NEW v \in Workers, NEW x \in Workers, v # x, task'[x].op # "idle",
                        task'[v].op = "login", task'[v].user = task'[x].user
                 PROVE  task'[v].user = None
        BY DEF LoginAlone, Busy
    <2>1. \A y \in {v, x} : /\ task[y].op # "idle" /\ task[y].user = task'[y].user
                            /\ task'[y].op = "login" => task[y].op = "login"
        BY IdleIsNone
    <2> QED BY <2>1 DEF LockInv, LoginAlone, Busy
<1>3. LoginFresh'
    <2> SUFFICES ASSUME NEW v \in Workers, NEW x \in Users, x = task'[v].user,
                        task'[v].op = "login", x # None
                 PROVE  /\ user'[x] # Unborn
                        /\ Live(x)' /\ task'[v].phase # "store" =>
                              /\ task'[v].seen.attempts = user'[x].attempts
                              /\ task'[v].seen.lock = user'[x].lock
                              /\ task'[v].phase # "claim" => ~InForce(x)'
        <3>1. \A v \in Workers \ {w} : task'[v].user \in Users \cup {None}
            BY DEF TypeInv, Handler, Task
        <3>2. task'[w].user \in Users \cup {None}
            BY IdleIsNone
        <3> QED BY <3>1, <3>2 DEF LoginFresh, Live, InForce
    <2>1. CASE v = w
        <3>1. x = u
            BY <2>1, IdleIsNone
        <3> QED BY <1>1, <2>1, <3>1
    <2>2. CASE v # w
        <3>1. task'[v] = task[v]
            BY <2>2
        <3>2. x # u
            BY <1>1, <2>2, <3>1, IdleIsNone DEF LockInv, LoginAlone, Busy
        <3>3. user'[x] = user[x]
            BY <3>2
        <3> QED BY <3>1, <3>3 DEF LockInv, LoginFresh, Live, InForce
    <2> QED BY <2>1, <2>2
<1>4. Counted'
    <2> SUFFICES ASSUME NEW x \in Users
                 PROVE  /\ user'[x] = Unborn => misses'[x] = 0
                        /\ Live(x)' =>
                              /\ misses'[x] <= user'[x].attempts
                              /\ user'[x].attempts >= MaxAttempts => user'[x].lock # None
        BY DEF Counted, Live
    <2>1. CASE x = u
        BY <1>1, <2>1
    <2>2. CASE x # u
        BY <2>2 DEF LockInv, Counted, Live
    <2> QED BY <2>1, <2>2
<1> QED BY <1>2, <1>3, <1>4 DEF LockInv

\* What a login has read, when its account is there.
LEMMA LoginReads ==
    ASSUME TypeInv, LockInv, NEW w \in Workers, NEW u \in Users, task[w].op = "login",
           task[w].user = u, Live(u), task[w].phase # "store"
    PROVE  /\ user[u] \in Row /\ task[w].seen \in Row
           /\ task[w].seen.attempts = user[u].attempts /\ task[w].seen.lock = user[u].lock
           /\ task[w].phase # "claim" => ~InForce(u)
           /\ misses[u] <= user[u].attempts
           /\ user[u].attempts >= MaxAttempts => user[u].lock # None
<1>1. u # None
    BY AccountAssumption
<1>2. task[w].seen \in Row
    BY <1>1 DEF TypeInv, Handler, Ready
<1> QED BY <1>1, <1>2, LiveRow DEF LockInv, LoginFresh, Counted

LEMMA LoginClaimLock ==
    ASSUME LoginsAlone, TypeInv, TypeInv', LockInv, NEW w \in Workers, LoginClaim(w)
    PROVE  LockInv'
<1> DEFINE x == [task[w] EXCEPT !.phase = AfterClaim(task[w].seen)]
<1>1. CASE Finish(w)
    BY <1>1, CalmEnd, SameUsersStay, CalmKeepsLockInv DEF LoginClaim
<1>2. CASE ~LockedOut(task[w].seen) /\ task' = [task EXCEPT ![w] = x]
    <2>1. /\ x.op = "login" /\ x.user = task[w].user /\ x.seen = task[w].seen
          /\ x.phase = AfterClaim(task[w].seen)
        BY DEF TypeInv, Handler, Task, LoginClaim
    <2> HIDE DEF x
    <2>2. task'[w] = x /\ \A v \in Workers \ {w} : task'[v] = task[v]
        BY <1>2 DEF TypeInv
    <2>3. task[w].op = "login" /\ task[w].phase = "claim" /\ UNCHANGED <<user, misses, now>>
        BY DEF LoginClaim
    <2>4. LoginAlone'
        BY <2>1, <2>2, <2>3 DEF LockInv, LoginAlone, Busy
    <2>5. ASSUME NEW u \in Users, u = task[w].user, Live(u) PROVE ~InForce(u)
        <3>1. task[w].seen.lock = user[u].lock /\ task[w].seen \in Row
            BY <2>3, <2>5, LoginReads
        <3>2. task[w].seen # None
            BY <3>1, AccountAssumption
        <3> QED BY <1>2, <3>1, <3>2 DEF LockedOut, InForce
    <2>6. LoginFresh'
        <3> SUFFICES ASSUME NEW v \in Workers, NEW u \in Users, u = task'[v].user,
                            task'[v].op = "login", u # None
                     PROVE  /\ user[u] # Unborn
                            /\ Live(u) /\ task'[v].phase # "store" =>
                                  /\ task'[v].seen.attempts = user[u].attempts
                                  /\ task'[v].seen.lock = user[u].lock
                                  /\ task'[v].phase # "claim" => ~InForce(u)
            <4>1. \A v \in Workers : task'[v].user \in Users \cup {None}
                BY <2>1, <2>2 DEF TypeInv, Handler, Task
            <4> QED BY <2>3, <4>1 DEF LoginFresh, Live, InForce
        <3>1. /\ task[v].op = "login" /\ task[v].user = u
              /\ task'[v].seen = task[v].seen
              /\ v # w => task'[v].phase = task[v].phase
            BY <2>1, <2>2, <2>3
        <3>2. /\ user[u] # Unborn
              /\ Live(u) /\ task[v].phase # "store" =>
                    /\ task[v].seen.attempts = user[u].attempts
                    /\ task[v].seen.lock = user[u].lock
                    /\ task[v].phase # "claim" => ~InForce(u)
            BY <3>1 DEF LockInv, LoginFresh
        <3> QED BY <2>3, <2>5, <3>1, <3>2
    <2>7. Counted'
        BY <2>3 DEF LockInv, Counted, Live
    <2> QED BY <2>4, <2>6, <2>7 DEF LockInv
<1> QED BY <1>1, <1>2 DEF LoginClaim

LEMMA LoginUnlockLock ==
    ASSUME LoginsAlone, TypeInv, LockInv, NEW w \in Workers, LoginUnlock(w) PROVE LockInv'
<1> PICK u : u = task[w].user
    OBVIOUS
<1> DEFINE row == Unlocked(user[u])
           seen == Unlocked(task[w].seen)
           x == [task[w] EXCEPT !.phase = "check", !.seen = seen]
<1>1. u \in Users /\ Live(u) /\ task[w].op = "login" /\ task[w].phase = "unlock"
    BY DEF LoginUnlock, TypeInv, Handler, Task, Ready
<1>2. user[u] \in Row /\ task[w].seen \in Row
    BY <1>1, LoginReads
<1>3. /\ row \in Row /\ row.attempts = 0 /\ row.lock = None
      /\ seen.attempts = 0 /\ seen.lock = None
    BY <1>2, UnlockedType, UnlockedLock
<1>4. /\ user' = [user EXCEPT ![u] = row] /\ misses' = [misses EXCEPT ![u] = 0]
      /\ task' = [task EXCEPT ![w] = x] /\ now' = now
    BY DEF LoginUnlock
<1> HIDE DEF row, seen
<1>5. x.op = "login" /\ x.user = u /\ x.phase = "check" /\ x.seen = seen
    BY <1>1 DEF TypeInv, Handler, Task
<1> HIDE DEF x
<1>6. /\ user'[u] = row /\ misses'[u] = 0 /\ task'[w] = x
      /\ \A y \in Users \ {u} : user'[y] = user[y] /\ misses'[y] = misses[y]
      /\ \A v \in Workers \ {w} : task'[v] = task[v]
    BY <1>1, <1>4 DEF TypeInv, Shapes
<1>7. ~InForce(u)'
    BY <1>3, <1>6 DEF InForce
<1>8. ~(0 >= MaxAttempts)
    BY AccountAssumption
<1> QED BY <1>1, <1>3, <1>4, <1>5, <1>6, <1>7, <1>8, OthersFresh

LEMMA RightPasswordLock ==
    ASSUME LoginsAlone, TypeInv, LockInv, NEW w \in Workers, RightPassword(w) PROVE LockInv'
<1> PICK u : u = task[w].user
    OBVIOUS
<1> DEFINE row == Unlocked(user[u])
           x == [task[w] EXCEPT !.phase = "store"]
<1>1. u \in Users /\ Live(u) /\ task[w].op = "login" /\ task[w].phase = "check"
    BY DEF RightPassword, TypeInv, Handler, Task, Ready
<1>2. user[u] \in Row
    BY <1>1, LoginReads
<1>3. row \in Row /\ row.attempts = 0 /\ row.lock = None
    BY <1>2, UnlockedType, UnlockedLock
<1>4. /\ user' = [user EXCEPT ![u] = row] /\ misses' = [misses EXCEPT ![u] = 0]
      /\ task' = [task EXCEPT ![w] = x] /\ now' = now
    BY DEF RightPassword
<1> HIDE DEF row
<1>5. x.op = "login" /\ x.user = u /\ x.phase = "store"
    BY <1>1 DEF TypeInv, Handler, Task
<1> HIDE DEF x
<1>6. /\ user'[u] = row /\ misses'[u] = 0 /\ task'[w] = x
      /\ \A y \in Users \ {u} : user'[y] = user[y] /\ misses'[y] = misses[y]
      /\ \A v \in Workers \ {w} : task'[v] = task[v]
    BY <1>1, <1>4 DEF TypeInv, Shapes
<1>7. ~(0 >= MaxAttempts)
    BY AccountAssumption
<1> QED BY <1>1, <1>3, <1>4, <1>5, <1>6, <1>7, OthersFresh

LEMMA WrongPasswordLock ==
    ASSUME LoginsAlone, TypeInv, LockInv, NEW w \in Workers, WrongPassword(w) PROVE LockInv'
<1> PICK u : u = task[w].user
    OBVIOUS
<1> DEFINE n == task[w].seen.attempts + 1
           lock == LockAfter(n)
           row == [user[u] EXCEPT !.attempts = n, !.lock = lock]
           missed == IF misses[u] < MaxAttempts THEN misses[u] + 1 ELSE misses[u]
<1>1. u \in Users /\ Live(u) /\ task[w].op = "login" /\ task[w].phase = "check"
    BY DEF WrongPassword, TypeInv, Handler, Task, Ready
<1>2. /\ user[u] \in Row /\ task[w].seen \in Row /\ misses[u] <= user[u].attempts
      /\ task[w].seen.attempts = user[u].attempts
    BY <1>1, LoginReads
<1>3. user[u].attempts \in Nat /\ misses[u] \in Nat /\ now \in Nat
    BY <1>1, <1>2, LockFacts
<1>4. n \in Nat /\ n = user[u].attempts + 1 /\ missed <= n
    BY <1>2, <1>3, AccountAssumption
<1>5. lock \in Nat \cup {None} /\ (n >= MaxAttempts => lock # None)
    <2>1. now + LockFor \in Nat /\ now + LockFor # None
        BY <1>3, AccountAssumption
    <2> QED BY <2>1 DEF LockAfter
<1>6. /\ user' = [user EXCEPT ![u] = row] /\ misses' = [misses EXCEPT ![u] = missed]
      /\ task' = [task EXCEPT ![w] = Idle] /\ now' = now
    BY DEF WrongPassword, Finish
<1> HIDE DEF n, lock, missed
<1>7. row \in Row /\ row.attempts = n /\ row.lock = lock
    BY <1>2, <1>4, <1>5 DEF Row
<1> HIDE DEF row
<1>8. /\ user'[u] = row /\ misses'[u] = missed /\ task'[w] = Idle
      /\ \A y \in Users \ {u} : user'[y] = user[y] /\ misses'[y] = misses[y]
      /\ \A v \in Workers \ {w} : task'[v] = task[v]
    BY <1>1, <1>6 DEF TypeInv, Shapes
<1>9. Idle.op # "login"
    BY DEF Idle
<1>10. misses'[u] <= row.attempts /\ (row.attempts >= MaxAttempts => row.lock # None)
    BY <1>4, <1>5, <1>7, <1>8
<1>11. now' = now /\ task'[w].op # "login" /\ u = task[w].user
    BY <1>6, <1>8, <1>9
<1> QED BY <1>1, <1>7, <1>8, <1>10, <1>11, OthersFresh

\* An Admin unlocks an account on which no login is in flight.
LEMMA PardonLock ==
    ASSUME LoginsAlone, TypeInv, LockInv, Pardon PROVE LockInv'
<1>1. ASSUME NEW u \in Users, NEW op, MayRun(op, u), NEW row \in Row,
             user' = [user EXCEPT ![u] = row], row.attempts = 0, row.lock = None,
             misses' = [misses EXCEPT ![u] = 0], UNCHANGED <<task, now>>
      PROVE  LockInv'
    <2>1. ASSUME NEW w \in Workers, task[w].op = "login" PROVE task[w].user # u
        <3>1. u # None
            BY AccountAssumption
        <3> QED BY <1>1, <2>1, <3>1 DEF MayRun, Busy, LoginsAlone
    <2>2. /\ user'[u] = row /\ misses'[u] = 0
          /\ \A y \in Users \ {u} : user'[y] = user[y] /\ misses'[y] = misses[y]
        BY <1>1 DEF TypeInv, Shapes
    <2>3. LoginAlone'
        BY <1>1 DEF LockInv, LoginAlone, Busy
    <2>4. LoginFresh'
        <3> SUFFICES ASSUME NEW w \in Workers, task[w].op = "login", task[w].user # None
                     PROVE  user'[task[w].user] = user[task[w].user]
            BY <1>1 DEF LockInv, LoginFresh, Live, InForce
        <3>1. task[w].user \in Users
            BY DEF TypeInv, Handler, Task
        <3> QED BY <2>1, <2>2, <3>1
    <2>5. Counted'
        <3> SUFFICES ASSUME NEW x \in Users
                     PROVE  /\ user'[x] = Unborn => misses'[x] = 0
                            /\ Live(x)' =>
                                  /\ misses'[x] <= user'[x].attempts
                                  /\ user'[x].attempts >= MaxAttempts => user'[x].lock # None
            BY DEF Counted, Live
        <3>1. ~(0 >= MaxAttempts)
            BY AccountAssumption
        <3>2. CASE x = u
            BY <1>1, <2>2, <3>1, <3>2
        <3>3. CASE x # u
            BY <2>2, <3>3 DEF LockInv, Counted, Live
        <3> QED BY <3>2, <3>3
    <2> QED BY <2>3, <2>4, <2>5 DEF LockInv
<1>2. ASSUME NEW a \in Users, NEW u \in Users, Activate(a, u) PROVE LockInv'
    <2> DEFINE free == Unlocked(user[u])
               row == [free EXCEPT !.active = TRUE]
    <2>1. /\ user[u] \in Row /\ user' = [user EXCEPT ![u] = row] /\ MayRun("activate", u)
          /\ misses' = [misses EXCEPT ![u] = 0] /\ UNCHANGED <<task, now>>
        BY <1>2, LiveRow DEF Activate, ByAdmin
    <2>2. free \in Row /\ free.attempts = 0 /\ free.lock = None
        BY <2>1, UnlockedType, UnlockedLock
    <2> HIDE DEF free
    <2>3. row \in Row /\ row.attempts = 0 /\ row.lock = None
        BY <2>2 DEF Row
    <2> HIDE DEF row
    <2> QED BY <1>1, <2>1, <2>3
<1>3. ASSUME NEW a \in Users, NEW u \in Users, TempPassword(a, u) PROVE LockInv'
    <2> DEFINE row == Unlocked(SignedOut(user[u]))
    <2>1. /\ user[u] \in Row /\ user' = [user EXCEPT ![u] = row] /\ MayRun("temp", u)
          /\ misses' = [misses EXCEPT ![u] = 0] /\ UNCHANGED <<task, now>>
        BY <1>3, LiveRow DEF TempPassword, ByAdmin
    <2>2. row \in Row /\ row.attempts = 0 /\ row.lock = None
        BY <2>1, SignedOutType, UnlockedType, UnlockedLock
    <2> HIDE DEF row
    <2> QED BY <1>1, <2>1, <2>2
<1> QED BY <1>2, <1>3 DEF Pardon

LEMMA LockInvHolds == LoginsAlone => (Spec => [](TypeInv /\ LockInv))
<1> SUFFICES ASSUME LoginsAlone PROVE Spec => [](TypeInv /\ LockInv)
    OBVIOUS
<1>1. Init => LockInv
    <2> SUFFICES ASSUME Init PROVE LockInv
        OBVIOUS
    <2>1. \A w \in Workers : task[w] = Idle
        BY DEF Init, AccountInit
    <2>2. LoginAlone /\ LoginFresh
        BY <2>1, IdleIsNone DEF LoginAlone, LoginFresh, Busy
    <2>3. ASSUME NEW u \in Users, Live(u) PROVE user[u].attempts = 0
        <3>1. user[u] = RowAtStart(u) /\ RoleAtStart[u] # None
            BY <2>3 DEF Init, AccountInit, Live, RowAtStart
        <3> QED BY <3>1 DEF RowAtStart, NewRow
    <2>4. \A u \in Users : misses[u] = 0
        BY DEF Init, AccountInit
    <2>5. ~(0 >= MaxAttempts)
        BY AccountAssumption
    <2> QED BY <2>2, <2>3, <2>4, <2>5 DEF LockInv, Counted
<1>2. TypeInv /\ LockInv /\ [Next]_accountVars => (TypeInv /\ LockInv)'
    <2> SUFFICES ASSUME TypeInv, LockInv, [Next]_accountVars PROVE TypeInv' /\ LockInv'
        OBVIOUS
    <2>1. TypeInv'
        BY StepType
    <2> QED BY <2>1, LockSteps, CalmKeepsLockInv, LoginClaimLock, LoginUnlockLock,
               WrongPasswordLock, RightPasswordLock, PardonLock
<1> QED BY <1>1, <1>2, InitType, PTL DEF Spec

\* After MAX_FAILED_LOGINS wrong passwords in a row the account is locked, when a
\* login overlaps no other operation on its account (login).
THEOREM LockAfterMissesHolds == LoginsAlone => (Spec => []LockAfterMisses)
<1> SUFFICES ASSUME LoginsAlone PROVE Spec => []LockAfterMisses
    OBVIOUS
<1>1. TypeInv /\ LockInv => LockAfterMisses
    <2> SUFFICES ASSUME TypeInv, LockInv, NEW u \in Users, Live(u), misses[u] >= MaxAttempts
                 PROVE  user[u].lock # None
        BY DEF LockAfterMisses
    <2>1. user[u].attempts \in Nat /\ misses[u] \in Nat /\ MaxAttempts \in Nat
        BY LockFacts, LiveRow, AccountAssumption
    <2>2. misses[u] <= user[u].attempts
        BY DEF LockInv, Counted
    <2>3. user[u].attempts >= MaxAttempts
        BY <2>1, <2>2
    <2> QED BY <2>3 DEF LockInv, Counted
<1> QED BY <1>1, LockInvHolds, PTL

\* A lock in force ends with time, with the account, or by an Admin's hand, and by
\* no login, under the same condition.
THEOREM LocksHold == LoginsAlone => (Spec => LockHolds)
<1> SUFFICES ASSUME LoginsAlone PROVE Spec => LockHolds
    OBVIOUS
<1> DEFINE Held == \A u \in Users : InForce(u) =>
                      \/ InForce(u)'
                      \/ now' # now
                      \/ user'[u] = Deleted
                      \/ \E a \in Users : Activate(a, u) \/ TempPassword(a, u)
<1>1. TypeInv /\ LockInv /\ [Next]_accountVars => [Held]_accountVars
    <2> SUFFICES ASSUME TypeInv, LockInv, Next, NEW u \in Users, InForce(u), now' = now,
                        user'[u] # Deleted,
                        ~\E a \in Users : Activate(a, u) \/ TempPassword(a, u)
                 PROVE  InForce(u)'
        BY DEF Held
    <2>1. TypeInv' /\ user[u] # Unborn
        BY StepType DEF InForce, Live
    <2>2. CASE Calm
        BY <2>1, <2>2, InForceStays DEF Calm, LocksStay
    <2>3. CASE UNCHANGED user
        BY <2>3 DEF InForce, Live
    <2>4. ASSUME NEW w \in Workers, LoginUnlock(w) \/ WrongPassword(w) \/ RightPassword(w)
          PROVE  user'[u] = user[u]
        <3>1. /\ task[w].op = "login" /\ task[w].phase \in {"unlock", "check"}
              /\ Live(task[w].user) /\ task[w].user \in Users
            BY <2>4 DEF LoginUnlock, WrongPassword, RightPassword, TypeInv, Handler, Task, Ready
        <3>2. task[w].user # u
            BY <3>1, LoginReads
        <3> QED BY <2>4, <3>2 DEF LoginUnlock, WrongPassword, RightPassword, TypeInv, Shapes
    <2>5. CASE Pardon
        BY <2>5 DEF Pardon, Activate, TempPassword, TypeInv, Shapes, InForce, Live
    <2>6. ASSUME NEW w \in Workers, LoginClaim(w) PROVE UNCHANGED user
        BY <2>6 DEF LoginClaim
    <2>7. CASE user'[u] = user[u]
        BY <2>7 DEF InForce, Live
    <2> QED BY <2>2, <2>3, <2>4, <2>5, <2>6, <2>7, LockSteps
<1> QED BY <1>1, LockInvHolds, PTL DEF Spec, LockHolds
=============================================================================
