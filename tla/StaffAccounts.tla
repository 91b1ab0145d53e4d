---------------------------- MODULE StaffAccounts ----------------------------
(***************************************************************************)
(* HR's administration of employees and positions                          *)
(* (src/modules/hr/services/hr-employee.service.ts, hr-org.service.ts).    *)
(* Which HR user calls plays no part in it and is left out.  Transactions  *)
(* read without locks: a begin step takes what they read, a commit step    *)
(* writes what follows from it.                                            *)
(***************************************************************************)
EXTENDS AccountStore

-----------------------------------------------------------------------------
(* Roles that positions imply. *)

\* roleForPosition
RoleForPosition(p, current) ==
    IF current \in {"CEO", "Admin"} THEN current
    ELSE IF post[p].dept \in HrDepts THEN "HR"
    ELSE IF p \in LeaderPosts THEN "Manager" ELSE "Employee"

\* The position's own role goes first.
ImpliedRole(p, current) ==
    IF post[p].role # None THEN post[p].role ELSE RoleForPosition(p, current)

\* Variant: nobody looks whose account it is.
HrMayTouch_Anyone(u) == TRUE

\* assertNotAdminAccount
HrMayTouch(u) == user[u].role # "Admin"

-----------------------------------------------------------------------------
(* updateEmployeeStatus: checked, then written; the version stays. *)

StatusCall(w, u, on) ==
    /\ Live(u) /\ MayStart(w, "status", u)
    /\ HrMayTouch(u)
    /\ Start(w, [Idle EXCEPT !.op = "status", !.phase = "write", !.user = u, !.on = on])
    /\ UNCHANGED <<user, sessionVars, orgVars, now>>

StatusWrite(w) ==
    LET t == task[w] IN
    /\ t.op = "status" /\ t.phase = "write" /\ Live(t.user)
    /\ user' = [user EXCEPT ![t.user].active = t.on,
                            ![t.user].refresh = IF t.on THEN @ ELSE None]
    /\ Finish(w)
    /\ UNCHANGED <<sessionVars, orgVars, now>>

-----------------------------------------------------------------------------
(* updateEmployee *)

Moves(u, form) == form.post # None /\ form.post # emp[u].post

\* Variant: only a role typed in counts.
RoleAskedFor_Typed(u, form) == form.role

\* A move decides the role; without one the role asked for does, if any.
RoleAskedFor(u, form) ==
    IF Moves(u, form) THEN ImpliedRole(form.post, user[u].role) ELSE form.role

EmployeeBegin(w, u, form) ==
    /\ Live(u) /\ MayStart(w, "employee", u) /\ MayBump(u)
    /\ HrMayTouch(u)
    /\ Moves(u, form) => post[form.post].exists
    /\ RoleAskedFor(u, form) # "Admin"
    /\ Start(w, [Idle EXCEPT !.op = "employee", !.phase = "tx", !.user = u,
                             !.seen = user[u], !.form = form,
                             !.role = RoleAskedFor(u, form), !.on = Moves(u, form)])
    /\ UNCHANGED <<user, sessionVars, orgVars, now>>

EmployeeCommit(w) ==
    LET t == task[w]
        changed == t.role \notin {None, t.seen.role}
    IN
    /\ t.op = "employee" /\ t.phase = "tx" /\ Live(t.user) /\ MayBump(t.user)
    /\ user' = IF changed THEN [user EXCEPT ![t.user] = RoleChanged(@, t.role)] ELSE user
    /\ emp' = [emp EXCEPT ![t.user] =
            [post |-> IF t.form.post = None THEN @.post ELSE t.form.post,
             dept |-> IF t.form.dept = None THEN @.dept ELSE t.form.dept]]
    /\ byHand' = IF t.on THEN byHand \ {t.user}
                 ELSE IF changed THEN byHand \cup {t.user} ELSE byHand
    /\ Finish(w)
    /\ UNCHANGED <<sessionVars, post, now>>

-----------------------------------------------------------------------------
(* createEmployee, deleteEmployee *)

\* The role is found before the transaction that writes both rows.
HireCall(w, u, form) ==
    LET role == ImpliedRole(form.post, form.role) IN
    /\ user[u] = Unborn /\ MayStart(w, "hire", u)
    /\ form.post # None /\ form.dept # None /\ post[form.post].exists
    /\ role # "Admin"
    /\ Start(w, [Idle EXCEPT !.op = "hire", !.phase = "tx", !.user = u, !.form = form,
                             !.role = role])
    /\ UNCHANGED <<user, sessionVars, orgVars, now>>

HireCommit(w) ==
    LET t == task[w] IN
    /\ t.op = "hire" /\ t.phase = "tx" /\ user[t.user] = Unborn
    /\ user' = [user EXCEPT ![t.user] = NewRow(t.role)]
    /\ emp' = [emp EXCEPT ![t.user] = [post |-> t.form.post, dept |-> t.form.dept]]
    /\ Finish(w)
    /\ UNCHANGED <<sessionVars, post, byHand, now>>

FireCall(w, u) ==
    /\ Live(u) /\ MayStart(w, "fire", u)
    /\ HrMayTouch(u)
    /\ Start(w, [Idle EXCEPT !.op = "fire", !.phase = "tx", !.user = u])
    /\ UNCHANGED <<user, sessionVars, orgVars, now>>

FireCommit(w) ==
    LET t == task[w] IN
    /\ t.op = "fire" /\ t.phase = "tx" /\ Live(t.user)
    /\ user' = [user EXCEPT ![t.user] = Deleted]
    /\ Finish(w)
    /\ UNCHANGED <<sessionVars, orgVars, now>>

-----------------------------------------------------------------------------
(* createPosition, updatePosition *)

HeadPosts(dept) ==
    {p \in Positions : post[p].exists /\ post[p].role = "Manager" /\ post[p].dept = dept}

\* Variant: only the new position's own department is ignored, not checked.
SecondHead_Allowed(p, role, dept) == FALSE

\* A department gets only one position of role Manager.
SecondHead(p, role, dept) ==
    role = "Manager" /\ dept # None /\ HeadPosts(dept) \ {p} # {}

Holders(p) == {u \in Users : Live(u) /\ emp[u].post = p /\ user[u].role # "Admin"}

\* Variant: the role is taken as it was sent.
CascadedRole_AsSent(form) == form.role

\* Without a role of its own, a position makes employees.
CascadedRole(form) == IF form.role = "null" THEN "Employee" ELSE form.role

NewPostCall(w, p, form) ==
    /\ ~post[p].exists /\ MayStart(w, "newpost", None)
    /\ form.role \notin {"Admin", "null"}
    /\ ~SecondHead(p, form.role, form.dept)
    /\ Start(w, [Idle EXCEPT !.op = "newpost", !.phase = "write", !.post = p, !.form = form])
    /\ UNCHANGED <<user, sessionVars, orgVars, now>>

NewPostWrite(w) ==
    LET t == task[w] IN
    /\ t.op = "newpost" /\ t.phase = "write" /\ ~post[t.post].exists
    /\ post' = [post EXCEPT ![t.post] =
            [dept |-> t.form.dept, role |-> t.form.role, exists |-> TRUE]]
    /\ Finish(w)
    /\ UNCHANGED <<user, sessionVars, emp, byHand, now>>

\* The transaction's snapshot: the check for another head, and the holders
\* whose role will change.
PositionBegin(w, p, form) ==
    LET dept == IF form.dept = None THEN post[p].dept ELSE form.dept IN
    /\ post[p].exists /\ MayStart(w, "position", None)
    /\ form.role # "Admin"
    /\ ~SecondHead(p, form.role, dept)
    /\ Start(w, [Idle EXCEPT !.op = "position", !.phase = "tx", !.post = p, !.form = form,
            !.holders = IF form.role = None THEN {}
                        ELSE {u \in Holders(p) : user[u].role # CascadedRole(form)}])
    /\ UNCHANGED <<user, sessionVars, orgVars, now>>

\* The position, the department of everyone who holds it now, and the role of
\* those who held it when the transaction began.
PositionCommit(w) ==
    LET t == task[w]
        form == t.form
    IN
    /\ t.op = "position" /\ t.phase = "tx"
    /\ \A u \in t.holders : Live(u) /\ MayBump(u)
    /\ post' = [post EXCEPT
            ![t.post].dept = IF form.dept = None THEN @ ELSE form.dept,
            ![t.post].role = CASE form.role = None -> @ [] form.role = "null" -> None
                               [] OTHER -> form.role]
    /\ emp' = [u \in Users |-> IF form.dept # None /\ u \in Holders(t.post)
                               THEN [emp[u] EXCEPT !.dept = form.dept] ELSE emp[u]]
    /\ user' = [u \in Users |-> IF u \in t.holders
                                THEN RoleChanged(user[u], CascadedRole(form)) ELSE user[u]]
    /\ byHand' = IF form.role = None THEN byHand ELSE byHand \ Holders(t.post)
    /\ Finish(w)
    /\ UNCHANGED <<sessionVars, now>>

-----------------------------------------------------------------------------
StaffCall(w) ==
    \/ \E u \in Users :
          \/ \E on \in BOOLEAN : StatusCall(w, u, on)
          \/ \E form \in EmployeeForms : EmployeeBegin(w, u, form) \/ HireCall(w, u, form)
          \/ FireCall(w, u)
    \/ \E p \in Positions, form \in PositionForms :
          NewPostCall(w, p, form) \/ PositionBegin(w, p, form)

StaffStep(w) ==
    \/ StatusWrite(w) \/ EmployeeCommit(w) \/ HireCommit(w) \/ FireCommit(w)
    \/ NewPostWrite(w) \/ PositionCommit(w)
=============================================================================
