---------------------------- MODULE AdminAccounts ----------------------------
(***************************************************************************)
(* The Admin area: forced logout, suspension, temporary passwords, roles   *)
(* (src/modules/admin/admin.service.ts).                                   *)
(***************************************************************************)
EXTENDS AccountStore

\* A signed-in Admin calls op on the account u.
ByAdmin(a, op, u) == CalledBy(a, "Admin") /\ Live(u) /\ MayRun(op, u)

-----------------------------------------------------------------------------
(* Single statements. *)

ForceLogout(a, u) ==
    /\ ByAdmin(a, "force", u) /\ MayBump(u)
    /\ user' = [user EXCEPT ![u] = SignedOut(@)]
    /\ UNCHANGED <<sessionVars, orgVars, now, task>>

\* toggleStatus, to active: the account is unlocked as well.
Activate(a, u) ==
    /\ ByAdmin(a, "activate", u)
    /\ user' = [user EXCEPT ![u] = [Unlocked(@) EXCEPT !.active = TRUE]]
    /\ misses' = [misses EXCEPT ![u] = 0]
    /\ UNCHANGED <<captcha, tokens, links, spent, orgVars, now, task>>

\* resetPassword, to a temporary one.
TempPassword(a, u) ==
    /\ ByAdmin(a, "temp", u) /\ MayBump(u)
    /\ user' = [user EXCEPT ![u] = Unlocked(SignedOut(@))]
    /\ misses' = [misses EXCEPT ![u] = 0]
    /\ UNCHANGED <<captcha, tokens, links, spent, orgVars, now, task>>

-----------------------------------------------------------------------------
(* assertNotLastActiveAdmin and the updates it guards *)

SuspendCall(w, a, u) ==
    /\ ByAdmin(a, "suspend", u) /\ MayBump(u)
    /\ a # u
    /\ MayStart(w, "suspend", u)
    /\ Start(w, [Idle EXCEPT !.op = "suspend", !.phase = "target", !.user = u])
    /\ UNCHANGED <<user, sessionVars, orgVars, now>>

\* updateRole reads the account first: nothing to do when it has the role.
RoleCall(w, a, u, role) ==
    /\ ByAdmin(a, "role", u) /\ MayBump(u)
    /\ a # u
    /\ user[u].role # role
    /\ MayStart(w, "role", u)
    /\ Start(w, [Idle EXCEPT !.op = "role", !.user = u, !.role = role,
                             !.phase = IF role = "Admin" THEN "write" ELSE "target"])
    /\ UNCHANGED <<user, sessionVars, orgVars, now>>

\* The account is read: anything but an active Admin may go.
ReadTarget(w) ==
    LET t == task[w] IN
    /\ t.phase = "target" /\ Live(t.user) /\ MayPass(t.op)
    /\ task' = [task EXCEPT ![w].phase =
            IF user[t.user].role = "Admin" /\ user[t.user].active THEN "count" ELSE "write"]
    /\ UNCHANGED <<user, sessionVars, orgVars, now>>

ActiveAdmins == {u \in Users : Live(u) /\ user[u].role = "Admin" /\ user[u].active}

\* Variant: the limit is one too low.
EnoughAdmins_One == Cardinality(ActiveAdmins) >= 1

EnoughAdmins == Cardinality(ActiveAdmins) > 1

\* The active Admins are counted: the last one may not go.
CountAdmins(w) ==
    /\ task[w].phase = "count"
    /\ IF EnoughAdmins THEN task' = [task EXCEPT ![w].phase = "write"] ELSE Finish(w)
    /\ UNCHANGED <<user, sessionVars, orgVars, now>>

SuspendWrite(w) ==
    LET t == task[w] IN
    /\ t.op = "suspend" /\ t.phase = "write" /\ Live(t.user) /\ MayBump(t.user)
    /\ user' = [user EXCEPT ![t.user] = [SignedOut(@) EXCEPT !.active = FALSE]]
    /\ Finish(w)
    /\ UNCHANGED <<sessionVars, orgVars, now>>

RoleWrite(w) ==
    LET t == task[w] IN
    /\ t.op = "role" /\ t.phase = "write" /\ Live(t.user) /\ MayBump(t.user)
    /\ user' = [user EXCEPT ![t.user] = RoleChanged(@, t.role)]
    /\ byHand' = byHand \cup {t.user}
    /\ Finish(w)
    /\ UNCHANGED <<sessionVars, emp, post, now>>

-----------------------------------------------------------------------------
AdminCall(w) ==
    \E a, u \in Users :
        SuspendCall(w, a, u) \/ \E role \in RoleForms : RoleCall(w, a, u, role)

AdminStep(w) == ReadTarget(w) \/ CountAdmins(w) \/ SuspendWrite(w) \/ RoleWrite(w)

AdminStatement ==
    \E a, u \in Users : ForceLogout(a, u) \/ Activate(a, u) \/ TempPassword(a, u)
=============================================================================
