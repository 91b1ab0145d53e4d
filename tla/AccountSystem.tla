---------------------------- MODULE AccountSystem ----------------------------
(***************************************************************************)
(* Everything that changes an account, racing over one database: users     *)
(* signing in and out, the Admin area, and HR.                             *)
(***************************************************************************)
EXTENDS Sessions, AdminAccounts, StaffAccounts

Call(w) == SessionCall(w) \/ AdminCall(w) \/ StaffCall(w)

Step(w) == SessionStep(w) \/ AdminStep(w) \/ StaffStep(w)

Statement == SessionStatement \/ AdminStatement

Init == AccountInit

Next == (\E w \in Workers : Call(w) \/ Step(w) \/ Fail(w)) \/ Statement \/ Tick

Spec == Init /\ [][Next]_accountVars

-----------------------------------------------------------------------------
(* Types. *)

\* Every variable has the shape the schema and the handlers give it.
AccountTypeOK ==
    /\ user \in [Users -> Row \cup {Unborn, Deleted}]
    /\ emp \in [Users -> [post : Positions, dept : Depts \cup {None}]]
    /\ post \in [Positions -> PositionRow]
    /\ captcha \in [Captchas -> {"none", "fresh", "claimed"}]
    /\ tokens \subseteq Token
    /\ links \subseteq Link /\ spent \subseteq links
    /\ misses \in [Users -> Nat]
    /\ byHand \subseteq Users
    /\ now \in Nat
    /\ task \in [Workers -> Task]

-----------------------------------------------------------------------------
(* Sessions. *)

\* A token that is still accepted was made for the role its owner has now:
\* whoever's role changes is signed out, so that the menus shown follow the
\* permissions (roleChangeSignOut, used by the Admin area and by HR).
AcceptedRoleIsCurrent ==
    \A t \in tokens : Accepted(t) => t.role = user[t.user].role

\* The refresh token an account stores belongs to the version it is at: no
\* sign-out leaves a session behind that could be refreshed.
StoredSessionIsCurrent ==
    \A u \in Users : Live(u) /\ user[u].refresh # None =>
        user[u].refresh = TokenOf(u, user[u])

\* A token of another version is never accepted again, whatever signing out,
\* resetting and changing of passwords follows: versions do not come back.
NoRevival ==
    [][\A t \in tokens :
          Live(t.user) /\ t.version # user[t.user].version =>
              ~(Live(t.user)' /\ t.version = user'[t.user].version)]_accountVars

\* A reset link changes a password once, whatever else changes the version
\* between two uses of it.
LinkOnce == [][\A l \in spent : ~ResetPassword(l)]_accountVars

\* Of the logins past the captcha check no two show the same captcha.
PastCaptcha(w) == task[w].op = "login" /\ task[w].phase # "claim"

CaptchaOnce ==
    \A v, w \in Workers :
        v # w /\ PastCaptcha(v) /\ PastCaptcha(w) => task[v].captcha # task[w].captcha

-----------------------------------------------------------------------------
(* Locking after wrong passwords. *)

\* After MaxAttempts wrong passwords in a row the account is locked (until the
\* next login after the lock has run out starts to count again).
LockAfterMisses ==
    \A u \in Users : Live(u) /\ misses[u] >= MaxAttempts => user[u].lock # None

InForce(u) == Live(u) /\ user[u].lock # None /\ user[u].lock > now

\* A lock ends with time or by an Admin's hand, never by a login.
LockHolds ==
    [][\A u \in Users : InForce(u) =>
          \/ InForce(u)'
          \/ now' # now
          \/ user'[u] = Deleted
          \/ \E a \in Users : Activate(a, u) \/ TempPassword(a, u)]_accountVars

-----------------------------------------------------------------------------
(* Roles. *)

\* The system always keeps an active Admin (assertNotLastActiveAdmin).
LastAdmin == ActiveAdmins # {}

IsAdmin(row) == row \notin {Unborn, Deleted} /\ row.role = "Admin"

\* What HR does changes no Admin's account and makes nobody an Admin, even
\* when the account becomes an Admin's after HR's handler has looked.
HrLeavesAdminsAlone ==
    [][\A w \in Workers, u \in Users : StaffStep(w) =>
          /\ IsAdmin(user[u]) => user'[u] = user[u]
          /\ IsAdmin(user'[u]) => IsAdmin(user[u])]_accountVars

\* Whoever holds a position with a role of its own has that role, after any
\* sequence of moves, hirings and changes of positions, unless the role was
\* chosen by hand since (and but for Admins, whom HR does not touch).
HoldersHaveTheRole ==
    \A u \in Users \ byHand :
        Live(u) /\ user[u].role # "Admin" /\ post[emp[u].post].role # None =>
            user[u].role = post[emp[u].post].role

\* A department has at most one position of role Manager.
OneHeadPost == \A dept \in Depts : Cardinality(HeadPosts(dept)) <= 1
=============================================================================
