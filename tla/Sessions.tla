------------------------------ MODULE Sessions ------------------------------
(***************************************************************************)
(* Signing in and out, refreshing, resetting and changing a password:      *)
(* src/modules/auth/auth.service.ts.  Whether a typed password matches is  *)
(* left open, so passwords are not values of the model.                    *)
(***************************************************************************)
EXTENDS AccountStore

-----------------------------------------------------------------------------
(* generateCaptcha; the Admin's purge of used captchas *)

GenerateCaptcha(c) ==
    /\ MayRun("captcha", None)
    /\ captcha[c] = "none"
    /\ captcha' = [captcha EXCEPT ![c] = "fresh"]
    /\ UNCHANGED <<user, tokens, links, spent, misses, orgVars, now, task>>

\* Used captchas go, and expired ones: how old one is is left open.  (The
\* identity is given out again only when no login shows it any more.)
PurgeCaptcha(c) ==
    /\ captcha[c] # "none"
    /\ \A w \in Workers : task[w].captcha # c
    /\ captcha' = [captcha EXCEPT ![c] = "none"]
    /\ UNCHANGED <<user, tokens, links, spent, misses, orgVars, now, task>>

-----------------------------------------------------------------------------
(* login *)

LoginTask(u, row, c) ==
    [Idle EXCEPT !.op = "login", !.phase = "claim", !.user = u, !.seen = row, !.captcha = c]

\* The account is read before anything is checked; None is a name nobody has.
LoginCall(w, u, c) ==
    /\ u # None => Live(u)
    /\ MayStart(w, "login", u)
    /\ captcha[c] # "none"
    /\ Start(w, LoginTask(u, IF u = None THEN None ELSE user[u], c))
    /\ UNCHANGED <<user, sessionVars, orgVars, now>>

\* Variant: the captcha is looked up, and marked in a statement of its own.
Claimable_LookedUp(c) == captcha[c] # "none"

\* verifyCaptcha's conditional update.
Claimable(c) == captcha[c] = "fresh"

\* Variant: the lock is not looked at.
LockedOut_Never(row) == FALSE

\* The account's lock has not run out.
LockedOut(row) == row # None /\ row.lock # None /\ row.lock > now

\* Where the login goes on: a locked account is refused, one whose lock has
\* run out is unlocked first.
AfterClaim(row) == IF row = None \/ row.lock = None THEN "check" ELSE "unlock"

\* verifyCaptcha.  A captcha is claimed even when it turns out wrong or expired.
LoginClaim(w) ==
    LET t == task[w] IN
    /\ t.op = "login" /\ t.phase = "claim"
    /\ \/ /\ Claimable(t.captcha)
          /\ captcha' = [captcha EXCEPT ![t.captcha] = "claimed"]
          /\ \/ ~LockedOut(t.seen) /\ task' = [task EXCEPT ![w].phase = AfterClaim(t.seen)]
             \/ Finish(w)
       \/ /\ ~Claimable(t.captcha)
          /\ Finish(w)
          /\ UNCHANGED captcha
    /\ UNCHANGED <<user, tokens, links, spent, misses, orgVars, now>>

LoginUnlock(w) ==
    LET t == task[w] IN
    /\ t.op = "login" /\ t.phase = "unlock" /\ Live(t.user)
    /\ user' = [user EXCEPT ![t.user] = Unlocked(@)]
    /\ misses' = [misses EXCEPT ![t.user] = 0]
    /\ task' = [task EXCEPT ![w].phase = "check", ![w].seen = Unlocked(t.seen)]
    /\ UNCHANGED <<captcha, tokens, links, spent, orgVars, now>>

\* Variant: the limit must be passed, not reached.
LockAfter_Passed(attempts) == IF attempts > MaxAttempts THEN now + LockFor ELSE None

\* When the account is locked until, after that many failed attempts.
LockAfter(attempts) == IF attempts >= MaxAttempts THEN now + LockFor ELSE None

WrongPassword(w) ==
    LET t == task[w]
        attempts == t.seen.attempts + 1
    IN
    /\ t.op = "login" /\ t.phase = "check" /\ t.user # None /\ Live(t.user)
    /\ user' = [user EXCEPT ![t.user].attempts = attempts,
                            ![t.user].lock = LockAfter(attempts)]
    /\ misses' = [misses EXCEPT ![t.user] = IF @ < MaxAttempts THEN @ + 1 ELSE @]
    /\ Finish(w)
    /\ UNCHANGED <<captcha, tokens, links, spent, orgVars, now>>

RightPassword(w) ==
    LET t == task[w] IN
    /\ t.op = "login" /\ t.phase = "check" /\ t.user # None /\ Live(t.user)
    /\ t.seen.active
    /\ user' = [user EXCEPT ![t.user] = Unlocked(@)]
    /\ misses' = [misses EXCEPT ![t.user] = 0]
    /\ task' = [task EXCEPT ![w].phase = "store"]
    /\ UNCHANGED <<captcha, tokens, links, spent, orgVars, now>>

\* The right password of a suspended account.
LoginSuspended(w) ==
    LET t == task[w] IN
    /\ t.op = "login" /\ t.phase = "check" /\ t.user # None
    /\ ~t.seen.active
    /\ Finish(w)
    /\ UNCHANGED <<user, sessionVars, orgVars, now>>

\* An unknown name is answered like a wrong password.
LoginUnknown(w) ==
    LET t == task[w] IN
    /\ t.op = "login" /\ t.phase = "check" /\ t.user = None
    /\ Finish(w)
    /\ UNCHANGED <<user, sessionVars, orgVars, now>>

\* Tokens for the role and version that were read; the refresh token's hash is
\* stored in a statement of its own (updateRefreshToken), for login and refresh.
StoreTokens(w) ==
    LET t == task[w]
        token == TokenOf(t.user, t.seen)
    IN
    /\ t.op \in {"login", "refresh"} /\ t.phase = "store" /\ Live(t.user)
    /\ user' = [user EXCEPT ![t.user].refresh = token]
    /\ tokens' = tokens \cup {token}
    /\ Finish(w)
    /\ UNCHANGED <<captcha, links, spent, misses, orgVars, now>>

-----------------------------------------------------------------------------
(* logout, refreshTokens *)

Logout(u) ==
    /\ SignedIn(u) /\ MayRun("logout", u) /\ MayBump(u)
    /\ user' = [user EXCEPT ![u] = SignedOut(@)]
    /\ UNCHANGED <<sessionVars, orgVars, now, task>>

\* bcrypt hashes 72 bytes, and those of a refresh token are its header and part
\* of the user id: the comparison tells users apart, not tokens.
SameHash(t, s) == t.user = s.user

RefreshCall(w, t) ==
    LET row == user[t.user] IN
    /\ Live(t.user)
    /\ row.refresh # None /\ row.active
    /\ SameHash(t, row.refresh)
    /\ MayStart(w, "refresh", t.user)
    /\ Start(w, [Idle EXCEPT !.op = "refresh", !.phase = "store", !.user = t.user,
                             !.seen = row])
    /\ UNCHANGED <<user, sessionVars, orgVars, now>>

-----------------------------------------------------------------------------
(* forgotPassword, resetPassword, updateProfile with a new password *)

ForgotPassword(u) ==
    /\ Live(u) /\ MayRun("forgot", u)
    /\ links' = links \cup {[user |-> u, version |-> user[u].version]}
    /\ UNCHANGED <<user, captcha, tokens, spent, misses, orgVars, now, task>>

\* Variant: the refresh token outlives the reset.
PasswordReset_KeepsRefresh(row) == [row EXCEPT !.version = @ + 1]

PasswordReset(row) == SignedOut(row)

\* Variant: the link's version is not compared.
LinkMatches_Always(l) == Live(l.user)

LinkMatches(l) == Live(l.user) /\ user[l.user].version = l.version

\* One conditional update by the version the link was issued for.
ResetPassword(l) ==
    /\ LinkMatches(l) /\ MayRun("reset", l.user) /\ MayBump(l.user)
    /\ user' = [user EXCEPT ![l.user] = PasswordReset(@)]
    /\ spent' = spent \cup {l}
    /\ UNCHANGED <<captcha, tokens, links, misses, orgVars, now, task>>

ProfileCall(w, u) ==
    /\ SignedIn(u) /\ MayStart(w, "profile", u) /\ MayBump(u)
    /\ Start(w, [Idle EXCEPT !.op = "profile", !.phase = "write", !.user = u,
                             !.seen = user[u]])
    /\ UNCHANGED <<user, sessionVars, orgVars, now>>

\* The next version is computed from the row that was read and written as is,
\* with the hash of the caller's new refresh token.
ProfileWrite(w) ==
    LET t == task[w]
        token == [user |-> t.user, role |-> t.seen.role, version |-> t.seen.version + 1]
    IN
    /\ t.op = "profile" /\ t.phase = "write" /\ Live(t.user)
    /\ user' = [user EXCEPT ![t.user].version = token.version, ![t.user].refresh = token]
    /\ tokens' = tokens \cup {token}
    /\ Finish(w)
    /\ UNCHANGED <<captcha, links, spent, misses, orgVars, now>>

-----------------------------------------------------------------------------
SessionCall(w) ==
    \/ \E u \in Users : ProfileCall(w, u)
    \/ \E u \in Users \cup {None}, c \in Captchas : LoginCall(w, u, c)
    \/ \E t \in tokens : RefreshCall(w, t)

SessionStep(w) ==
    \/ LoginClaim(w) \/ LoginUnlock(w) \/ WrongPassword(w) \/ RightPassword(w)
    \/ LoginSuspended(w) \/ LoginUnknown(w) \/ StoreTokens(w) \/ ProfileWrite(w)

SessionStatement ==
    \/ \E c \in Captchas : GenerateCaptcha(c) \/ PurgeCaptcha(c)
    \/ \E u \in Users : Logout(u) \/ ForgotPassword(u)
    \/ \E l \in links : ResetPassword(l)
=============================================================================
