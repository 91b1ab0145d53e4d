-------------------------- MODULE HrVerification --------------------------
(***************************************************************************)
(* HR's review lock, first decision and cancellation decision:             *)
(* src/modules/hr/services/hr-leave-verification.service.ts.               *)
(***************************************************************************)
EXTENDS LeaveStore

\* Variant: the self check is missing.
MayVerify_Own(user, r) == RoleOf[user] = "HR"

\* An HR user other than the owner of the request.
MayVerify(user, r) == RoleOf[user] = "HR" /\ req[r].owner # user

\* The conditional update both handlers lock a waiting request with.
Acquirable(r) == req[r].status = "PENDING_VERIFY" /\ req[r].reviewer = None

Acquired(r, user) ==
    [req EXCEPT ![r].status = "REVIEWING_HR", ![r].reviewer = user]

-----------------------------------------------------------------------------
(* markAsViewed *)

\* The HR user holds no other request under review.
HoldsOther(user, r) ==
    \E s \in Requests \ {r} :
        req[s].reviewer = user /\ req[s].status = "REVIEWING_HR"

ViewRead(w, user, r) ==
    /\ MayVerify(user, r)
    /\ req[r].status \in {"PENDING_VERIFY", "REVIEWING_HR"}
    /\ req[r].reviewer \in {None, user}
    /\ ~HoldsOther(user, r)
    /\ MayStart(w, "view", req[r].owner)
    /\ task' = [task EXCEPT ![w] =
            [Idle EXCEPT !.op = "view", !.phase = "acquire", !.user = user, !.r = r,
                         !.seen = req[r]]]
    /\ UNCHANGED <<req, bal, log, today>>

ViewAcquire(w) ==
    LET t == task[w] IN
    /\ t.op = "view" /\ t.phase = "acquire"
    /\ RowFree(w, t.r)
    /\ req' = IF Acquirable(t.r) THEN Acquired(t.r, t.user) ELSE req
    /\ Finish(w)
    /\ UNCHANGED <<bal, log, today>>

-----------------------------------------------------------------------------
(* processLeaveRequest *)

\* Where the handler goes on after the checks on the request it read.
HrNextPhase(row) ==
    CASE row.status = "PENDING_VERIFY" -> "acquire"
      [] row.status = "REVIEWING_HR" -> "decide"
      [] row.status = "PENDING_CANCELLATION" -> "claim"

HrRead(w, user, r, action) ==
    LET row == req[r] IN
    /\ row.status \in {"PENDING_VERIFY", "REVIEWING_HR", "PENDING_CANCELLATION"}
    /\ MayVerify(user, r)
    /\ row.status = "REVIEWING_HR" => row.reviewer = user
    /\ row.status = "PENDING_CANCELLATION" /\ action = "Approve" => NotBegun(row)
    /\ MayStart(w, "hr", row.owner)
    /\ LogRoom(r)
    /\ task' = [task EXCEPT ![w] =
            [Idle EXCEPT !.op = "hr", !.phase = HrNextPhase(row), !.user = user,
                         !.r = r, !.action = action, !.seen = row]]
    /\ UNCHANGED <<req, bal, log, today>>

\* A request nobody has opened is locked first; when another HR was faster, stop.
HrAcquire(w) ==
    LET t == task[w] IN
    /\ t.op = "hr" /\ t.phase = "acquire"
    /\ RowFree(w, t.r)
    /\ IF Acquirable(t.r)
       THEN /\ req' = Acquired(t.r, t.user)
            /\ task' = [task EXCEPT ![w].phase = "decide"]
       ELSE /\ req' = req
            /\ Finish(w)
    /\ UNCHANGED <<bal, log, today>>

\* Department heads' leave skips the supervisor.
IsHead(user) == RoleOf[user] \in {"Manager", "CEO"} \/ user \in Leaders

\* Variant: the status is written in its legacy spelling.
Verdict_Legacy(t) ==
    IF t.action = "Reject" THEN "Rejected"
    ELSE IF IsHead(t.seen.owner) THEN "PENDING_EXECUTIVE" ELSE "PENDING_SUPERVISOR"

Verdict(t) ==
    IF t.action = "Reject" THEN "REJECTED"
    ELSE IF IsHead(t.seen.owner) THEN "PENDING_EXECUTIVE" ELSE "PENDING_SUPERVISOR"

\* The transaction: update by id, whatever the row has become, and log.
HrDecide(w) ==
    LET t == task[w] IN
    /\ t.op = "hr" /\ t.phase = "decide"
    /\ RowFree(w, t.r)
    /\ req' = [req EXCEPT ![t.r].status = Verdict(t), ![t.r].reviewer = None]
    /\ log' = [log EXCEPT ![t.r] = Append(@, [by |-> t.user, status |-> Verdict(t)])]
    /\ Finish(w)
    /\ UNCHANGED <<bal, today>>

-----------------------------------------------------------------------------
(* The cancellation branch of processLeaveRequest *)

\* The transaction updates the row by id, which locks it, and reads the balance.
HrCancelBegin(w) ==
    LET t == task[w] IN
    /\ t.op = "hr" /\ t.phase = "claim"
    /\ RowFree(w, t.r)
    /\ task' = [task EXCEPT ![w].phase = "tx", ![w].balance = BalanceOf(t.seen)]
    /\ UNCHANGED <<req, bal, log, today>>

\* Variant: usedDays is left as it was.
Refunded_KeepsUsed(balance, hours) ==
    [balance EXCEPT !.remaining = Min({balance.total, balance.remaining + hours})]

\* The hours go back, never above the row's total.
Refunded(balance, hours) ==
    LET remaining == Min({balance.total, balance.remaining + hours})
    IN  [balance EXCEPT !.used = Max({0, balance.total - remaining}),
                        !.remaining = remaining]

HrCancelCommit(w) ==
    LET t == task[w]
        status == IF t.action = "Approve" THEN "CANCELLED" ELSE "APPROVED"
    IN
    /\ t.op = "hr" /\ t.phase = "tx"
    /\ req' = [req EXCEPT ![t.r].status = status]
    /\ log' = [log EXCEPT ![t.r] = Append(@, [by |-> t.user, status |-> status])]
    /\ bal' = IF t.action = "Approve" /\ t.balance # None
              THEN [bal EXCEPT ![AccountOf(t.seen)] = Refunded(t.balance, t.seen.total)]
              ELSE bal
    /\ Finish(w)
    /\ UNCHANGED today

-----------------------------------------------------------------------------
HrCall(w) ==
    \E user \in Users, r \in Requests :
        \/ ViewRead(w, user, r)
        \/ \E action \in {"Approve", "Reject"} : HrRead(w, user, r, action)

HrStep(w) ==
    \/ ViewAcquire(w) \/ HrAcquire(w) \/ HrDecide(w)
    \/ HrCancelBegin(w) \/ HrCancelCommit(w)
=============================================================================
