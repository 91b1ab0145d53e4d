------------------------- MODULE ApproverDecision -------------------------
(***************************************************************************)
(* The department head's decision (processRequest of                       *)
(* src/modules/manager/manager.service.ts) and the CEO's                   *)
(* (approveSpecialLeave of src/modules/ceo/ceo.service.ts).                *)
(***************************************************************************)
EXTENDS LeaveStore

\* ManagerService.getEmployeeByUserId: role Manager, or HR in a Leader position.
MayHead(user) == RoleOf[user] = "Manager" \/ (RoleOf[user] = "HR" /\ user \in Leaders)

ManagerRead(w, user, r, action) ==
    LET row == req[r] IN
    /\ MayHead(user)
    /\ row.status = "PENDING_SUPERVISOR"
    /\ row.owner # user
    /\ DeptOf[row.owner] = DeptOf[user]
    /\ MayStart(w, "manager", row.owner)
    /\ LogRoom(r)
    /\ task' = [task EXCEPT ![w] =
            [Idle EXCEPT !.op = "manager", !.phase = "claim", !.user = user, !.r = r,
                         !.action = action, !.seen = row]]
    /\ UNCHANGED <<req, bal, log, today>>

CeoRead(w, user, r, action) ==
    LET row == req[r] IN
    /\ RoleOf[user] = "CEO"
    /\ row.status = "PENDING_EXECUTIVE"
    /\ row.owner # user
    /\ MayStart(w, "ceo", row.owner)
    /\ LogRoom(r)
    /\ task' = [task EXCEPT ![w] =
            [Idle EXCEPT !.op = "ceo", !.phase = "claim", !.user = user, !.r = r,
                         !.action = action, !.seen = row]]
    /\ UNCHANGED <<req, bal, log, today>>

\* Variant: special types end with the department head.
Outcome_NoCeo(t) == IF t.action = "Reject" THEN "REJECTED" ELSE "APPROVED"

\* The status the decision leads to, computed from the request as it was read.
Outcome(t) ==
    IF t.action = "Reject" THEN "REJECTED"
    ELSE IF t.op = "manager" /\ t.seen.type \in SpecialTypes THEN "PENDING_EXECUTIVE"
    ELSE "APPROVED"

\* Variant: the update is by id alone.
Claimable_ById(t) == TRUE

\* The conditional update of the transaction: still waiting for this approver,
\* or the handler stops.  It locks the row; the balance is read next.
Claimable(t) ==
    req[t.r].status = IF t.op = "manager" THEN "PENDING_SUPERVISOR" ELSE "PENDING_EXECUTIVE"

Claim(w) ==
    LET t == task[w] IN
    /\ t.op \in {"manager", "ceo"} /\ t.phase = "claim"
    /\ RowFree(w, t.r)
    /\ IF Claimable(t)
       THEN task' = [task EXCEPT ![w].phase = "tx", ![w].balance = BalanceOf(t.seen)]
       ELSE Finish(w)
    /\ UNCHANGED <<req, bal, log, today>>

\* A final approval charges the balance row, when there is one.
Charges(t) == Outcome(t) = "APPROVED" /\ t.balance # None

Deducted(balance, hours) ==
    [balance EXCEPT !.used = balance.total - (balance.remaining - hours),
                    !.remaining = balance.remaining - hours]

Commit(w) ==
    LET t == task[w] IN
    /\ t.op \in {"manager", "ceo"} /\ t.phase = "tx"
    /\ Charges(t) => t.seen.total <= t.balance.remaining
    /\ req' = [req EXCEPT ![t.r].status = Outcome(t)]
    /\ log' = [log EXCEPT ![t.r] = Append(@, [by |-> t.user, status |-> Outcome(t)])]
    /\ bal' = IF Charges(t)
              THEN [bal EXCEPT ![AccountOf(t.seen)] = Deducted(t.balance, t.seen.total)]
              ELSE bal
    /\ Finish(w)
    /\ UNCHANGED today

\* Variant: the shortage is noticed, but nothing ends the transaction.
Rollback_LeftOpen(w) == FALSE

\* The balance does not cover the leave: the transaction rolls back.
Rollback(w) ==
    LET t == task[w] IN
    /\ t.op \in {"manager", "ceo"} /\ t.phase = "tx"
    /\ Charges(t) /\ t.seen.total > t.balance.remaining
    /\ Finish(w)
    /\ UNCHANGED <<req, bal, log, today>>

-----------------------------------------------------------------------------
ApproverCall(w) ==
    \E user \in Users, r \in Requests, action \in {"Approve", "Reject"} :
        ManagerRead(w, user, r, action) \/ CeoRead(w, user, r, action)

ApproverStep(w) == Claim(w) \/ Commit(w) \/ Rollback(w)
=============================================================================
