------------------------- MODULE EmployeeMutation -------------------------
(***************************************************************************)
(* Filing, editing and cancelling leave:                                   *)
(* src/modules/employee/services/employee-mutation.service.ts.             *)
(***************************************************************************)
EXTENDS LeaveStore

EveryDay(owner, type) == <<owner, type>> \in WholeCalendar

-----------------------------------------------------------------------------
(* createLeaveRequest *)

\* Caller, balance row and advance notice are checked.
CreateRead(w, user, ask, type) ==
    /\ RoleOf[user] # "CEO"
    /\ MayStart(w, "create", user)
    /\ Cardinality({v \in Workers : task[v].op = "create"})
         < Cardinality({r \in Requests : req[r].status = "NONE"})
    /\ <<user, type, ThisYear>> \in Accounts
    /\ Notice[type] > 0 => ask.first - today >= Notice[type]
    /\ task' = [task EXCEPT ![w] =
            [Idle EXCEPT !.op = "create", !.phase = "plan", !.user = user, !.ask = ask,
                         !.draft = [NoRow EXCEPT !.type = type],
                         !.balance = bal[<<user, type, ThisYear>>]]]
    /\ UNCHANGED <<req, bal, log, today>>

\* The row planned against the leaves the database holds now.
PlannedRow(t, owner, type, except) ==
    LET taken == Occupied(owner, except)
        days  == PlanDays(t.ask, taken, EveryDay(owner, type))
        hours == RequestHours(t.ask, days, EveryDay(owner, type))
    IN  [status |-> "PENDING_VERIFY", code |-> None, owner |-> owner, type |-> type,
         ask |-> t.ask, days |-> days, total |-> hours,
         paid |-> PaidHours(owner, type, hours, except), reviewer |-> None, sent |-> {}]

\* Variant: pending requests do not reserve the balance.
PlanAccepted_NoReserve(t, owner, type, except) ==
    LET hours == PlannedRow(t, owner, type, except).total
    IN  /\ PlanOk(t.ask, Occupied(owner, except), EveryDay(owner, type))
        /\ hours > 0
        /\ hours <= t.balance.remaining

\* No day is taken up, some hours count, and the balance covers them.
PlanAccepted(t, owner, type, except) ==
    LET hours == PlannedRow(t, owner, type, except).total
    IN  /\ PlanOk(t.ask, Occupied(owner, except), EveryDay(owner, type))
        /\ hours > 0
        /\ hours <= t.balance.remaining - PendingHours(owner, type, except)

\* Overlaps, hours, balance and paid hours are worked out.
CreatePlan(w) ==
    LET t == task[w] IN
    /\ t.op = "create" /\ t.phase = "plan"
    /\ IF PlanAccepted(t, t.user, t.draft.type, {})
       THEN task' = [task EXCEPT ![w].phase = "code",
                        ![w].draft = PlannedRow(t, t.user, t.draft.type, {})]
       ELSE Finish(w)
    /\ UNCHANGED <<req, bal, log, today>>

\* The request code follows the highest number the database holds now.
CreateCode(w) ==
    LET t == task[w] IN
    /\ t.op = "create" /\ t.phase = "code"
    /\ NextSeq \in 1 .. MaxSeq
    /\ task' = [task EXCEPT ![w].phase = "insert",
                    ![w].draft.code = <<t.draft.type, NextSeq, ThisYear>>]
    /\ UNCHANGED <<req, bal, log, today>>

\* Variant: the slots are not looked at again under the lock.
StillFree_Unchecked(t) == TRUE

\* The plan is made again under the lock; it must find every day free.
StillFree(t) ==
    PlanOk(t.ask, Occupied(t.user, {}), EveryDay(t.user, t.draft.type))

\* The days are the fresh plan's, the hours and the code those of the first.
Inserted(t) ==
    [t.draft EXCEPT !.status = "PENDING_VERIFY",
        !.days = PlanDays(t.ask, Occupied(t.user, {}), EveryDay(t.user, t.draft.type))]

CodeTaken(t) == \E r \in Requests : req[r].code = t.draft.code

\* The transaction: lock the employee's rows, plan again, insert.
CreateInsert(w) ==
    LET t == task[w]
        fresh == CHOOSE r \in Requests : req[r].status = "NONE"
    IN
    /\ t.op = "create" /\ t.phase = "insert" /\ req[fresh].status = "NONE"
    /\ \A r \in OwnedBy(t.user) : RowFree(w, r)
    /\ req' = IF StillFree(t) /\ ~CodeTaken(t)
              THEN [req EXCEPT ![fresh] = Inserted(t)] ELSE req
    /\ Finish(w)
    /\ UNCHANGED <<bal, log, today>>

-----------------------------------------------------------------------------
(* updateLeaveRequest *)

\* Variant: the request may already be with the department head.
MayEdit_Verified(user, r) ==
    /\ req[r].owner = user \/ RoleOf[user] \in {"HR", "CEO"}
    /\ req[r].status \in {"PENDING_VERIFY", "REVIEWING_HR", "PENDING_SUPERVISOR"}

MayEdit(user, r) ==
    /\ req[r].owner = user \/ RoleOf[user] \in {"HR", "CEO"}
    /\ req[r].status \in {"PENDING_VERIFY", "REVIEWING_HR"}

\* A form with dates: the request and the balance of its owner for its present
\* type are read.  extra holds the type, status and hours the form may name as
\* well; they are checked by nothing.
EditRead(w, user, r, ask, extra) ==
    LET row == req[r]
        account == <<row.owner, row.type, ThisYear>>
    IN
    /\ MayEdit(user, r)
    /\ MayStart(w, "edit", row.owner)
    /\ account \in Accounts
    /\ Notice[row.type] > 0 => ask.first - today >= Notice[row.type]
    /\ task' = [task EXCEPT ![w] =
            [Idle EXCEPT !.op = "edit", !.phase = "plan", !.user = user, !.r = r,
                         !.ask = ask, !.extra = extra, !.seen = row,
                         !.balance = bal[account]]]
    /\ UNCHANGED <<req, bal, log, today>>

\* A form without dates is not planned: the columns it names are written as they
\* are, with the reason.
EditReadPlain(w, user, r, extra) ==
    LET row == req[r] IN
    /\ MayEdit(user, r)
    /\ MayStart(w, "edit", row.owner)
    /\ task' = [task EXCEPT ![w] =
            [Idle EXCEPT !.op = "edit", !.phase = "write", !.user = user, !.r = r,
                         !.extra = extra, !.seen = row]]
    /\ UNCHANGED <<req, bal, log, today>>

EditPlan(w) ==
    LET t == task[w]
        planned == PlannedRow(t, t.seen.owner, t.seen.type, {t.r})
    IN
    /\ t.op = "edit" /\ t.phase = "plan"
    /\ IF PlanAccepted(t, t.seen.owner, t.seen.type, {t.r})
       THEN task' = [task EXCEPT ![w].phase = "write", ![w].draft = planned]
       ELSE Finish(w)
    /\ UNCHANGED <<req, bal, log, today>>

\* The columns of the form that reach the row: a plan overwrites the hours, and
\* going back to the queue the status.
Supplied(t) ==
    {column \in DOMAIN NoExtra :
        /\ t.extra[column] # None
        /\ column = "total" => t.ask = None
        /\ column = "status" => t.seen.status # "REVIEWING_HR"}

\* Variant: the leaverequestday rows of the old dates stay.
Replanned_OldDays(t, row) ==
    IF t.ask = None THEN row
    ELSE [row EXCEPT !.ask = t.draft.ask, !.total = t.draft.total, !.paid = t.draft.paid]

\* A form with dates brings its plan.
Replanned(t, row) ==
    IF t.ask = None THEN row
    ELSE [row EXCEPT !.ask = t.draft.ask, !.days = t.draft.days,
                     !.total = t.draft.total, !.paid = t.draft.paid]

\* What the form replaces: its plan, and the columns it names.
Rewritten(t, row) ==
    LET Named(column, old) == IF column \in Supplied(t) THEN t.extra[column] ELSE old
    IN  [Replanned(t, row) EXCEPT !.type = Named("type", @), !.status = Named("status", @),
                                  !.total = Named("total", @), !.sent = @ \cup Supplied(t)]

\* A request that was under review when it was read goes back to the queue.
\* Variant: its reviewer keeps it.
Requeued_KeepsReviewer(t, row) ==
    IF t.seen.status = "REVIEWING_HR" THEN [row EXCEPT !.status = "PENDING_VERIFY"] ELSE row

Requeued(t, row) ==
    IF t.seen.status = "REVIEWING_HR"
    THEN [row EXCEPT !.status = "PENDING_VERIFY", !.reviewer = None] ELSE row

\* One update by id, with no condition on what the row has become.
EditWrite(w) ==
    LET t == task[w] IN
    /\ t.op = "edit" /\ t.phase = "write"
    /\ RowFree(w, t.r)
    /\ req' = [req EXCEPT ![t.r] = Requeued(t, Rewritten(t, @))]
    /\ Finish(w)
    /\ UNCHANGED <<bal, log, today>>

-----------------------------------------------------------------------------
(* deleteLeaveRequest *)

CancelRead(w, user, r) ==
    LET row == req[r] IN
    /\ row.owner = user
    /\ row.status = "APPROVED"
    /\ NotBegun(row)
    /\ MayStart(w, "cancel", user)
    /\ LogRoom(r)
    /\ task' = [task EXCEPT ![w] =
            [Idle EXCEPT !.op = "cancel", !.phase = "write", !.user = user, !.r = r,
                         !.seen = row]]
    /\ UNCHANGED <<req, bal, log, today>>

CancelWrite(w) ==
    LET t == task[w] IN
    /\ t.op = "cancel" /\ t.phase = "write"
    /\ RowFree(w, t.r)
    /\ req' = [req EXCEPT ![t.r].status = "PENDING_CANCELLATION"]
    /\ Finish(w)
    /\ UNCHANGED <<bal, log, today>>

-----------------------------------------------------------------------------
EmployeeCall(w) ==
    \E user \in Users :
        \/ \E ask \in Asks, type \in LeaveTypes : CreateRead(w, user, ask, type)
        \/ \E r \in Requests :
            \/ \E ask \in Asks, extra \in Extras : EditRead(w, user, r, ask, extra)
            \/ \E extra \in Extras : EditReadPlain(w, user, r, extra)
            \/ CancelRead(w, user, r)

EmployeeStep(w) ==
    CreatePlan(w) \/ CreateCode(w) \/ CreateInsert(w) \/ EditPlan(w) \/ EditWrite(w) \/ CancelWrite(w)
=============================================================================
