----------------------- MODULE LeaveExclusionProofs -----------------------
(***************************************************************************)
(* What holds of the leave workflow when some operations are kept from     *)
(* overlapping with others on one employee (Exclusive): for every set of   *)
(* users, workers, requests, forms and days.                               *)
(***************************************************************************)
EXTENDS LeaveSystemProofs, SumProofs

-----------------------------------------------------------------------------
(* Handlers that are kept apart. *)

\* Two handlers on one employee's leave, one of them of an exclusive operation,
\* are never in flight together.
Apart ==
    \A v, w \in Workers :
        v # w /\ Busy(v) /\ Busy(w) /\ Subject(task[v]) = Subject(task[w]) =>
            {task[v].op, task[w].op} \cap Exclusive = {}

\* What a call has made sure of, and read, when its handler starts.
Started(t) ==
    /\ t.op \in OpNames
    /\ t.op = "create" =>
          /\ t.phase = "plan" /\ t.draft.reviewer = None
          /\ t.ask \in Asks
          /\ <<t.user, t.draft.type, ThisYear>> \in Accounts
          /\ t.balance = bal[<<t.user, t.draft.type, ThisYear>>]
    /\ t.op \in RowOps => t.r \in Requests /\ t.seen = req[t.r]
    /\ t.op = "edit" =>
          /\ t.seen.status \in {"PENDING_VERIFY", "REVIEWING_HR"} /\ t.extra \in Extras
          /\ \/ t.phase = "write" /\ t.ask = None
             \/ /\ t.phase = "plan" /\ t.ask \in Asks
                /\ <<t.seen.owner, t.seen.type, ThisYear>> \in Accounts
                /\ t.balance = bal[<<t.seen.owner, t.seen.type, ThisYear>>]
    /\ t.op = "cancel" => t.phase = "write" /\ t.seen.status = "APPROVED"
    /\ t.op = "view" => t.phase = "acquire"
    /\ t.op = "hr" =>
          /\ \/ t.phase = "acquire" /\ t.seen.status = "PENDING_VERIFY"
             \/ t.phase = "decide" /\ t.seen.status = "REVIEWING_HR"
             \/ t.phase = "claim" /\ t.seen.status = "PENDING_CANCELLATION"
          /\ t.seen.status = "PENDING_CANCELLATION" /\ t.action = "Approve" => NotBegun(t.seen)
    /\ t.op \in {"manager", "ceo"} => t.phase = "claim"

\* A call starts one handler, with what it has read, and writes nothing.
LEMMA CallStarts ==
    ASSUME TypeInv, NEW w \in Workers, Call(w)
    PROVE  \E t : /\ task' = [task EXCEPT ![w] = t] /\ UNCHANGED <<req, bal, log, today>>
                  /\ MayStart(w, t.op, Subject(t)) /\ Started(t)
<1> DEFINE Shape(t) == /\ task' = [task EXCEPT ![w] = t] /\ UNCHANGED <<req, bal, log, today>>
                       /\ MayStart(w, t.op, Subject(t)) /\ Started(t)
<1> SUFFICES \E t : Shape(t)
    OBVIOUS
<1>1. ASSUME NEW user \in Users, NEW ask \in Asks, NEW type \in LeaveTypes,
             CreateRead(w, user, ask, type)
      PROVE  \E t : Shape(t)
    <2> DEFINE t == [Idle EXCEPT !.op = "create", !.phase = "plan", !.user = user, !.ask = ask,
                                 !.draft = [NoRow EXCEPT !.type = type],
                                 !.balance = bal[<<user, type, ThisYear>>]]
    <2>1. /\ t.op = "create" /\ t.phase = "plan" /\ t.user = user /\ t.ask = ask
          /\ t.draft.type = type /\ t.draft.reviewer = None
          /\ t.balance = bal[<<user, type, ThisYear>>]
        BY DEF Idle, NoRow
    <2>2. /\ task' = [task EXCEPT ![w] = t] /\ UNCHANGED <<req, bal, log, today>>
          /\ MayStart(w, "create", user) /\ <<user, type, ThisYear>> \in Accounts
        BY <1>1 DEF CreateRead
    <2> HIDE DEF t
    <2>3. Shape(t)
        BY <2>1, <2>2 DEF Started, Subject, RowOps, OpNames
    <2> QED BY <2>3
<1>2. ASSUME NEW user \in Users, NEW r \in Requests, NEW ask \in Asks,
             NEW extra \in Extras, EditRead(w, user, r, ask, extra)
      PROVE  \E t : Shape(t)
    <2> DEFINE t == [Idle EXCEPT !.op = "edit", !.phase = "plan", !.user = user, !.r = r,
                                 !.ask = ask, !.extra = extra, !.seen = req[r],
                                 !.balance = bal[<<req[r].owner, req[r].type, ThisYear>>]]
    <2>1. /\ t.op = "edit" /\ t.phase = "plan" /\ t.r = r /\ t.ask = ask /\ t.seen = req[r]
          /\ t.extra = extra /\ t.balance = bal[<<req[r].owner, req[r].type, ThisYear>>]
        BY DEF Idle
    <2>2. /\ task' = [task EXCEPT ![w] = t] /\ UNCHANGED <<req, bal, log, today>>
          /\ MayStart(w, "edit", req[r].owner)
          /\ <<req[r].owner, req[r].type, ThisYear>> \in Accounts
          /\ req[r].status \in {"PENDING_VERIFY", "REVIEWING_HR"}
        BY <1>2 DEF EditRead, MayEdit
    <2> HIDE DEF t
    <2>3. Shape(t)
        BY <2>1, <2>2 DEF Started, Subject, RowOps, OpNames
    <2> QED BY <2>3
<1>3. ASSUME NEW user \in Users, NEW r \in Requests,
             NEW extra \in Extras, EditReadPlain(w, user, r, extra)
      PROVE  \E t : Shape(t)
    <2> DEFINE t == [Idle EXCEPT !.op = "edit", !.phase = "write", !.user = user, !.r = r,
                                 !.extra = extra, !.seen = req[r]]
    <2>1. /\ t.op = "edit" /\ t.phase = "write" /\ t.r = r /\ t.seen = req[r]
          /\ t.ask = None /\ t.extra = extra
        BY DEF Idle
    <2>2. /\ task' = [task EXCEPT ![w] = t] /\ UNCHANGED <<req, bal, log, today>>
          /\ MayStart(w, "edit", req[r].owner)
          /\ req[r].status \in {"PENDING_VERIFY", "REVIEWING_HR"}
        BY <1>3 DEF EditReadPlain, MayEdit
    <2> HIDE DEF t
    <2>3. Shape(t)
        BY <2>1, <2>2 DEF Started, Subject, RowOps, OpNames
    <2> QED BY <2>3
<1>4. ASSUME NEW user \in Users, NEW r \in Requests, CancelRead(w, user, r)
      PROVE  \E t : Shape(t)
    <2> DEFINE t == [Idle EXCEPT !.op = "cancel", !.phase = "write", !.user = user, !.r = r,
                                 !.seen = req[r]]
    <2>1. t.op = "cancel" /\ t.phase = "write" /\ t.r = r /\ t.seen = req[r]
        BY DEF Idle
    <2>2. /\ task' = [task EXCEPT ![w] = t] /\ UNCHANGED <<req, bal, log, today>>
          /\ MayStart(w, "cancel", user) /\ req[r].status = "APPROVED" /\ req[r].owner = user
        BY <1>4 DEF CancelRead
    <2> HIDE DEF t
    <2>3. Shape(t)
        BY <2>1, <2>2 DEF Started, Subject, RowOps, OpNames
    <2> QED BY <2>3
<1>5. ASSUME NEW user \in Users, NEW r \in Requests, ViewRead(w, user, r)
      PROVE  \E t : Shape(t)
    <2> DEFINE t == [Idle EXCEPT !.op = "view", !.phase = "acquire", !.user = user, !.r = r,
                                 !.seen = req[r]]
    <2>1. t.op = "view" /\ t.phase = "acquire" /\ t.r = r /\ t.seen = req[r]
        BY DEF Idle
    <2>2. /\ task' = [task EXCEPT ![w] = t] /\ UNCHANGED <<req, bal, log, today>>
          /\ MayStart(w, "view", req[r].owner)
        BY <1>5 DEF ViewRead
    <2> HIDE DEF t
    <2>3. Shape(t)
        BY <2>1, <2>2 DEF Started, Subject, RowOps, OpNames
    <2> QED BY <2>3
<1>6. ASSUME NEW user \in Users, NEW r \in Requests, NEW action \in {"Approve", "Reject"},
             HrRead(w, user, r, action)
      PROVE  \E t : Shape(t)
    <2> DEFINE t == [Idle EXCEPT !.op = "hr", !.phase = HrNextPhase(req[r]), !.user = user,
                                 !.r = r, !.action = action, !.seen = req[r]]
    <2>1. /\ t.op = "hr" /\ t.phase = HrNextPhase(req[r]) /\ t.r = r /\ t.seen = req[r]
          /\ t.action = action
        BY DEF Idle
    <2>2. /\ task' = [task EXCEPT ![w] = t] /\ UNCHANGED <<req, bal, log, today>>
          /\ MayStart(w, "hr", req[r].owner)
          /\ req[r].status = "PENDING_CANCELLATION" /\ action = "Approve" => NotBegun(req[r])
          /\ req[r].status \in {"PENDING_VERIFY", "REVIEWING_HR", "PENDING_CANCELLATION"}
        BY <1>6 DEF HrRead
    <2>3. \/ HrNextPhase(req[r]) = "acquire" /\ req[r].status = "PENDING_VERIFY"
          \/ HrNextPhase(req[r]) = "decide" /\ req[r].status = "REVIEWING_HR"
          \/ HrNextPhase(req[r]) = "claim" /\ req[r].status = "PENDING_CANCELLATION"
        BY <2>2 DEF HrNextPhase
    <2> HIDE DEF t
    <2>4. Shape(t)
        BY <2>1, <2>2, <2>3 DEF Started, Subject, RowOps, OpNames
    <2> QED BY <2>4
<1>7. ASSUME NEW user \in Users, NEW r \in Requests, NEW action \in {"Approve", "Reject"},
             ManagerRead(w, user, r, action)
      PROVE  \E t : Shape(t)
    <2> DEFINE t == [Idle EXCEPT !.op = "manager", !.phase = "claim", !.user = user, !.r = r,
                                 !.action = action, !.seen = req[r]]
    <2>1. t.op = "manager" /\ t.phase = "claim" /\ t.r = r /\ t.seen = req[r]
        BY DEF Idle
    <2>2. /\ task' = [task EXCEPT ![w] = t] /\ UNCHANGED <<req, bal, log, today>>
          /\ MayStart(w, "manager", req[r].owner)
        BY <1>7 DEF ManagerRead
    <2> HIDE DEF t
    <2>3. Shape(t)
        BY <2>1, <2>2 DEF Started, Subject, RowOps, OpNames
    <2> QED BY <2>3
<1>8. ASSUME NEW user \in Users, NEW r \in Requests, NEW action \in {"Approve", "Reject"},
             CeoRead(w, user, r, action)
      PROVE  \E t : Shape(t)
    <2> DEFINE t == [Idle EXCEPT !.op = "ceo", !.phase = "claim", !.user = user, !.r = r,
                                 !.action = action, !.seen = req[r]]
    <2>1. t.op = "ceo" /\ t.phase = "claim" /\ t.r = r /\ t.seen = req[r]
        BY DEF Idle
    <2>2. /\ task' = [task EXCEPT ![w] = t] /\ UNCHANGED <<req, bal, log, today>>
          /\ MayStart(w, "ceo", req[r].owner)
        BY <1>8 DEF CeoRead
    <2> HIDE DEF t
    <2>3. Shape(t)
        BY <2>1, <2>2 DEF Started, Subject, RowOps, OpNames
    <2> QED BY <2>3
<1> HIDE DEF Shape
<1> QED BY <1>1, <1>2, <1>3, <1>4, <1>5, <1>6, <1>7, <1>8
        DEF Call, EmployeeCall, HrCall, ApproverCall

\* MayStart keeps exclusive handlers apart, and no step changes whose leave one is on.
LEMMA NextApart == TypeInv /\ Apart /\ [Next]_vars => Apart'
<1> SUFFICES ASSUME TypeInv, Apart, [Next]_vars PROVE Apart'
    OBVIOUS
<1>0. task \in [Workers -> Task]
    BY DEF TypeInv, TypeOK
<1>1. CASE UNCHANGED vars \/ Midnight
    <2>1. UNCHANGED task
        BY <1>1 DEF vars, Midnight
    <2> QED BY <2>1 DEF Apart, Busy
<1>2. ASSUME NEW w \in Workers, Call(w) PROVE Apart'
    <2>1. PICK t : /\ task' = [task EXCEPT ![w] = t]
                   /\ MayStart(w, t.op, Subject(t)) /\ Started(t)
        BY <1>2, CallStarts
    <2>2. task'[w] = t /\ \A v \in Workers \ {w} : task'[v] = task[v]
        BY <1>0, <2>1
    <2>3. \A v \in Workers \ {w} :
             task[v].op # "idle" /\ Subject(task[v]) = Subject(t) =>
                 {t.op, task[v].op} \cap Exclusive = {}
        BY <2>1 DEF MayStart, Busy
    <2> QED BY <2>2, <2>3 DEF Apart, Busy
<1>3. ASSUME NEW w \in Workers, Step(w) \/ Fail(w) PROVE Apart'
    <2>1. PICK t : task' = [task EXCEPT ![w] = t] /\ (t = Idle \/ SameJob(t, task[w]))
        BY <1>3, StepShape
    <2>2. task'[w] = t /\ \A v \in Workers \ {w} : task'[v] = task[v]
        BY <1>0, <2>1
    <2>3. t.op = "idle" \/ (t.op = task[w].op /\ Subject(t) = Subject(task[w]))
        BY <2>1 DEF SameJob, Subject, Idle
    <2> QED BY <2>2, <2>3 DEF Apart, Busy
<1> QED BY <1>1, <1>2, <1>3 DEF Next

-----------------------------------------------------------------------------
(* What a handler's step does to one request. *)

\* The row keeps everything but its status and its reviewer.
Restated(old, new, status, reviewer) ==
    new = [old EXCEPT !.status = status, !.reviewer = reviewer]

\* The fields of a row that only changed its status and its reviewer.
LEMMA RestatedFields ==
    ASSUME NEW old \in Row, NEW new, NEW status, NEW reviewer, Restated(old, new, status, reviewer)
    PROVE  /\ new.status = status /\ new.reviewer = reviewer
           /\ new.owner = old.owner /\ new.type = old.type /\ new.ask = old.ask
           /\ new.days = old.days /\ new.total = old.total /\ new.paid = old.paid
           /\ new.code = old.code /\ new.sent = old.sent
BY DEF Restated, Row

\* The status and the reviewer that a handler's step gives its request.
Decides(w, status, reviewer) ==
    LET t == task[w] IN
    \/ CancelWrite(w) /\ status = "PENDING_CANCELLATION" /\ reviewer = req[t.r].reviewer
    \/ /\ ViewAcquire(w) \/ HrAcquire(w)
       /\ Acquirable(t.r) /\ status = "REVIEWING_HR" /\ reviewer = t.user
    \/ HrDecide(w) /\ status = Verdict(t) /\ reviewer = None
    \/ /\ HrCancelCommit(w) /\ reviewer = req[t.r].reviewer
       /\ status = IF t.action = "Approve" THEN "CANCELLED" ELSE "APPROVED"
    \/ Commit(w) /\ status = Outcome(t) /\ reviewer = req[t.r].reviewer

\* A row is left alone, filed, rewritten by an edit, or given a new status.
Moves(w, r) ==
    \/ req'[r] = req[r]
    \/ /\ CreateInsert(w) /\ StillFree(task[w]) /\ req[r].status = "NONE"
       /\ req'[r] = Inserted(task[w])
    \/ /\ EditWrite(w) /\ r = task[w].r
       /\ req'[r] = Requeued(task[w], Rewritten(task[w], req[r]))
    \/ /\ r = task[w].r
       /\ \E status, reviewer :
             Decides(w, status, reviewer) /\ Restated(req[r], req'[r], status, reviewer)

\* One request at most is touched.
OneMoves(w) ==
    /\ \A r \in Requests : Moves(w, r)
    /\ \A r, s \in Requests : req'[r] # req[r] /\ req'[s] # req[s] => r = s

\* An update by id of status and reviewer touches its own row.
LEMMA DecideMoves ==
    ASSUME TypeInv, NEW w \in Workers, NEW status, NEW reviewer, Decides(w, status, reviewer),
           req' = [req EXCEPT ![task[w].r].status = status, ![task[w].r].reviewer = reviewer]
    PROVE  OneMoves(w)
<1>0. req \in [Requests -> Row]
    BY DEF TypeInv, TypeOK
<1>1. ASSUME NEW r \in Requests PROVE Moves(w, r)
    <2>1. CASE r = task[w].r
        <3>1. req'[r] = [req[r] EXCEPT !.status = status, !.reviewer = reviewer]
            BY <1>0, <2>1
        <3> QED BY <2>1, <3>1 DEF Moves, Restated
    <2>2. CASE r # task[w].r
        BY <1>0, <2>2 DEF Moves
    <2> QED BY <2>1, <2>2
<1>2. \A r \in Requests \ {task[w].r} : req'[r] = req[r]
    BY <1>0
<1> QED BY <1>1, <1>2 DEF OneMoves

\* So does an update of the status alone.
LEMMA StatusMoves ==
    ASSUME TypeInv, NEW w \in Workers, NEW status, Decides(w, status, req[task[w].r].reviewer),
           req' = [req EXCEPT ![task[w].r].status = status]
    PROVE  OneMoves(w)
<1>0. req \in [Requests -> Row]
    BY DEF TypeInv, TypeOK
<1>1. \A row \in Row : [row EXCEPT !.status = status]
                         = [row EXCEPT !.status = status, !.reviewer = row.reviewer]
    BY DEF Row
<1>2. ASSUME NEW r \in Requests PROVE Moves(w, r)
    <2>1. CASE r = task[w].r
        <3>1. req'[r] = [req[r] EXCEPT !.status = status]
            BY <1>0, <2>1
        <3>2. req[r] \in Row
            BY <1>0
        <3>3. Restated(req[r], req'[r], status, req[r].reviewer)
            BY <1>1, <3>1, <3>2 DEF Restated
        <3> QED BY <2>1, <3>3 DEF Moves
    <2>2. CASE r # task[w].r
        BY <1>0, <2>2 DEF Moves
    <2> QED BY <2>1, <2>2
<1>3. \A r \in Requests \ {task[w].r} : req'[r] = req[r]
    BY <1>0
<1> QED BY <1>2, <1>3 DEF OneMoves

\* Every step of a handler touches at most one request, in one of four ways.
LEMMA StepMoves ==
    ASSUME TypeInv, NEW w \in Workers, Step(w) \/ Fail(w)
    PROVE  OneMoves(w)
<1> DEFINE t == task[w]
<1>0. req \in [Requests -> Row]
    BY DEF TypeInv, TypeOK
<1>1. CASE CreateInsert(w)
    <2> DEFINE fresh == CHOOSE r \in Requests : req[r].status = "NONE"
    <2>1. \/ UNCHANGED req
          \/ /\ req[fresh].status = "NONE" /\ StillFree(t)
             /\ req' = [req EXCEPT ![fresh] = Inserted(t)]
        BY <1>1 DEF CreateInsert
    <2> HIDE DEF fresh
    <2> QED BY <1>0, <1>1, <2>1 DEF Moves, OneMoves
<1>2. CASE EditWrite(w)
    <2>1. req' = [req EXCEPT ![t.r] = Requeued(t, Rewritten(t, req[t.r]))]
        BY <1>2 DEF EditWrite
    <2> QED BY <1>0, <1>2, <2>1 DEF Moves, OneMoves
<1>5. CASE CancelWrite(w)
    <2>1. Decides(w, "PENDING_CANCELLATION", req[task[w].r].reviewer)
        BY <1>5 DEF Decides
    <2>2. req' = [req EXCEPT ![task[w].r].status = "PENDING_CANCELLATION"]
        BY <1>5 DEF CancelWrite
    <2> QED BY <2>1, <2>2, StatusMoves
<1>6. CASE ViewAcquire(w) \/ HrAcquire(w)
    <2>1. CASE UNCHANGED req
        BY <2>1 DEF Moves, OneMoves
    <2>2. CASE Acquirable(t.r) /\ req' = Acquired(t.r, t.user)
        <3>1. Decides(w, "REVIEWING_HR", task[w].user)
            BY <1>6, <2>2 DEF Decides
        <3>2. req' = [req EXCEPT ![task[w].r].status = "REVIEWING_HR",
                                 ![task[w].r].reviewer = task[w].user]
            BY <2>2 DEF Acquired
        <3> QED BY <3>1, <3>2, DecideMoves
    <2> QED BY <1>6, <2>1, <2>2 DEF ViewAcquire, HrAcquire
<1>7. CASE HrDecide(w)
    <2>1. Decides(w, Verdict(task[w]), None)
        BY <1>7 DEF Decides
    <2>2. req' = [req EXCEPT ![task[w].r].status = Verdict(task[w]), ![task[w].r].reviewer = None]
        BY <1>7 DEF HrDecide
    <2> QED BY <2>1, <2>2, DecideMoves
<1>8. CASE HrCancelCommit(w)
    <2>1. Decides(w, IF task[w].action = "Approve" THEN "CANCELLED" ELSE "APPROVED",
                  req[task[w].r].reviewer)
        BY <1>8 DEF Decides
    <2>2. req' = [req EXCEPT ![task[w].r].status =
                     IF task[w].action = "Approve" THEN "CANCELLED" ELSE "APPROVED"]
        BY <1>8 DEF HrCancelCommit
    <2> QED BY <2>1, <2>2, StatusMoves
<1>9. CASE Commit(w)
    <2>1. Decides(w, Outcome(task[w]), req[task[w].r].reviewer)
        BY <1>9 DEF Decides
    <2>2. req' = [req EXCEPT ![task[w].r].status = Outcome(task[w])]
        BY <1>9 DEF Commit
    <2> QED BY <2>1, <2>2, StatusMoves
<1>10. CASE CreatePlan(w) \/ CreateCode(w) \/ EditPlan(w) \/ HrCancelBegin(w) \/ Claim(w)
            \/ Rollback(w) \/ Fail(w)
    <2>1. UNCHANGED req
        BY <1>10 DEF CreatePlan, CreateCode, EditPlan, HrCancelBegin, Claim, Rollback, Fail
    <2> QED BY <2>1 DEF Moves, OneMoves
<1> QED BY <1>1, <1>2, <1>5, <1>6, <1>7, <1>8, <1>9, <1>10
        DEF Step, EmployeeStep, HrStep, ApproverStep

\* What an edit writes: its plan, if it has dates, and the columns it names.
LEMMA EditedFields ==
    ASSUME NEW t \in Task, NEW old \in Row
    PROVE  LET new == Requeued(t, Rewritten(t, old)) IN
           /\ new.owner = old.owner /\ new.code = old.code
           /\ new.sent = old.sent \cup Supplied(t)
           /\ new.type = IF "type" \in Supplied(t) THEN t.extra.type ELSE old.type
           /\ new.status = IF t.seen.status = "REVIEWING_HR" THEN "PENDING_VERIFY"
                           ELSE IF "status" \in Supplied(t) THEN t.extra.status ELSE old.status
           /\ new.reviewer = IF t.seen.status = "REVIEWING_HR" THEN None ELSE old.reviewer
           /\ t.ask = None =>
                 /\ new.ask = old.ask /\ new.days = old.days /\ new.paid = old.paid
                 /\ new.total = IF "total" \in Supplied(t) THEN t.extra.total ELSE old.total
           /\ t.ask # None =>
                 /\ new.ask = t.draft.ask /\ new.days = t.draft.days
                 /\ new.total = t.draft.total /\ new.paid = t.draft.paid
<1>0. "total" \in Supplied(t) => t.ask = None
    BY SuppliedType
<1>1. PICK plan : plan = Replanned(t, old)
    OBVIOUS
<1>2. /\ t.ask = None => plan = old
      /\ t.ask # None => /\ plan.ask = t.draft.ask /\ plan.days = t.draft.days
                         /\ plan.total = t.draft.total /\ plan.paid = t.draft.paid
    BY <1>1, ReplannedFields
<1>3. PICK mid : mid = Rewritten(t, old)
    OBVIOUS
<1>4. /\ mid \in Row
      /\ mid.code = old.code /\ mid.owner = old.owner
      /\ mid.reviewer = old.reviewer /\ mid.sent = old.sent \cup Supplied(t)
      /\ mid.ask = plan.ask /\ mid.days = plan.days /\ mid.paid = plan.paid
      /\ mid.type = IF "type" \in Supplied(t) THEN t.extra.type ELSE old.type
      /\ mid.status = IF "status" \in Supplied(t) THEN t.extra.status ELSE old.status
      /\ mid.total = IF "total" \in Supplied(t) THEN t.extra.total ELSE plan.total
    BY <1>1, <1>3, RewrittenFields
<1>5. PICK new : new = Requeued(t, mid)
    OBVIOUS
<1>6. /\ new.code = mid.code /\ new.owner = mid.owner /\ new.type = mid.type
      /\ new.ask = mid.ask /\ new.days = mid.days /\ new.total = mid.total
      /\ new.paid = mid.paid /\ new.sent = mid.sent
      /\ t.seen.status = "REVIEWING_HR" => new.status = "PENDING_VERIFY" /\ new.reviewer = None
      /\ t.seen.status # "REVIEWING_HR" => new.status = mid.status /\ new.reviewer = mid.reviewer
    BY <1>4, <1>5, RequeuedFields
<1>7. new = Requeued(t, Rewritten(t, old))
    BY <1>3, <1>5
<1> QED BY <1>0, <1>2, <1>4, <1>6, <1>7

-----------------------------------------------------------------------------
(* How a handler goes on. *)

SameCall(t, u) ==
    /\ t.op = u.op /\ t.user = u.user /\ t.r = u.r /\ t.action = u.action
    /\ t.ask = u.ask /\ t.extra = u.extra /\ t.seen = u.seen

\* Two rows that differ at most in what the second parameter leaves out.
SamePlan(row, plan) ==
    /\ row.owner = plan.owner /\ row.ask = plan.ask /\ row.days = plan.days
    /\ row.total = plan.total /\ row.paid = plan.paid /\ row.reviewer = plan.reviewer
    /\ row.sent = plan.sent

\* What becomes of the handler of w when it takes a step: it ends, or it goes on
\* with what it has worked out.
Resumes(w, t) ==
    LET u == task[w] IN
    \/ t = Idle
    \/ /\ SameCall(t, u)
       /\ \/ /\ u.op = "create" /\ u.phase = "plan" /\ t.phase = "code"
             /\ PlanAccepted(u, u.user, u.draft.type, {})
             /\ t.draft = PlannedRow(u, u.user, u.draft.type, {})
             /\ t.balance = u.balance /\ UNCHANGED <<req, bal>>
          \/ /\ u.op = "create" /\ u.phase = "code" /\ t.phase = "insert"
             /\ SamePlan(t.draft, u.draft) /\ t.draft.type = u.draft.type
             /\ t.balance = u.balance /\ UNCHANGED <<req, bal>>
          \/ /\ u.op = "edit" /\ u.phase = "plan" /\ t.phase = "write"
             /\ PlanAccepted(u, u.seen.owner, u.seen.type, {u.r})
             /\ SamePlan(t.draft, PlannedRow(u, u.seen.owner, u.seen.type, {u.r}))
             /\ t.balance = u.balance /\ UNCHANGED <<req, bal>>
          \/ /\ HrAcquire(w) /\ Acquirable(u.r) /\ u.phase = "acquire" /\ t.phase = "decide"
             /\ t.draft = u.draft /\ t.balance = u.balance
          \/ /\ \/ HrCancelBegin(w)
                \/ Claim(w) /\ Claimable(u)
             /\ u.op \in Deciders /\ RowFree(w, u.r) /\ u.phase = "claim" /\ t.phase = "tx"
             /\ t.balance = BalanceOf(u.seen) /\ t.draft = u.draft
             /\ UNCHANGED <<req, bal>>

\* A row planned has what was planned.
LEMMA PlanFields ==
    ASSUME NEW t, NEW owner, NEW type, NEW except
    PROVE  LET plan == PlannedRow(t, owner, type, except)
               days == PlanDays(t.ask, Occupied(owner, except), EveryDay(owner, type))
           IN  /\ plan.owner = owner /\ plan.type = type /\ plan.ask = t.ask
               /\ plan.days = days /\ plan.reviewer = None /\ plan.sent = {}
               /\ plan.total = RequestHours(t.ask, days, EveryDay(owner, type))
               /\ plan.paid = PaidHours(owner, type, plan.total, except)
BY DEF PlannedRow

\* A step ends its handler or takes it to its next phase.
LEMMA StepResumes ==
    ASSUME TypeInv, NEW w \in Workers, Step(w) \/ Fail(w)
    PROVE  \E t : task' = [task EXCEPT ![w] = t] /\ Resumes(w, t)
<1> DEFINE u == task[w]
           Goes(t) == task' = [task EXCEPT ![w] = t] /\ Resumes(w, t)
<1> SUFFICES \E t : Goes(t)
    OBVIOUS
<1>0. task \in [Workers -> Task] /\ u \in Task
    BY DEF TypeInv, TypeOK
<1>1. CASE Finish(w)
    <2>1. Goes(Idle)
        BY <1>1 DEF Finish, Resumes
    <2> QED BY <2>1
<1>2. CASE CreatePlan(w) /\ ~Finish(w)
    <2> DEFINE row == PlannedRow(u, u.user, u.draft.type, {})
               t == [u EXCEPT !.phase = "code", !.draft = row]
    <2>1. /\ PlanAccepted(u, u.user, u.draft.type, {}) /\ u.op = "create" /\ u.phase = "plan"
          /\ task' = [task EXCEPT ![w] = t]
        BY <1>0, <1>2 DEF CreatePlan
    <2> HIDE DEF row
    <2>2. SameCall(t, u) /\ t.phase = "code" /\ t.draft = row /\ t.balance = u.balance
        BY <1>0 DEF SameCall, Task
    <2> HIDE DEF t
    <2>3. Goes(t)
        BY <1>2, <2>1, <2>2 DEF CreatePlan, Resumes, row
    <2> QED BY <2>3
<1>3. CASE CreateCode(w)
    <2> DEFINE code == <<u.draft.type, NextSeq, ThisYear>>
               t == [u EXCEPT !.phase = "insert", !.draft.code = code]
    <2>1. u.op = "create" /\ u.phase = "code" /\ task' = [task EXCEPT ![w] = t]
        BY <1>0, <1>3 DEF CreateCode
    <2> HIDE DEF code
    <2>2. u.draft \in Row
        BY <1>0 DEF Task
    <2>3. /\ SameCall(t, u) /\ t.phase = "insert"
          /\ SamePlan(t.draft, u.draft) /\ t.draft.type = u.draft.type
          /\ t.balance = u.balance
        BY <1>0, <2>2 DEF SameCall, SamePlan, Task, Row
    <2> HIDE DEF t
    <2>4. Goes(t)
        BY <1>3, <2>1, <2>3 DEF CreateCode, Resumes
    <2> QED BY <2>4
<1>4. CASE EditPlan(w) /\ ~Finish(w)
    <2> DEFINE row == PlannedRow(u, u.seen.owner, u.seen.type, {u.r})
               t == [u EXCEPT !.phase = "write", !.draft = row]
    <2>1. /\ PlanAccepted(u, u.seen.owner, u.seen.type, {u.r})
          /\ u.op = "edit" /\ u.phase = "plan"
          /\ task' = [task EXCEPT ![w] = t]
        BY <1>0, <1>4 DEF EditPlan
    <2> HIDE DEF row
    <2>2. SameCall(t, u) /\ t.phase = "write" /\ t.draft = row /\ t.balance = u.balance
        BY <1>0 DEF SameCall, Task
    <2> HIDE DEF t
    <2>3. SamePlan(t.draft, row)
        BY <2>2 DEF SamePlan
    <2>4. Goes(t)
        BY <1>4, <2>1, <2>2, <2>3 DEF EditPlan, Resumes, row
    <2> QED BY <2>4
<1>5. CASE HrAcquire(w) /\ ~Finish(w)
    <2> DEFINE t == [u EXCEPT !.phase = "decide"]
    <2>1. Acquirable(u.r) /\ u.phase = "acquire" /\ task' = [task EXCEPT ![w] = t]
        BY <1>0, <1>5 DEF HrAcquire
    <2>2. /\ SameCall(t, u) /\ t.phase = "decide" /\ t.draft = u.draft
          /\ t.balance = u.balance
        BY <1>0 DEF SameCall, Task
    <2> HIDE DEF t
    <2>3. Goes(t)
        BY <1>5, <2>1, <2>2 DEF Resumes
    <2> QED BY <2>3
<1>6. CASE (HrCancelBegin(w) \/ Claim(w)) /\ ~Finish(w)
    <2> DEFINE t == [u EXCEPT !.phase = "tx", !.balance = BalanceOf(u.seen)]
    <2>1. /\ HrCancelBegin(w) \/ (Claim(w) /\ Claimable(u))
          /\ UNCHANGED <<req, bal>>
          /\ u.op \in Deciders /\ RowFree(w, u.r) /\ u.phase = "claim"
          /\ task' = [task EXCEPT ![w] = t]
        BY <1>0, <1>6 DEF HrCancelBegin, Claim, Deciders
    <2>2. /\ SameCall(t, u) /\ t.phase = "tx" /\ t.draft = u.draft
          /\ t.balance = BalanceOf(u.seen)
        BY <1>0 DEF SameCall, Task
    <2> HIDE DEF t
    <2>3. Goes(t)
        BY <2>1, <2>2 DEF Resumes
    <2> QED BY <2>3
<1>7. CASE CreateInsert(w) \/ EditWrite(w) \/ CancelWrite(w) \/ ViewAcquire(w) \/ HrDecide(w)
           \/ HrCancelCommit(w) \/ Commit(w) \/ Rollback(w) \/ Fail(w)
    BY <1>1, <1>7 DEF CreateInsert, EditWrite, CancelWrite, ViewAcquire, HrDecide,
                    HrCancelCommit, Commit, Rollback, Fail
<1> HIDE DEF Goes
<1> QED BY <1>1, <1>2, <1>3, <1>4, <1>5, <1>6, <1>7
        DEF Step, EmployeeStep, HrStep, ApproverStep

-----------------------------------------------------------------------------
(* What holds of rows and handlers whatever overlaps. *)

\* What is on file has an owner, a type, a form and some hours.
Filed(row) ==
    /\ row.owner \in Users /\ row.type \in LeaveTypes /\ row.ask \in Asks
    /\ row.total > 0 /\ row.paid >= 0

Drafted(t) == t.draft.ask = t.ask /\ t.draft.total > 0 /\ t.draft.paid >= 0

Awaited(op) == IF op = "manager" THEN "PENDING_SUPERVISOR" ELSE "PENDING_EXECUTIVE"

SaneTask(t) ==
    /\ t.op = "create" =>
          /\ t.ask \in Asks /\ t.draft.type \in LeaveTypes /\ t.draft.reviewer = None
          /\ t.phase # "plan" => Drafted(t) /\ t.draft.owner = t.user /\ t.draft.sent = {}
    /\ t.op = "edit" =>
          /\ t.ask \in Asks \cup {None}
          /\ t.phase = "plan" => t.ask \in Asks
          /\ t.phase # "plan" /\ t.ask # None => Drafted(t)
    /\ t.phase = "tx" => t.op \in Deciders

SaneRow(row) ==
    /\ row.status = "NONE" => row.owner = None /\ row.reviewer = None /\ row.sent = {}
    /\ row.status # "NONE" => Filed(row)

\* An open transaction has its row to itself; an approver's has claimed it.
Locked ==
    /\ \A v, w \in Workers :
          v # w /\ task[v].phase = "tx" /\ task[w].phase = "tx" => task[v].r # task[w].r
    /\ \A w \in Workers :
          task[w].op \in {"manager", "ceo"} /\ task[w].phase = "tx" =>
              req[task[w].r].status = Awaited(task[w].op)

SaneInv ==
    /\ \A r \in Requests : SaneRow(req[r])
    /\ \A w \in Workers : SaneTask(task[w])
    /\ Locked

\* An idle worker knows nothing, and needs to know nothing.
LEMMA IdleSane == SaneTask(Idle) /\ Idle.phase # "tx"
BY DEF SaneTask, Idle

\* A plan that is accepted has some hours, none of them owed.
LEMMA AcceptedPlan ==
    ASSUME NEW t, t.ask \in Ask, NEW owner, NEW type, NEW except,
           PlanAccepted(t, owner, type, except)
    PROVE  /\ PlannedRow(t, owner, type, except).total > 0
           /\ PlannedRow(t, owner, type, except).paid >= 0
<1> DEFINE days == PlanDays(t.ask, Occupied(owner, except), EveryDay(owner, type))
           hours == RequestHours(t.ask, days, EveryDay(owner, type))
<1>1. hours \in Int
    BY HoursType
<1>2. PlannedRow(t, owner, type, except).total = hours
    BY PlanFields
<1>3. PlannedRow(t, owner, type, except).paid = PaidHours(owner, type, hours, except)
    BY PlanFields
<1> HIDE DEF hours
<1>4. hours > 0
    BY <1>2 DEF PlanAccepted
<1>5. \A room : Fitting(hours, room) >= 0
    BY <1>1, <1>4 DEF Fitting
<1>6. PaidHours(owner, type, hours, except) >= 0
    BY <1>1, <1>4, <1>5 DEF PaidHours
<1> QED BY <1>2, <1>3, <1>4, <1>6

\* A handler that starts is sane.
LEMMA StartedSane == ASSUME NEW t, Started(t), Ready(t) PROVE SaneTask(t) /\ t.phase # "tx"
BY DEF Started, Ready, SaneTask, OpNames, RowOps

\* A handler that goes on stays sane.
LEMMA ResumedSane ==
    ASSUME TypeInv, NEW w \in Workers, SaneTask(task[w]), NEW t, Resumes(w, t)
    PROVE  SaneTask(t)
<1> DEFINE u == task[w]
<1>1. CASE t = Idle
    BY <1>1, IdleSane
<1>2. CASE /\ SameCall(t, u) /\ u.op = "create" /\ u.phase = "plan" /\ t.phase = "code"
           /\ PlanAccepted(u, u.user, u.draft.type, {})
           /\ t.draft = PlannedRow(u, u.user, u.draft.type, {})
    <2>1. u.ask \in Ask
        BY <1>2 DEF TypeInv, Ready
    <2>2. t.draft.total > 0 /\ t.draft.paid >= 0
        BY <1>2, <2>1, AcceptedPlan
    <2>3. /\ t.draft.owner = u.user /\ t.draft.type = u.draft.type
          /\ t.draft.ask = u.ask /\ t.draft.reviewer = None /\ t.draft.sent = {}
        BY <1>2, PlanFields
    <2> QED BY <1>2, <2>2, <2>3 DEF SaneTask, SameCall, Drafted
<1>3. CASE /\ SameCall(t, u) /\ u.op = "create" /\ u.phase = "code" /\ t.phase = "insert"
           /\ SamePlan(t.draft, u.draft) /\ t.draft.type = u.draft.type
    BY <1>3 DEF SaneTask, SameCall, SamePlan, Drafted
<1>4. CASE /\ SameCall(t, u) /\ u.op = "edit" /\ u.phase = "plan" /\ t.phase = "write"
           /\ PlanAccepted(u, u.seen.owner, u.seen.type, {u.r})
           /\ SamePlan(t.draft, PlannedRow(u, u.seen.owner, u.seen.type, {u.r}))
    <2> DEFINE row == PlannedRow(u, u.seen.owner, u.seen.type, {u.r})
    <2>1. u.ask \in Ask
        BY <1>4 DEF TypeInv, Ready
    <2>2. row.total > 0 /\ row.paid >= 0
        BY <1>4, <2>1, AcceptedPlan
    <2>3. row.ask = u.ask
        BY PlanFields
    <2> HIDE DEF row
    <2>4. SamePlan(t.draft, row)
        BY <1>4 DEF row
    <2> QED BY <1>4, <2>2, <2>3, <2>4 DEF SaneTask, SameCall, SamePlan, Drafted
<1>5. CASE /\ SameCall(t, u) /\ HrAcquire(w) /\ t.phase = "decide" /\ t.draft = u.draft
    BY <1>5 DEF SaneTask, SameCall, HrAcquire
<1>6. CASE /\ SameCall(t, u) /\ u.op \in Deciders /\ t.phase = "tx"
    BY <1>6 DEF SaneTask, SameCall, Deciders
<1> QED BY <1>1, <1>2, <1>3, <1>4, <1>5, <1>6 DEF Resumes

\* A step leaves a sane row: what is filed has an owner, a type, a form and hours.
LEMMA StepRows ==
    ASSUME TypeInv, DecisionInv, NEW w \in Workers, SaneTask(task[w]),
           NEW r \in Requests, SaneRow(req[r]), Moves(w, r)
    PROVE  SaneRow(req'[r])
<1> DEFINE t == task[w]
<1>0. /\ t \in Task /\ t.draft \in Row /\ req[r] \in Row
    BY DEF TypeInv, TypeOK, Task
<1>1. CASE CreateInsert(w) /\ req'[r] = Inserted(t)
    <2>1. /\ t.op = "create" /\ t.phase = "insert" /\ t.user \in Users
        BY <1>1 DEF CreateInsert, TypeInv, Ready
    <2>2. LET new == Inserted(t) IN
          /\ new.status = "PENDING_VERIFY" /\ new.owner = t.draft.owner
          /\ new.type = t.draft.type /\ new.ask = t.draft.ask
          /\ new.total = t.draft.total /\ new.paid = t.draft.paid
        BY <1>0 DEF Inserted, Row
    <2> QED BY <1>1, <2>1, <2>2 DEF SaneRow, SaneTask, Drafted, Filed
<1>2. CASE EditWrite(w) /\ r = t.r /\ req'[r] = Requeued(t, Rewritten(t, req[r]))
    <2>1. t.op = "edit" /\ t.phase = "write"
        BY <1>2 DEF EditWrite
    <2>2. req[r].status # "NONE"
        BY <1>2, <2>1 DEF DecisionInv, Known, RowOps, OpNames
    <2> DEFINE new == req'[r]
    <2>3. /\ new.owner = req[r].owner
          /\ new.type = IF "type" \in Supplied(t) THEN t.extra.type ELSE req[r].type
          /\ new.status = IF t.seen.status = "REVIEWING_HR" THEN "PENDING_VERIFY"
                          ELSE IF "status" \in Supplied(t) THEN t.extra.status
                          ELSE req[r].status
          /\ t.ask = None =>
                /\ new.ask = req[r].ask /\ new.paid = req[r].paid
                /\ new.total = IF "total" \in Supplied(t) THEN t.extra.total ELSE req[r].total
          /\ t.ask # None => /\ new.ask = t.draft.ask
                             /\ new.total = t.draft.total /\ new.paid = t.draft.paid
        BY <1>0, <1>2, EditedFields
    <2> HIDE DEF new
    <2>4. PICK extra : extra = t.extra
        OBVIOUS
    <2>5. /\ "type" \in Supplied(t) => extra.type \in LeaveTypes
          /\ "status" \in Supplied(t) => extra.status # "NONE"
          /\ "total" \in Supplied(t) => extra.total > 0
        BY <1>0, <2>4, SuppliedType DEF HoursPerHalf
    <2>6. new.status # "NONE"
        BY <2>2, <2>3, <2>4, <2>5
    <2>7. Filed(req[r])
        BY <2>2 DEF SaneRow
    <2>8. Filed(new)
        <3>1. CASE t.ask = None
            BY <2>3, <2>4, <2>5, <2>7, <3>1 DEF Filed
        <3>2. CASE t.ask # None
            BY <2>1, <2>3, <2>4, <2>5, <2>7, <3>2 DEF Filed, SaneTask, Drafted
        <3> QED BY <3>1, <3>2
    <2> QED BY <2>6, <2>8 DEF SaneRow, new
<1>3. ASSUME NEW status, NEW reviewer, r = t.r, Decides(w, status, reviewer),
             Restated(req[r], req'[r], status, reviewer)
      PROVE  SaneRow(req'[r])
    <2>1. t.op \in RowOps
        BY <1>3 DEF Decides, CancelWrite, ViewAcquire, HrAcquire, HrDecide, HrCancelCommit,
                    Commit, RowOps, OpNames
    <2>2. req[r].status # "NONE"
        BY <1>3, <2>1 DEF DecisionInv, Known
    <2>3. status # "NONE"
        BY <1>3 DEF Decides, Verdict, Outcome
    <2> DEFINE new == req'[r]
    <2>4. /\ new.status = status
          /\ new.owner = req[r].owner /\ new.type = req[r].type /\ new.ask = req[r].ask
          /\ new.total = req[r].total /\ new.paid = req[r].paid
        BY <1>0, <1>3, RestatedFields
    <2> HIDE DEF new
    <2>5. SaneRow(new)
        BY <2>2, <2>3, <2>4 DEF SaneRow, Filed
    <2> QED BY <2>5 DEF new
<1> QED BY <1>1, <1>2, <1>3 DEF Moves

\* No other handler touches the row of an open transaction.
LEMMA LockedRow ==
    ASSUME TypeInv, Locked, NEW w \in Workers, SaneTask(task[w]), OneMoves(w),
           NEW v \in Workers \ {w}, task[v].phase = "tx",
           NEW r \in Requests, r = task[v].r, req[r].status # "NONE"
    PROVE  req'[r] = req[r]
<1>1. Moves(w, r)
    BY DEF OneMoves
<1>2. r = task[w].r => ~RowFree(w, task[w].r)
    BY DEF RowFree
<1>3. r = task[w].r => task[w].phase # "tx"
    BY DEF Locked
<1>4. ASSUME NEW status, NEW reviewer, Decides(w, status, reviewer) PROVE r # task[w].r
    BY <1>2, <1>3, <1>4 DEF Decides, CancelWrite, ViewAcquire, HrAcquire, HrDecide,
                            HrCancelCommit, Commit
<1> QED BY <1>1, <1>2, <1>4 DEF Moves, EditWrite

\* Row locks: no two open transactions on a row, and an approver's row is still its own.
LEMMA NextLocked ==
    ASSUME TypeInv, DecisionInv, SaneInv, NEW w \in Workers, Step(w) \/ Fail(w)
    PROVE  Locked'
<1>0. task \in [Workers -> Task]
    BY DEF TypeInv, TypeOK
<1>1. PICK t : task' = [task EXCEPT ![w] = t] /\ Resumes(w, t)
    BY StepResumes
<1>2. task'[w] = t /\ \A v \in Workers \ {w} : task'[v] = task[v]
    BY <1>0, <1>1
<1>3. OneMoves(w)
    BY StepMoves
<1>4. t.phase = "tx" =>
          /\ SameCall(t, task[w]) /\ RowFree(w, t.r) /\ t.op \in Deciders
          /\ UNCHANGED req
          /\ t.op \in {"manager", "ceo"} => req[t.r].status = Awaited(t.op)
    <2>1. Idle.phase # "tx"
        BY IdleSane
    <2>2. HrCancelBegin(w) \/ Claim(w) => UNCHANGED req
        BY DEF HrCancelBegin, Claim
    <2>3. HrCancelBegin(w) => task[w].op = "hr"
        BY DEF HrCancelBegin
    <2> QED BY <1>1, <2>1, <2>2, <2>3 DEF Resumes, SameCall, Claimable, Awaited
<1>5. ASSUME NEW v \in Workers, NEW x \in Workers, v # x,
             task'[v].phase = "tx", task'[x].phase = "tx"
      PROVE  task'[v].r # task'[x].r
    <2>1. CASE v = w
        BY <1>2, <1>4, <1>5, <2>1 DEF RowFree
    <2>2. CASE x = w
        BY <1>2, <1>4, <1>5, <2>2 DEF RowFree
    <2>3. CASE v # w /\ x # w
        BY <1>2, <1>5, <2>3 DEF SaneInv, Locked
    <2> QED BY <2>1, <2>2, <2>3
<1>6. ASSUME NEW v \in Workers, task'[v].op \in {"manager", "ceo"}, task'[v].phase = "tx"
      PROVE  req'[task'[v].r].status = Awaited(task'[v].op)
    <2>1. CASE v = w
        BY <1>2, <1>4, <1>6, <2>1
    <2>2. CASE v # w
        <3>1. /\ task[v].op \in RowOps /\ task[v].r \in Requests
              /\ req[task[v].r].status # "NONE"
              /\ req[task[v].r].status = Awaited(task[v].op)
            BY <1>2, <1>6, <2>2 DEF RowOps, OpNames, TypeInv, Ready, DecisionInv, Known,
                                    SaneInv, Locked
        <3>2. req'[task[v].r] = req[task[v].r]
            BY <1>2, <1>3, <1>6, <2>2, <3>1, LockedRow DEF SaneInv
        <3> QED BY <1>2, <1>6, <2>2, <3>1, <3>2
    <2> QED BY <2>1, <2>2
<1> QED BY <1>5, <1>6 DEF Locked

\* Rows and handlers stay sane, whatever overlaps.
LEMMA NextSane == TypeInv /\ DecisionInv /\ SaneInv /\ [Next]_vars => SaneInv'
<1> SUFFICES ASSUME TypeInv, DecisionInv, SaneInv, [Next]_vars PROVE SaneInv'
    OBVIOUS
<1>0. task \in [Workers -> Task] /\ TypeInv'
    BY NextType DEF TypeInv, TypeOK
<1>1. CASE UNCHANGED vars \/ Midnight
    <2>1. UNCHANGED <<req, task>>
        BY <1>1 DEF vars, Midnight
    <2> QED BY <2>1 DEF SaneInv, Locked
<1>2. ASSUME NEW w \in Workers, Call(w) PROVE SaneInv'
    <2>1. PICK t : task' = [task EXCEPT ![w] = t] /\ UNCHANGED req /\ Started(t)
        BY <1>2, CallStarts
    <2>2. task'[w] = t /\ \A v \in Workers \ {w} : task'[v] = task[v]
        BY <1>0, <2>1
    <2>3. Ready(t)
        BY <1>0, <2>2 DEF TypeInv
    <2>4. SaneTask(t) /\ t.phase # "tx"
        BY <2>1, <2>3, StartedSane
    <2> QED BY <2>1, <2>2, <2>4 DEF SaneInv, Locked
<1>3. ASSUME NEW w \in Workers, Step(w) \/ Fail(w) PROVE SaneInv'
    <2>1. PICK t : task' = [task EXCEPT ![w] = t] /\ Resumes(w, t)
        BY <1>3, StepResumes
    <2>2. task'[w] = t /\ \A v \in Workers \ {w} : task'[v] = task[v]
        BY <1>0, <2>1
    <2>3. SaneTask(t)
        BY <2>1, ResumedSane DEF SaneInv
    <2>4. \A r \in Requests : SaneRow(req'[r])
        BY <1>3, StepMoves, StepRows DEF SaneInv, OneMoves
    <2>5. Locked'
        BY <1>3, NextLocked
    <2> QED BY <2>2, <2>3, <2>4, <2>5 DEF SaneInv
<1> QED BY <1>1, <1>2, <1>3 DEF Next

\* They are sane at the start.
LEMMA InitSane == Init => SaneInv
<1> SUFFICES ASSUME Init PROVE SaneInv
    OBVIOUS
<1>1. \A r \in Requests : SaneRow(req[r])
    BY DEF Init, StoreInit, NoRow, SaneRow
<1>2. \A w \in Workers : SaneTask(task[w]) /\ task[w].phase # "tx"
    BY IdleSane DEF Init, StoreInit
<1> QED BY <1>1, <1>2 DEF SaneInv, Locked

-----------------------------------------------------------------------------
(* What a step leaves alone. *)

\* No leave and no balance of the employee changes, and it is the same day.
LeftAlone(owner) ==
    /\ \A r \in Requests :
          req[r].owner = owner \/ req'[r].owner = owner => req'[r] = req[r]
    /\ \A a \in Accounts : a[1] = owner => bal'[a] = bal[a]
    /\ today' = today

\* A step touches the leave of its own subject only.
LEMMA StepLeavesAlone ==
    ASSUME TypeInv, DecisionInv, SaneInv, NEW w \in Workers, Step(w) \/ Fail(w),
           NEW owner \in Users, owner # Subject(task[w])
    PROVE  LeftAlone(owner)
<1> DEFINE t == task[w]
<1>0. /\ t \in Task /\ t.draft \in Row /\ \A r \in Requests : req[r] \in Row
      /\ bal \in [Accounts -> Balance]
    BY DEF TypeInv, TypeOK, Task
<1>1. None \notin Users
    BY StoreAssumption
<1>2. t.op \in RowOps => t.r \in Requests /\ req[t.r].owner = Subject(t)
    BY DEF TypeInv, Ready, DecisionInv, Known, RowOps, Subject
<1>3. ASSUME NEW r \in Requests, req[r].owner = owner \/ req'[r].owner = owner
      PROVE  req'[r] = req[r]
    <2>1. Moves(w, r) /\ SaneRow(req[r])
        BY StepMoves DEF OneMoves, SaneInv
    <2>2. CASE CreateInsert(w) /\ req[r].status = "NONE" /\ req'[r] = Inserted(t)
        <3>1. t.op = "create" /\ t.phase = "insert"
            BY <2>2 DEF CreateInsert
        <3>2. Inserted(t).owner = Subject(t)
            BY <1>0, <3>1 DEF Inserted, Row, SaneInv, SaneTask, Subject
        <3> QED BY <1>1, <1>3, <2>1, <2>2, <3>2 DEF SaneRow
    <2>3. CASE EditWrite(w) /\ r = t.r /\ req'[r] = Requeued(t, Rewritten(t, req[r]))
        <3>1. t.op \in RowOps
            BY <2>3 DEF EditWrite, RowOps, OpNames
        <3>2. req'[r].owner = req[r].owner
            BY <1>0, <2>3, EditedFields
        <3> QED BY <1>2, <1>3, <2>3, <3>1, <3>2
    <2>4. ASSUME NEW status, NEW reviewer, r = t.r, Decides(w, status, reviewer),
                 Restated(req[r], req'[r], status, reviewer)
          PROVE  FALSE
        <3>1. t.op \in RowOps
            BY <2>4 DEF Decides, CancelWrite, ViewAcquire, HrAcquire, HrDecide, HrCancelCommit,
                        Commit, RowOps, OpNames
        <3>2. req'[r].owner = req[r].owner
            BY <1>0, <2>4, RestatedFields
        <3> QED BY <1>2, <1>3, <2>4, <3>1, <3>2
    <2> QED BY <2>1, <2>2, <2>3, <2>4 DEF Moves
<1>4. \/ UNCHANGED bal
      \/ /\ t.op \in RowOps
         /\ \E row : bal' = [bal EXCEPT ![AccountOf(t.seen)] = row]
    <2>1. CASE HrCancelCommit(w)
        BY <2>1 DEF HrCancelCommit, RowOps, OpNames
    <2>2. CASE Commit(w)
        BY <2>2 DEF Commit, RowOps, OpNames
    <2>3. CASE ~HrCancelCommit(w) /\ ~Commit(w)
        BY <2>3 DEF Step, EmployeeStep, HrStep, ApproverStep, CreatePlan, CreateCode,
                    CreateInsert, EditPlan, EditWrite, CancelWrite, ViewAcquire, HrAcquire,
                    HrDecide, HrCancelBegin, Claim, Rollback, Fail
    <2> QED BY <2>1, <2>2, <2>3
<1>5. ASSUME NEW a \in Accounts, a[1] = owner PROVE bal'[a] = bal[a]
    <2>1. CASE UNCHANGED bal
        BY <2>1
    <2>2. ASSUME t.op \in RowOps, NEW row, bal' = [bal EXCEPT ![AccountOf(t.seen)] = row]
          PROVE  bal'[a] = bal[a]
        <3>1. AccountOf(t.seen)[1] = Subject(t)
            BY <2>2 DEF AccountOf, Subject, RowOps
        <3>2. a # AccountOf(t.seen)
            BY <1>5, <3>1
        <3> QED BY <1>0, <2>2, <3>2
    <2> QED BY <1>4, <2>1, <2>2
<1>6. today' = today
    BY DEF Step, EmployeeStep, HrStep, ApproverStep, CreatePlan, CreateCode,
           CreateInsert, EditPlan, EditWrite, CancelWrite, ViewAcquire, HrAcquire,
           HrDecide, HrCancelBegin, HrCancelCommit, Claim, Commit, Rollback, Fail
<1> QED BY <1>3, <1>5, <1>6 DEF LeftAlone

\* The leaves that reserve the balance, and those that are paid for.
Reserving(owner, type, except) ==
    {r \in OwnedBy(owner) \ except :
        /\ req[r].type = type /\ req[r].status \in PendingStatuses
        /\ StartYear(req[r]) >= ThisYear}

PaidFor(owner, type, except) ==
    {r \in OwnedBy(owner) \ except :
        /\ req[r].type = type /\ req[r].status \in LiveStatuses
        /\ StartYear(req[r]) >= ThisYear}

Totals(S) == TotalsOf(req, S)

Paid(S) == PaidOf(req, S)

\* The model's folds are the sums of SumProofs.
LEMMA TheSums ==
    \A owner, type, except :
        /\ PendingHours(owner, type, except) = Totals(Reserving(owner, type, except))
        /\ PaidUsed(owner, type, except) = Paid(PaidFor(owner, type, except))
BY DEF PendingHours, PaidUsed, TotalsOf, PaidOf, Totals, Paid, Reserving, PaidFor

\* Also in the next state.
LEMMA TheSumsNext ==
    (\A owner, type, except :
        /\ PendingHours(owner, type, except) = Totals(Reserving(owner, type, except))
        /\ PaidUsed(owner, type, except) = Paid(PaidFor(owner, type, except)))'
BY TheSums, PTL

\* They are sums, of the rows as they are and of those a step leaves.
LEMMA RowSums ==
    ASSUME NEW rows
    PROVE  \A S \in SUBSET Requests :
               /\ TotalsOf(rows, S) = Sum([r \in Requests |-> rows[r].total], S)
               /\ PaidOf(rows, S) = Sum([r \in Requests |-> rows[r].paid], S)
<1> SUFFICES ASSUME NEW S \in SUBSET Requests
             PROVE  /\ TotalsOf(rows, S) = Sum([r \in Requests |-> rows[r].total], S)
                    /\ PaidOf(rows, S) = Sum([r \in Requests |-> rows[r].paid], S)
    OBVIOUS
<1> DEFINE f == [r \in Requests |-> rows[r].total]
           g == [r \in Requests |-> rows[r].paid]
<1>1. IsFiniteSet(S)
    BY StoreAssumption, FS_Subset
<1>2. \A r \in S : f[r] = rows[r].total /\ g[r] = rows[r].paid
    OBVIOUS
<1> HIDE DEF f, g
<1>3. TotalsOf(rows, S) = Sum(f, S)
    BY <1>1, <1>2, TotalsAdd
<1>4. PaidOf(rows, S) = Sum(g, S)
    BY <1>1, <1>2, PaidAdd
<1> QED BY <1>3, <1>4 DEF f, g

\* Sums over rows in the next state, as sums of the next values.
LEMMA SumsNext ==
    ASSUME NEW CONSTANT owner, NEW CONSTANT type, NEW CONSTANT except
    PROVE  /\ PendingHours(owner, type, except)' = TotalsOf(req', Reserving(owner, type, except)')
           /\ PaidUsed(owner, type, except)' = PaidOf(req', PaidFor(owner, type, except)')
BY TheSumsNext DEF Totals, Paid

\* What the planner looks up of an employee stays as it was.
LEMMA Frame ==
    ASSUME NEW CONSTANT owner, NEW CONSTANT type, NEW CONSTANT except, LeftAlone(owner)
    PROVE  /\ OwnedBy(owner)' = OwnedBy(owner)
           /\ Occupied(owner, except)' = Occupied(owner, except)
           /\ PendingHours(owner, type, except)' = PendingHours(owner, type, except)
           /\ PaidUsed(owner, type, except)' = PaidUsed(owner, type, except)
<1>1. OwnedBy(owner)' = OwnedBy(owner) /\ \A r \in OwnedBy(owner) : req'[r] = req[r]
    BY DEF LeftAlone, OwnedBy
<1>2. ThisYear' = ThisYear
    BY DEF LeftAlone, ThisYear
<1>3. \A r \in OwnedBy(owner) : StartYear(req'[r]) = StartYear(req[r])
                                /\ SlotsOf(req'[r]) = SlotsOf(req[r])
    BY <1>1
<1>4. OwnedBy(owner) \in SUBSET Requests /\ IsFiniteSet(Requests)
    BY StoreAssumption DEF OwnedBy
<1>5. Occupied(owner, except)' = Occupied(owner, except)
    <2>1. {s \in OwnedBy(owner)' \ except : req'[s].status \in LiveStatuses}
            = {s \in OwnedBy(owner) \ except : req[s].status \in LiveStatuses}
        BY <1>1
    <2>2. Occupied(owner, except)' =
             UNION {SlotsOf(req'[r]) : r \in
                 {s \in OwnedBy(owner)' \ except : req'[s].status \in LiveStatuses}}
        BY DEF Occupied, SlotsOf
    <2> QED BY <1>3, <2>1, <2>2 DEF Occupied
<1> DEFINE S == Reserving(owner, type, except)
           T == PaidFor(owner, type, except)
<1>6. S \in SUBSET OwnedBy(owner) /\ T \in SUBSET OwnedBy(owner)
    BY DEF Reserving, PaidFor
<1>7. S' = S /\ T' = T
    BY <1>1, <1>2, <1>3 DEF Reserving, PaidFor
<1>8. IsFiniteSet(S) /\ IsFiniteSet(T)
    BY <1>4, <1>6, FS_Subset
<1> HIDE DEF S, T
<1>9. /\ PendingHours(owner, type, except) = TotalsOf(req, S)
      /\ PaidUsed(owner, type, except) = PaidOf(req, T)
    BY TheSums DEF S, T, Totals, Paid
<1>10. /\ PendingHours(owner, type, except)' = TotalsOf(req', S)
       /\ PaidUsed(owner, type, except)' = PaidOf(req', T)
    BY <1>7, SumsNext DEF S, T
<1> DEFINE f == [r \in S |-> req[r].total]
           g == [r \in T |-> req[r].paid]
<1>11. /\ \A r \in S : f[r] = req[r].total /\ f[r] = req'[r].total
       /\ \A r \in T : g[r] = req[r].paid /\ g[r] = req'[r].paid
    BY <1>1, <1>6
<1> HIDE DEF f, g
<1>12. TotalsOf(req, S) = Sum(f, S) /\ TotalsOf(req', S) = Sum(f, S)
    BY <1>8, <1>11, TotalsAdd
<1>13. PaidOf(req, T) = Sum(g, T) /\ PaidOf(req', T) = Sum(g, T)
    BY <1>8, <1>11, PaidAdd
<1> QED BY <1>1, <1>5, <1>9, <1>10, <1>12, <1>13

\* So a plan made against it stays the plan.
LEMMA PlanFrame ==
    ASSUME NEW CONSTANT t, NEW CONSTANT owner, NEW CONSTANT type, NEW CONSTANT except,
           LeftAlone(owner)
    PROVE  /\ PlannedRow(t, owner, type, except)' = PlannedRow(t, owner, type, except)
           /\ PlanAccepted(t, owner, type, except)' <=> PlanAccepted(t, owner, type, except)
<1>1. /\ Occupied(owner, except)' = Occupied(owner, except)
      /\ PendingHours(owner, type, except)' = PendingHours(owner, type, except)
      /\ PaidUsed(owner, type, except)' = PaidUsed(owner, type, except)
    BY Frame
<1>2. \A hours : PaidHours(owner, type, hours, except)' = PaidHours(owner, type, hours, except)
    BY <1>1 DEF PaidHours
<1>3. PlannedRow(t, owner, type, except)' = PlannedRow(t, owner, type, except)
    BY <1>1, <1>2 DEF PlannedRow
<1>4. PlanAccepted(t, owner, type, except)' <=> PlanAccepted(t, owner, type, except)
    BY <1>1, <1>3 DEF PlanAccepted
<1> QED BY <1>3, <1>4

-----------------------------------------------------------------------------
(* What an exclusive handler has read stays true until it ends. *)

\* Its request is as it was read, but for HR's own lock on it.
FreshRow(t) ==
    /\ t.op \in RowOps \ {"hr"} => req[t.r] = t.seen
    /\ t.op = "edit" => t.seen.status \in {"PENDING_VERIFY", "REVIEWING_HR"}
    /\ t.op = "hr" =>
          /\ Content(req[t.r]) = Content(t.seen)
          /\ \/ /\ t.phase = "acquire"
                /\ req[t.r].status = "PENDING_VERIFY" /\ t.seen.status = "PENDING_VERIFY"
             \/ /\ t.phase = "decide" /\ req[t.r].status = "REVIEWING_HR"
                /\ t.seen.status \in {"PENDING_VERIFY", "REVIEWING_HR"}
             \/ /\ t.phase \in {"claim", "tx"} /\ req[t.r].status = "PENDING_CANCELLATION"
                /\ t.seen.status = "PENDING_CANCELLATION"
                /\ t.action = "Approve" => NotBegun(t.seen)

\* Its plan would be made again the same.
FreshPlan(t) ==
    /\ t.op = "create" /\ t.phase # "plan" =>
          /\ PlanAccepted(t, t.user, t.draft.type, {})
          /\ SamePlan(t.draft, PlannedRow(t, t.user, t.draft.type, {}))
    /\ t.op = "edit" /\ t.phase # "plan" /\ t.ask # None =>
          /\ PlanAccepted(t, t.seen.owner, t.seen.type, {t.r})
          /\ SamePlan(t.draft, PlannedRow(t, t.seen.owner, t.seen.type, {t.r}))

\* Its balance is the balance.
FreshBalance(t) ==
    /\ t.op = "create" =>
          /\ <<t.user, t.draft.type, ThisYear>> \in Accounts
          /\ t.balance = bal[<<t.user, t.draft.type, ThisYear>>]
    /\ t.op = "edit" /\ t.ask # None =>
          /\ <<t.seen.owner, t.seen.type, ThisYear>> \in Accounts
          /\ t.balance = bal[<<t.seen.owner, t.seen.type, ThisYear>>]
    /\ t.phase = "tx" => t.balance = BalanceOf(t.seen)

Fresh(t) == FreshRow(t) /\ FreshPlan(t) /\ FreshBalance(t)

FreshInv == \A w \in Workers, t \in Task : t = task[w] /\ t.op \in Exclusive => Fresh(t)

\* Planning does not depend on how far the handler has got.
LEMMA SamePlanner ==
    ASSUME NEW t, NEW u, t.ask = u.ask, t.balance = u.balance,
           NEW owner, NEW type, NEW except
    PROVE  /\ PlannedRow(t, owner, type, except) = PlannedRow(u, owner, type, except)
           /\ PlanAccepted(t, owner, type, except) <=> PlanAccepted(u, owner, type, except)
<1>1. PlannedRow(t, owner, type, except) = PlannedRow(u, owner, type, except)
    BY DEF PlannedRow
<1> QED BY <1>1 DEF PlanAccepted

\* A handler's knowledge survives a step that leaves its owner's leave alone.
LEMMA FreshFrame ==
    ASSUME NEW CONSTANT t, Fresh(t), LeftAlone(Subject(t)),
           t.op \in RowOps => t.r \in Requests /\ req[t.r].owner = Subject(t),
           t.phase = "tx" => t.op \in Deciders
    PROVE  Fresh(t)'
<1>1. t.op \in RowOps => req'[t.r] = req[t.r]
    BY DEF LeftAlone
<1>2. today' = today
    BY DEF LeftAlone
<1>3. FreshRow(t)'
    BY <1>1, <1>2 DEF Fresh, FreshRow, NotBegun, RowOps, OpNames, Content
<1>4. FreshPlan(t)'
    <2>1. CASE t.op = "create"
        <3>1. LeftAlone(t.user)
            BY <2>1 DEF Subject
        <3>2. /\ PlannedRow(t, t.user, t.draft.type, {})' = PlannedRow(t, t.user, t.draft.type, {})
              /\ PlanAccepted(t, t.user, t.draft.type, {})' <=>
                   PlanAccepted(t, t.user, t.draft.type, {})
            BY <3>1, PlanFrame
        <3> QED BY <2>1, <3>2 DEF Fresh, FreshPlan, SamePlan
    <2>2. CASE t.op # "create"
        <3>1. LeftAlone(t.seen.owner)
            BY <2>2 DEF Subject
        <3>2. /\ PlannedRow(t, t.seen.owner, t.seen.type, {t.r})' =
                   PlannedRow(t, t.seen.owner, t.seen.type, {t.r})
              /\ PlanAccepted(t, t.seen.owner, t.seen.type, {t.r})' <=>
                   PlanAccepted(t, t.seen.owner, t.seen.type, {t.r})
            BY <3>1, PlanFrame
        <3> QED BY <2>2, <3>2 DEF Fresh, FreshPlan, SamePlan
    <2> QED BY <2>1, <2>2
<1>5. FreshBalance(t)'
    <2>1. ThisYear' = ThisYear
        BY <1>2 DEF ThisYear
    <2>2. \A a \in Accounts : a[1] = Subject(t) => bal'[a] = bal[a]
        BY DEF LeftAlone
    <2>3. CASE t.op = "create"
        BY <2>1, <2>2, <2>3 DEF Fresh, FreshBalance, Subject, Deciders
    <2>4. CASE t.op = "edit"
        BY <2>1, <2>2, <2>4 DEF Fresh, FreshBalance, Subject, Deciders
    <2>5. CASE t.op \notin {"create", "edit"}
        <3>1. BalanceOf(t.seen)' = BalanceOf(t.seen)
            BY <2>2, <2>5 DEF BalanceOf, AccountOf, Subject
        <3> QED BY <2>5, <3>1 DEF Fresh, FreshBalance
    <2> QED BY <2>3, <2>4, <2>5
<1> QED BY <1>3, <1>4, <1>5 DEF Fresh

\* A handler that starts knows what is there.
LEMMA StartedFresh ==
    ASSUME NEW t, Started(t), Ready(t)
    PROVE  Fresh(t)
<1>1. FreshRow(t)
    <2>1. CASE t.op = "hr"
        BY <2>1 DEF Started, FreshRow, RowOps, OpNames
    <2>2. CASE t.op # "hr"
        BY <2>2 DEF Started, FreshRow, RowOps, OpNames
    <2> QED BY <2>1, <2>2
<1>2. FreshPlan(t)
    BY DEF Started, FreshPlan
<1>3. FreshBalance(t)
    <2>1. t.phase # "tx"
        BY DEF Started, OpNames
    <2> QED BY <2>1 DEF Started, FreshBalance
<1> QED BY <1>1, <1>2, <1>3 DEF Fresh

\* A handler that goes on still does, by its own step.
LEMMA ResumedFresh ==
    ASSUME TypeInv, DecisionInv, SaneInv, NEW w \in Workers, Fresh(task[w]),
           NEW CONSTANT t, Resumes(w, t), today' = today, t # Idle
    PROVE  Fresh(t)'
<1> DEFINE u == task[w]
<1>0. /\ SameCall(t, u) /\ Subject(t) = Subject(u)
      /\ t.op \in RowOps => t.r \in Requests /\ req[t.r].owner = Subject(t)
    BY DEF Resumes, SameCall, Subject, TypeInv, Ready, DecisionInv, Known, RowOps
<1>1. ASSUME Fresh(t), UNCHANGED <<req, bal>>, t.phase = "tx" => t.op \in Deciders
      PROVE  Fresh(t)'
    <2>1. LeftAlone(Subject(t))
        BY <1>1 DEF LeftAlone
    <2> QED BY <1>0, <1>1, <2>1, FreshFrame
<1>2. CASE /\ u.op = "create" /\ u.phase = "plan" /\ t.phase = "code"
           /\ PlanAccepted(u, u.user, u.draft.type, {})
           /\ t.draft = PlannedRow(u, u.user, u.draft.type, {})
           /\ t.balance = u.balance /\ UNCHANGED <<req, bal>>
    <2>1. t.ask = u.ask /\ t.op = "create" /\ t.user = u.user
        BY <1>0, <1>2 DEF SameCall
    <2>2. t.draft.type = u.draft.type
        BY <1>2, PlanFields
    <2>3. /\ PlanAccepted(t, t.user, t.draft.type, {})
          /\ t.draft = PlannedRow(t, t.user, t.draft.type, {})
        BY <1>2, <2>1, <2>2, SamePlanner
    <2>4. FreshPlan(t)
        BY <2>1, <2>3 DEF FreshPlan, SamePlan
    <2>5. FreshRow(t) /\ FreshBalance(t)
        BY <1>2, <2>1, <2>2 DEF FreshRow, Fresh, FreshBalance, RowOps
    <2> QED BY <1>1, <1>2, <2>4, <2>5 DEF Fresh
<1>3. CASE /\ u.op = "create" /\ u.phase = "code" /\ t.phase = "insert"
           /\ SamePlan(t.draft, u.draft) /\ t.draft.type = u.draft.type
           /\ t.balance = u.balance /\ UNCHANGED <<req, bal>>
    <2>1. t.ask = u.ask /\ t.op = "create" /\ t.user = u.user
        BY <1>0, <1>3 DEF SameCall
    <2>2. /\ PlanAccepted(u, u.user, u.draft.type, {})
          /\ SamePlan(u.draft, PlannedRow(u, u.user, u.draft.type, {}))
        BY <1>3 DEF Fresh, FreshPlan
    <2>3. /\ PlanAccepted(t, t.user, t.draft.type, {})
          /\ PlannedRow(u, u.user, u.draft.type, {}) = PlannedRow(t, t.user, t.draft.type, {})
        BY <1>3, <2>1, <2>2, SamePlanner
    <2>4. SamePlan(t.draft, PlannedRow(t, t.user, t.draft.type, {}))
        BY <1>3, <2>2, <2>3 DEF SamePlan
    <2>5. FreshPlan(t)
        BY <2>1, <2>3, <2>4 DEF FreshPlan
    <2>6. FreshRow(t) /\ FreshBalance(t)
        BY <1>3, <2>1 DEF FreshRow, Fresh, FreshBalance, RowOps
    <2> QED BY <1>1, <1>3, <2>5, <2>6 DEF Fresh
<1>4. CASE /\ u.op = "edit" /\ u.phase = "plan" /\ t.phase = "write"
           /\ PlanAccepted(u, u.seen.owner, u.seen.type, {u.r})
           /\ SamePlan(t.draft, PlannedRow(u, u.seen.owner, u.seen.type, {u.r}))
           /\ t.balance = u.balance /\ UNCHANGED <<req, bal>>
    <2>1. t.ask = u.ask /\ t.op = "edit" /\ t.seen = u.seen /\ t.r = u.r
        BY <1>0, <1>4 DEF SameCall
    <2>2. /\ PlanAccepted(t, t.seen.owner, t.seen.type, {t.r})
          /\ SamePlan(t.draft, PlannedRow(t, t.seen.owner, t.seen.type, {t.r}))
        BY <1>4, <2>1, SamePlanner
    <2>3. FreshPlan(t)
        BY <2>1, <2>2 DEF FreshPlan
    <2>4. FreshRow(t) /\ FreshBalance(t)
        BY <1>4, <2>1 DEF FreshRow, Fresh, FreshBalance
    <2> QED BY <1>1, <1>4, <2>3, <2>4 DEF Fresh
<1>5. CASE /\ HrAcquire(w) /\ Acquirable(u.r) /\ u.phase = "acquire" /\ t.phase = "decide"
    <2>1. u.op = "hr" /\ t.op = "hr" /\ t.r = u.r /\ t.seen = u.seen
        BY <1>0, <1>5 DEF HrAcquire, SameCall
    <2>2. u.r \in Requests /\ req[u.r] \in Row /\ req \in [Requests -> Row]
        BY <2>1 DEF TypeInv, TypeOK, Ready, RowOps, OpNames
    <2>3. req'[u.r] = [req[u.r] EXCEPT !.status = "REVIEWING_HR", !.reviewer = u.user]
        BY <1>5, <2>2 DEF HrAcquire, Acquired
    <2>4. req'[u.r].status = "REVIEWING_HR" /\ Content(req'[u.r]) = Content(req[u.r])
        BY <2>2, <2>3 DEF Row, Content
    <2>5. FreshRow(t)'
        BY <1>5, <2>1, <2>4 DEF Fresh, FreshRow, Content
    <2>6. FreshPlan(t)' /\ FreshBalance(t)'
        BY <1>5, <2>1 DEF FreshPlan, FreshBalance
    <2> QED BY <2>5, <2>6 DEF Fresh
<1>6. CASE /\ u.op \in Deciders /\ u.phase = "claim" /\ t.phase = "tx"
           /\ t.balance = BalanceOf(u.seen) /\ UNCHANGED <<req, bal>>
    <2>1. t.op = u.op /\ t.r = u.r /\ t.seen = u.seen /\ t.action = u.action
        BY <1>0 DEF SameCall
    <2>2. FreshRow(t)
        BY <1>6, <2>1 DEF Fresh, FreshRow, Deciders
    <2>3. FreshPlan(t) /\ FreshBalance(t)
        BY <1>6, <2>1 DEF FreshPlan, FreshBalance, Deciders
    <2> QED BY <1>1, <1>6, <2>1, <2>2, <2>3 DEF Fresh
<1> QED BY <1>2, <1>3, <1>4, <1>5, <1>6 DEF Resumes

\* Nothing changes behind the back of an exclusive handler.
LEMMA NextFresh ==
    TypeInv /\ DecisionInv /\ SaneInv /\ Apart /\ FreshInv /\ [Next]_vars => FreshInv'
<1> SUFFICES ASSUME TypeInv, DecisionInv, SaneInv, Apart, FreshInv, [Next]_vars,
                    NEW v \in Workers, NEW t \in Task, t = task'[v], t.op \in Exclusive
             PROVE  Fresh(t)'
    BY DEF FreshInv
<1>0. task \in [Workers -> Task] /\ TypeInv'
    BY NextType DEF TypeInv, TypeOK
<1>10. \A w \in Workers :
          /\ task[w].op \in RowOps => /\ task[w].r \in Requests
                                      /\ req[task[w].r].owner = Subject(task[w])
          /\ task[w].phase = "tx" => task[w].op \in Deciders
    BY DEF TypeInv, Ready, DecisionInv, Known, Subject, RowOps, SaneInv, SaneTask
<1>11. "idle" \notin Exclusive
    BY StoreAssumption DEF OpNames
\* Whoever is not disturbed keeps what is known.
<1>12. ASSUME task'[v] = task[v], LeftAlone(Subject(t))
       PROVE  Fresh(t)'
    <2>1. Fresh(t)
        BY <1>12 DEF FreshInv
    <2>2. /\ t.op \in RowOps => t.r \in Requests /\ req[t.r].owner = Subject(t)
          /\ t.phase = "tx" => t.op \in Deciders
        BY <1>10, <1>12
    <2> QED BY <1>12, <2>1, <2>2, FreshFrame
<1>1. CASE UNCHANGED vars
    <2>1. UNCHANGED <<req, bal, today, task>>
        BY <1>1 DEF vars
    <2>2. LeftAlone(Subject(t))
        BY <2>1 DEF LeftAlone
    <2> QED BY <1>12, <2>1, <2>2
<1>2. CASE Midnight
    BY <1>2, <1>11, StoreAssumption DEF Midnight, Busy
<1>3. ASSUME NEW w \in Workers, Call(w) PROVE Fresh(t)'
    <2>1. PICK u : /\ task' = [task EXCEPT ![w] = u] /\ UNCHANGED <<req, bal, log, today>>
                   /\ Started(u)
        BY <1>3, CallStarts
    <2>2. task'[w] = u /\ \A x \in Workers \ {w} : task'[x] = task[x]
        BY <1>0, <2>1
    <2>3. \A owner : LeftAlone(owner)
        BY <2>1 DEF LeftAlone
    <2>4. CASE v = w
        <3>1. t = u /\ Ready(t)
            BY <1>0, <2>2, <2>4 DEF TypeInv
        <3>2. Fresh(t) /\ t.phase # "tx"
            BY <2>1, <3>1, StartedFresh, StartedSane
        <3>3. t.op \in RowOps => t.r \in Requests /\ req[t.r].owner = Subject(t)
            BY <2>1, <3>1 DEF Started, Subject, RowOps
        <3> QED BY <2>3, <3>2, <3>3, FreshFrame
    <2>5. CASE v # w
        BY <1>12, <2>2, <2>3, <2>5
    <2> QED BY <2>4, <2>5
<1>4. ASSUME NEW w \in Workers, Step(w) \/ Fail(w) PROVE Fresh(t)'
    <2>1. PICK u : task' = [task EXCEPT ![w] = u] /\ Resumes(w, u)
        BY <1>4, StepResumes
    <2>2. task'[w] = u /\ \A x \in Workers \ {w} : task'[x] = task[x]
        BY <1>0, <2>1
    <2>3. today' = today
        BY <1>4 DEF Fail, Step, EmployeeStep, HrStep, ApproverStep, CreatePlan, CreateCode,
               CreateInsert, EditPlan, EditWrite, CancelWrite, ViewAcquire, HrAcquire,
               HrDecide, HrCancelBegin, HrCancelCommit, Claim, Commit, Rollback
    <2>4. Busy(w)
        BY <1>4 DEF Busy, Fail, Step, EmployeeStep, HrStep, ApproverStep, CreatePlan, CreateCode,
               CreateInsert, EditPlan, EditWrite, CancelWrite, ViewAcquire, HrAcquire,
               HrDecide, HrCancelBegin, HrCancelCommit, Claim, Commit, Rollback
    <2>5. CASE v = w
        <3>1. t = u /\ t # Idle
            BY <1>11, <2>2, <2>5 DEF Idle
        <3>2. Fresh(task[w])
            BY <1>0, <2>1, <2>5, <3>1 DEF Resumes, SameCall, FreshInv
        <3> QED BY <2>1, <2>3, <3>1, <3>2, ResumedFresh
    <2>6. CASE v # w
        <3>1. Busy(v) /\ Subject(task[v]) # Subject(task[w]) /\ t = task[v]
            BY <1>11, <2>2, <2>4, <2>6 DEF Busy, Apart
        <3>2. Subject(task[v]) \in Users
            <4>1. task[v].op \in OpNames /\ task[v].user \in Users
                BY <2>6, <3>1, StoreAssumption DEF TypeInv, Ready, Busy
            <4>2. CASE task[v].op = "create"
                BY <4>1, <4>2 DEF Subject
            <4>3. CASE task[v].op # "create"
                <5>1. task[v].op \in RowOps
                    BY <4>1, <4>3 DEF RowOps
                <5>2. req[task[v].r].status # "NONE" /\ SaneRow(req[task[v].r])
                    BY <1>10, <5>1 DEF DecisionInv, Known, SaneInv
                <5> QED BY <1>10, <5>1, <5>2 DEF SaneRow, Filed
            <4> QED BY <4>2, <4>3
        <3>3. LeftAlone(Subject(task[v]))
            BY <1>4, <3>1, <3>2, StepLeavesAlone
        <3> QED BY <1>12, <2>2, <2>6, <3>1, <3>3
    <2> QED BY <2>5, <2>6
<1> QED BY <1>1, <1>2, <1>3, <1>4 DEF Next

\* No handler is in flight at the start.
LEMMA InitFresh == Init => Apart /\ FreshInv
BY StoreAssumption DEF Init, StoreInit, Apart, FreshInv, Busy, Idle, OpNames

\* All that holds without any condition on which operations are exclusive.
BaseInv == TypeInv /\ DecisionInv /\ SaneInv /\ Apart /\ FreshInv

\* The base invariant holds at the start.
LEMMA InitBase == Init => BaseInv
BY InitType, InitDecision, InitSane, InitFresh DEF BaseInv

\* Every step keeps it.
LEMMA NextBase == BaseInv /\ [Next]_vars => BaseInv'
BY NextType, NextDecision, NextSane, NextApart, NextFresh DEF BaseInv

\* What an exclusive handler has read is so now.
LEMMA FreshNow ==
    ASSUME BaseInv, NEW w \in Workers, task[w].op \in Exclusive
    PROVE  FreshRow(task[w]) /\ FreshPlan(task[w]) /\ FreshBalance(task[w])
<1>1. task[w] \in Task
    BY DEF BaseInv, TypeInv, TypeOK
<1> QED BY <1>1 DEF BaseInv, FreshInv, Fresh

\* A request keeps its owner, and what a form wrote in it stays written.
LEMMA MovesKeep ==
    ASSUME BaseInv, NEW w \in Workers, NEW r \in Requests, Moves(w, r), req[r].status # "NONE"
    PROVE  req'[r].owner = req[r].owner /\ req[r].sent \subseteq req'[r].sent
<1> DEFINE t == task[w]
<1>0. t \in Task /\ req[r] \in Row
    BY DEF BaseInv, TypeInv, TypeOK
<1>1. CASE req'[r] = Requeued(t, Rewritten(t, req[r]))
    <2>1. PICK new : new = Requeued(t, Rewritten(t, req[r]))
        OBVIOUS
    <2>2. new.owner = req[r].owner /\ new.sent = req[r].sent \cup Supplied(t)
        BY <1>0, <2>1, EditedFields
    <2> QED BY <1>1, <2>1, <2>2
<1>2. ASSUME NEW status, NEW reviewer, Restated(req[r], req'[r], status, reviewer)
      PROVE  req'[r].owner = req[r].owner /\ req'[r].sent = req[r].sent
    BY <1>0, <1>2, RestatedFields
<1> QED BY <1>1, <1>2 DEF Moves

\* So an employee whose requests have not been written that way yet, was not before.
LEMMA TouchedStays ==
    ASSUME BaseInv, NEW w \in Workers, OneMoves(w),
           NEW CONSTANT user \in Users, NEW CONSTANT columns, NoneTouched(user, columns)'
    PROVE  NoneTouched(user, columns)
<1> SUFFICES ASSUME NEW r \in Requests, req[r].owner = user PROVE req[r].sent \cap columns = {}
    BY DEF NoneTouched, Untouched, OwnedBy
<1>1. req[r].status # "NONE"
    BY StoreAssumption DEF BaseInv, SaneInv, SaneRow
<1>2. req'[r].owner = user /\ req[r].sent \subseteq req'[r].sent
    BY <1>1, MovesKeep DEF OneMoves
<1>3. req'[r].sent \cap columns = {}
    BY <1>2 DEF NoneTouched, Untouched, OwnedBy
<1> QED BY <1>2, <1>3

-----------------------------------------------------------------------------
(* Edits and HR's decisions are kept apart from the rest. *)

EditHr == {"edit", "hr"} \subseteq Exclusive

\* A cancellation that is being filed is of a granted leave.
CancelKnows ==
    \A w \in Workers : task[w].op = "cancel" =>
        req[task[w].r].status \in {"APPROVED", "PENDING_CANCELLATION"}

LockInv == BaseInv /\ CancelKnows /\ LockDiscipline

\* The changes a request goes through when nothing is decided on a stale read.
Advances(old, new) ==
    \/ new = old
    \/ old.status = "NONE" /\ new.status = "PENDING_VERIFY" /\ new.reviewer = None
    \/ /\ old.status \in {"PENDING_VERIFY", "REVIEWING_HR"} /\ new.status = "PENDING_VERIFY"
       /\ new.reviewer = IF old.status = "REVIEWING_HR" THEN None ELSE old.reviewer
    \/ /\ old.status = "PENDING_VERIFY" /\ new.reviewer = old.reviewer
       /\ new.status \in Statuses \ {"NONE"} /\ "status" \in new.sent
    \/ /\ Content(new) = Content(old)
       /\ \/ /\ old.status \in {"APPROVED", "PENDING_CANCELLATION"}
             /\ new.status = "PENDING_CANCELLATION" /\ new.reviewer = old.reviewer
          \/ /\ old.status = "PENDING_VERIFY"
             /\ new.status = "REVIEWING_HR" /\ new.reviewer # None
          \/ /\ old.status = "REVIEWING_HR" /\ new.reviewer = None
             /\ new.status \in {"REJECTED", "PENDING_SUPERVISOR", "PENDING_EXECUTIVE"}
          \/ /\ old.status = "PENDING_CANCELLATION" /\ new.reviewer = old.reviewer
             /\ \/ new.status = "APPROVED"
                \/ new.status = "CANCELLED" /\ old.ask.first > today
          \/ /\ old.status \in {"PENDING_SUPERVISOR", "PENDING_EXECUTIVE"}
             /\ new.status \in {"REJECTED", "PENDING_EXECUTIVE", "APPROVED"}
             /\ new.reviewer = old.reviewer

\* A step advances each request, or leaves it.
LEMMA StepAdvances ==
    ASSUME EditHr, BaseInv, CancelKnows, NEW w \in Workers, Step(w) \/ Fail(w),
           NEW r \in Requests
    PROVE  Advances(req[r], req'[r])
<1> DEFINE t == task[w]
           old == req[r]
           new == req'[r]
<1>0. /\ t \in Task /\ t.draft \in Row /\ old \in Row
      /\ Moves(w, r)
    BY StepMoves DEF BaseInv, TypeInv, TypeOK, Task, OneMoves
<1>1. None \notin Users
    BY StoreAssumption
<1>2. CASE CreateInsert(w) /\ old.status = "NONE" /\ new = Inserted(t)
    <2>1. t.op = "create" /\ SaneTask(t)
        BY <1>2 DEF CreateInsert, BaseInv, SaneInv
    <2>2. new.status = "PENDING_VERIFY" /\ new.reviewer = t.draft.reviewer
        BY <1>0, <1>2 DEF Inserted, Row
    <2> QED BY <1>2, <2>1, <2>2 DEF Advances, SaneTask
<1>3. CASE EditWrite(w) /\ r = t.r /\ new = Requeued(t, Rewritten(t, old))
    <2>1. t.op = "edit" /\ t.op \in Exclusive /\ t.op \in RowOps \ {"hr"}
        BY <1>3 DEF EditWrite, EditHr, RowOps, OpNames
    <2>2. old = t.seen /\ t.seen.status \in {"PENDING_VERIFY", "REVIEWING_HR"}
        BY <1>3, <2>1, FreshNow DEF FreshRow
    <2>3. /\ new.status = IF t.seen.status = "REVIEWING_HR" THEN "PENDING_VERIFY"
                          ELSE IF "status" \in Supplied(t) THEN t.extra.status ELSE old.status
          /\ new.reviewer = IF t.seen.status = "REVIEWING_HR" THEN None ELSE old.reviewer
          /\ new.sent = old.sent \cup Supplied(t)
        BY <1>0, <1>3, EditedFields
    <2>4. "status" \in Supplied(t) => t.extra.status \in Statuses \ {"NONE"}
        BY <1>0, SuppliedType
    <2> HIDE DEF new, old
    <2>5. Advances(old, new)
        BY <2>2, <2>3, <2>4 DEF Advances
    <2> QED BY <2>5 DEF new, old
<1>4. ASSUME NEW status, NEW reviewer, r = t.r, Decides(w, status, reviewer),
             Restated(old, new, status, reviewer)
      PROVE  Advances(old, new)
    <2>1. /\ new.status = status /\ new.reviewer = reviewer
          /\ new.type = old.type /\ new.ask = old.ask
          /\ new.days = old.days /\ new.total = old.total /\ new.paid = old.paid
        BY <1>0, <1>4, RestatedFields
    <2>2. Content(new) = Content(old)
        BY <2>1 DEF Content
    <2> HIDE DEF new
    <2>3. CASE CancelWrite(w) /\ status = "PENDING_CANCELLATION" /\ reviewer = old.reviewer
        <3>1. old.status \in {"APPROVED", "PENDING_CANCELLATION"}
            BY <1>4, <2>3 DEF CancelWrite, CancelKnows
        <3> QED BY <2>1, <2>2, <2>3, <3>1 DEF Advances
    <2>4. CASE /\ ViewAcquire(w) \/ HrAcquire(w)
               /\ Acquirable(t.r) /\ status = "REVIEWING_HR" /\ reviewer = t.user
        <3>1. t.user \in Users /\ old.status = "PENDING_VERIFY"
            BY <1>4, <2>4 DEF ViewAcquire, HrAcquire, Acquirable, BaseInv, TypeInv, Ready
        <3> QED BY <1>1, <2>1, <2>2, <2>4, <3>1 DEF Advances
    <2>5. CASE HrDecide(w) /\ status = Verdict(t) /\ reviewer = None
        <3>1. t.op = "hr" /\ t.phase = "decide" /\ t.op \in Exclusive
            BY <2>5 DEF HrDecide, EditHr
        <3>2. old.status = "REVIEWING_HR"
            BY <1>4, <3>1, FreshNow DEF FreshRow
        <3>3. Verdict(t) \in {"REJECTED", "PENDING_SUPERVISOR", "PENDING_EXECUTIVE"}
            BY DEF Verdict
        <3> QED BY <2>1, <2>2, <2>5, <3>2, <3>3 DEF Advances
    <2>6. CASE /\ HrCancelCommit(w) /\ reviewer = old.reviewer
               /\ status = IF t.action = "Approve" THEN "CANCELLED" ELSE "APPROVED"
        <3>1. t.op = "hr" /\ t.phase = "tx" /\ t.op \in Exclusive
            BY <2>6 DEF HrCancelCommit, EditHr
        <3>2. /\ old.status = "PENDING_CANCELLATION" /\ Content(old) = Content(t.seen)
              /\ t.action = "Approve" => NotBegun(t.seen)
            BY <1>4, <3>1, FreshNow DEF FreshRow
        <3>3. old.ask = t.seen.ask
            BY <3>2 DEF Content
        <3> QED BY <2>1, <2>2, <2>6, <3>2, <3>3 DEF Advances, NotBegun
    <2>7. CASE Commit(w) /\ status = Outcome(t) /\ reviewer = old.reviewer
        <3>1. old.status \in {"PENDING_SUPERVISOR", "PENDING_EXECUTIVE"}
            BY <1>4, <2>7 DEF Commit, BaseInv, SaneInv, Locked, Awaited
        <3>2. Outcome(t) \in {"REJECTED", "PENDING_EXECUTIVE", "APPROVED"}
            BY DEF Outcome
        <3> QED BY <2>1, <2>2, <2>7, <3>1, <3>2 DEF Advances
    <2> QED BY <1>4, <2>3, <2>4, <2>5, <2>6, <2>7 DEF Decides
<1>5. CASE new = old
    BY <1>5 DEF Advances
<1> QED BY <1>0, <1>2, <1>3, <1>4, <1>5 DEF Moves

\* The review lock, and what cancellations in flight know, are kept.
LEMMA NextLock == EditHr => (LockInv /\ [Next]_vars => LockInv')
<1> SUFFICES ASSUME EditHr, LockInv, [Next]_vars PROVE LockInv'
    OBVIOUS
<1>0. BaseInv' /\ task \in [Workers -> Task]
    BY NextBase DEF LockInv, BaseInv, TypeInv, TypeOK
<1>1. CASE UNCHANGED vars \/ Midnight
    <2>1. UNCHANGED <<req, task>>
        BY <1>1 DEF vars, Midnight
    <2> QED BY <1>0, <2>1 DEF LockInv, CancelKnows, LockDiscipline, Untouched
<1>2. ASSUME NEW w \in Workers, Call(w) PROVE LockInv'
    <2>1. PICK t : task' = [task EXCEPT ![w] = t] /\ UNCHANGED req /\ Started(t)
        BY <1>2, CallStarts DEF LockInv, BaseInv
    <2>2. task'[w] = t /\ \A v \in Workers \ {w} : task'[v] = task[v]
        BY <1>0, <2>1
    <2>3. t.op = "cancel" => req[t.r].status = "APPROVED"
        BY <2>1 DEF Started, RowOps, OpNames
    <2> QED BY <1>0, <2>1, <2>2, <2>3 DEF LockInv, CancelKnows, LockDiscipline, Untouched
<1>3. ASSUME NEW w \in Workers, Step(w) \/ Fail(w) PROVE LockInv'
    <2>1. \A r \in Requests : Advances(req[r], req'[r])
        BY <1>3, StepAdvances DEF LockInv
    <2>2. LockDiscipline'
        <3> SUFFICES ASSUME NEW r \in Requests
                     PROVE  /\ req'[r].reviewer # None => req'[r].status = "REVIEWING_HR"
                            /\ req'[r].status = "REVIEWING_HR" /\ "status" \notin req'[r].sent
                                   => req'[r].reviewer # None
            BY DEF LockDiscipline, Untouched
        <3>1. /\ req[r].reviewer # None => req[r].status = "REVIEWING_HR"
              /\ req[r].status = "REVIEWING_HR" /\ "status" \notin req[r].sent
                     => req[r].reviewer # None
            BY DEF LockInv, LockDiscipline, Untouched
        <3> QED BY <2>1, <3>1 DEF Advances
    <2>3. PICK t : task' = [task EXCEPT ![w] = t] /\ Resumes(w, t)
        BY <1>3, StepResumes DEF LockInv, BaseInv
    <2>4. task'[w] = t /\ \A v \in Workers \ {w} : task'[v] = task[v]
        BY <1>0, <2>3
    <2>5. t.op # "cancel"
        BY <2>3 DEF Resumes, SameCall, Idle, HrAcquire, Deciders
    <2>6. ASSUME NEW v \in Workers, task'[v].op = "cancel"
          PROVE  req'[task'[v].r].status \in {"APPROVED", "PENDING_CANCELLATION"}
        <3> DEFINE r == task[v].r
        <3>1. v # w /\ task'[v] = task[v] /\ task[v].op = "cancel" /\ task[v].op \in RowOps
            BY <2>4, <2>5, <2>6 DEF RowOps, OpNames
        <3>2. /\ r \in Requests /\ req[r].owner = Subject(task[v])
              /\ req[r].status \in {"APPROVED", "PENDING_CANCELLATION"}
            BY <3>1 DEF LockInv, BaseInv, CancelKnows, TypeInv, Ready, DecisionInv, Known,
                        Subject, RowOps
        <3>3. ASSUME r = task[w].r, task[w].op = "hr" PROVE FALSE
            <4>1. task[w].op \in RowOps
                BY <3>3 DEF RowOps, OpNames
            <4>2. req[r].owner = Subject(task[w])
                BY <3>3, <4>1 DEF LockInv, BaseInv, DecisionInv, Known, Subject, RowOps
            <4> QED BY <3>1, <3>2, <3>3, <4>2 DEF LockInv, BaseInv, Apart, Busy, EditHr
        <3>4. req'[r].status \notin {"APPROVED", "PENDING_CANCELLATION"} => HrCancelCommit(w)
            <4>1. Moves(w, r) /\ Advances(req[r], req'[r]) /\ req[r] \in Row
                BY <1>3, <2>1, <3>2, StepMoves
                   DEF LockInv, BaseInv, OneMoves, TypeInv, TypeOK
            <4>2. req'[r].status \in {"APPROVED", "PENDING_CANCELLATION", "CANCELLED"}
                BY <3>2, <4>1 DEF Advances
            <4>3. ASSUME req'[r].status = "CANCELLED" PROVE HrCancelCommit(w)
                <5>1. ~(req'[r] = req[r]) /\ req[r].status # "NONE"
                    BY <3>2, <4>3
                <5>2. CASE EditWrite(w) /\ r = task[w].r
                    <6>1. /\ task[w].op = "edit" /\ task[w].op \in Exclusive
                          /\ task[w].op \in RowOps \ {"hr"}
                        BY <5>2 DEF EditWrite, EditHr, RowOps, OpNames
                    <6>2. req[task[w].r].status \in {"PENDING_VERIFY", "REVIEWING_HR"}
                        BY <6>1, FreshNow DEF LockInv, FreshRow
                    <6> QED BY <3>2, <5>2, <6>2
                <5>3. ASSUME NEW status, NEW reviewer, Decides(w, status, reviewer),
                             Restated(req[r], req'[r], status, reviewer)
                      PROVE  HrCancelCommit(w)
                    <6>1. status = "CANCELLED"
                        BY <4>1, <4>3, <5>3, RestatedFields
                    <6> QED BY <5>3, <6>1 DEF Decides, Verdict, Outcome
                <5> QED BY <4>1, <5>1, <5>2, <5>3 DEF Moves
            <4> QED BY <4>2, <4>3
        <3>5. HrCancelCommit(w) => task[w].op = "hr"
            BY DEF HrCancelCommit
        <3>6. req'[r] # req[r] /\ HrCancelCommit(w) => r = task[w].r
            <4>1. Moves(w, r)
                BY <1>3, <3>2, StepMoves DEF LockInv, BaseInv, OneMoves
            <4> QED BY <3>2, <4>1 DEF Moves
        <3> QED BY <3>1, <3>2, <3>3, <3>4, <3>5, <3>6
    <2> QED BY <1>0, <2>2, <2>6 DEF LockInv, CancelKnows
<1> QED BY <1>1, <1>2, <1>3 DEF Next, LockInv

\* Nothing is locked at the start.
LEMMA InitLock == Init => LockInv
<1> SUFFICES ASSUME Init PROVE LockInv
    OBVIOUS
<1>1. BaseInv
    BY InitBase
<1> QED BY <1>1 DEF Init, StoreInit, LockInv, CancelKnows, LockDiscipline, Idle, NoRow

\* What a step does to the requests, whoever takes it.
LEMMA NextAdvances ==
    ASSUME EditHr, LockInv, Next
    PROVE  \A r \in Requests : Advances(req[r], req'[r])
<1>1. CASE Midnight
    BY <1>1 DEF Midnight, Advances
<1>2. ASSUME NEW w \in Workers, Call(w) PROVE UNCHANGED req
    BY <1>2, CallStarts DEF LockInv, BaseInv
<1>3. ASSUME NEW w \in Workers, Step(w) \/ Fail(w)
      PROVE  \A r \in Requests : Advances(req[r], req'[r])
    BY <1>3, StepAdvances DEF LockInv
<1> QED BY <1>1, <1>2, <1>3 DEF Next, Advances

\* When edits and HR's decisions never overlap with other operations on the same
\* employee, a request with a reviewer is under review, and one under review has
\* its reviewer, unless a form sent its status: no handler leaves a lock behind,
\* or drops one that is held.
THEOREM LockDisciplineHolds == EditHr => (Spec => []LockDiscipline)
<1> SUFFICES ASSUME EditHr PROVE Spec => []LockDiscipline
    OBVIOUS
<1>1. LockInv => LockDiscipline
    BY DEF LockInv
<1> QED BY <1>1, InitLock, NextLock, PTL DEF Spec

\* Under the same exclusion, what HR has verified stays as it was verified: no
\* edit that began earlier writes over it.
THEOREM VerifiedIsFrozenHolds == EditHr => (Spec => VerifiedIsFrozen)
<1> SUFFICES ASSUME EditHr PROVE Spec => VerifiedIsFrozen
    OBVIOUS
<1>1. LockInv /\ [Next]_vars =>
         [\A r \in Requests :
             req[r].status \in Settled => Content(req[r])' = Content(req[r])]_vars
    <2> SUFFICES ASSUME LockInv, Next, NEW r \in Requests, req[r].status \in Settled
                 PROVE  Content(req[r])' = Content(req[r])
        OBVIOUS
    <2>1. Advances(req[r], req'[r])
        BY NextAdvances
    <2>2. Content(req'[r]) = Content(req[r])
        BY <2>1 DEF Advances, Settled, Granted
    <2> QED BY <2>2 DEF Content
<1> QED BY <1>1, InitLock, NextLock, PTL DEF Spec, VerifiedIsFrozen

\* Under the same exclusion, a rejected or cancelled request stays so, and a
\* granted one never goes back to be decided again.
THEOREM DecisionsStandHolds == EditHr => (Spec => DecisionsStand)
<1> SUFFICES ASSUME EditHr PROVE Spec => DecisionsStand
    OBVIOUS
<1>1. LockInv /\ [Next]_vars =>
         [\A r \in Requests :
             /\ req[r].status \in DeadStatuses => req'[r].status = req[r].status
             /\ req[r].status \in Granted => req'[r].status \in Granted]_vars
    <2> SUFFICES ASSUME LockInv, Next, NEW r \in Requests
                 PROVE  /\ req[r].status \in DeadStatuses => req'[r].status = req[r].status
                        /\ req[r].status \in Granted => req'[r].status \in Granted
        OBVIOUS
    <2>1. Advances(req[r], req'[r])
        BY NextAdvances
    <2> QED BY <2>1 DEF Advances, DeadStatuses, Granted
<1> QED BY <1>1, InitLock, NextLock, PTL DEF Spec, DecisionsStand

\* Under the same exclusion, only a leave whose cancellation was asked for is
\* cancelled, and never on or after its first day; or a form that sends the status
\* cancels a request HR has not taken up.
THEOREM CancelledBeforeStartHolds == EditHr => (Spec => CancelledBeforeStart)
<1> SUFFICES ASSUME EditHr PROVE Spec => CancelledBeforeStart
    OBVIOUS
<1>1. LockInv /\ [Next]_vars =>
         [\A r \in Requests :
             req'[r].status = "CANCELLED" /\ req[r].status # "CANCELLED" =>
                 \/ req[r].status = "PENDING_CANCELLATION" /\ req[r].ask.first > today
                 \/ req[r].status = "PENDING_VERIFY" /\ "status" \in req'[r].sent]_vars
    <2> SUFFICES ASSUME LockInv, Next, NEW r \in Requests,
                        req'[r].status = "CANCELLED", req[r].status # "CANCELLED"
                 PROVE  \/ req[r].status = "PENDING_CANCELLATION" /\ req[r].ask.first > today
                        \/ req[r].status = "PENDING_VERIFY" /\ "status" \in req'[r].sent
        OBVIOUS
    <2>1. Advances(req[r], req'[r])
        BY NextAdvances
    <2> QED BY <2>1 DEF Advances
<1> QED BY <1>1, InitLock, NextLock, PTL DEF Spec, CancelledBeforeStart

-----------------------------------------------------------------------------
(* Filing is kept apart: the hours match the days. *)

HoursMatch(row) == ~IsHourly(row.ask) => row.total = PlanHours(row.days)

HoursInv ==
    /\ BaseInv
    /\ \A r \in Requests :
          req[r].status # "NONE" /\ "total" \notin req[r].sent => HoursMatch(req[r])
    /\ \A w \in Workers :
          \/ task[w].op = "create" /\ task[w].phase # "plan"
          \/ task[w].op = "edit" /\ task[w].phase # "plan" /\ task[w].ask # None
          => HoursMatch(task[w].draft)

\* A plan's hours are those of its days.
LEMMA PlanMatches ==
    ASSUME NEW t, NEW owner, NEW type, NEW except, NEW draft,
           SamePlan(draft, PlannedRow(t, owner, type, except))
    PROVE  HoursMatch(draft)
<1>1. HoursMatch(PlannedRow(t, owner, type, except))
    BY PlanFields DEF HoursMatch, RequestHours
<1> QED BY <1>1 DEF HoursMatch, SamePlan

\* A handler that goes on has the hours of its planned days.
LEMMA ResumedHours ==
    ASSUME HoursInv, NEW w \in Workers, NEW t, Resumes(w, t),
           \/ t.op = "create" /\ t.phase # "plan"
           \/ t.op = "edit" /\ t.phase # "plan" /\ t.ask # None
    PROVE  HoursMatch(t.draft)
<1> DEFINE u == task[w]
<1>1. t # Idle /\ SameCall(t, u)
    BY DEF Resumes, Idle
<1>2. CASE t.op = "create" /\ u.phase = "plan"
    <2>1. t.draft = PlannedRow(u, u.user, u.draft.type, {})
        BY <1>1, <1>2 DEF Resumes, SameCall, HrAcquire, Deciders
    <2>2. SamePlan(t.draft, PlannedRow(u, u.user, u.draft.type, {}))
        BY <2>1 DEF SamePlan
    <2> QED BY <2>2, PlanMatches
<1>3. CASE t.op = "create" /\ u.phase # "plan"
    <2>1. SamePlan(t.draft, u.draft) /\ u.op = "create"
        BY <1>1, <1>3 DEF Resumes, SameCall, HrAcquire, Deciders
    <2>2. HoursMatch(u.draft)
        BY <1>3, <2>1 DEF HoursInv
    <2> QED BY <2>1, <2>2 DEF HoursMatch, SamePlan
<1>4. CASE t.op = "edit"
    <2>1. SamePlan(t.draft, PlannedRow(u, u.seen.owner, u.seen.type, {u.r}))
        BY <1>1, <1>4 DEF Resumes, SameCall, HrAcquire, Deciders
    <2> QED BY <2>1, PlanMatches
<1> QED BY <1>2, <1>3, <1>4

\* A step leaves rows whose hours are those of their days, unless a form sent them.
LEMMA StepHours ==
    ASSUME "create" \in Exclusive, HoursInv, NEW w \in Workers, NEW r \in Requests,
           Moves(w, r), req'[r].status # "NONE", "total" \notin req'[r].sent
    PROVE  HoursMatch(req'[r])
<1> DEFINE t == task[w]
           old == req[r]
           new == req'[r]
<1>0. t \in Task /\ t.draft \in Row /\ old \in Row
    BY DEF HoursInv, BaseInv, TypeInv, TypeOK, Task
<1>1. CASE new = old
    BY <1>1 DEF HoursInv
<1>2. CASE CreateInsert(w) /\ new = Inserted(t)
    <2>1. t.op = "create" /\ t.phase = "insert" /\ t.op \in Exclusive
        BY <1>2 DEF CreateInsert
    <2>2. SamePlan(t.draft, PlannedRow(t, t.user, t.draft.type, {}))
        BY <2>1, FreshNow DEF HoursInv, FreshPlan
    <2>3. t.draft.days = PlanDays(t.ask, Occupied(t.user, {}), EveryDay(t.user, t.draft.type))
        BY <2>2, PlanFields DEF SamePlan
    <2>4. new.ask = t.draft.ask /\ new.total = t.draft.total /\ new.days = t.draft.days
        BY <1>0, <1>2, <2>3 DEF Inserted, Row
    <2>5. HoursMatch(t.draft)
        BY <2>1 DEF HoursInv
    <2> QED BY <2>4, <2>5 DEF HoursMatch
<1>3. CASE EditWrite(w) /\ r = t.r /\ new = Requeued(t, Rewritten(t, old))
    <2>1. t.op = "edit" /\ t.phase = "write" /\ old.status # "NONE"
        BY <1>3 DEF EditWrite, HoursInv, BaseInv, DecisionInv, Known, RowOps, OpNames
    <2>2. /\ new.sent = old.sent \cup Supplied(t)
          /\ t.ask = None =>
                /\ new.ask = old.ask /\ new.days = old.days
                /\ new.total = IF "total" \in Supplied(t) THEN t.extra.total ELSE old.total
          /\ t.ask # None => /\ new.ask = t.draft.ask /\ new.days = t.draft.days
                             /\ new.total = t.draft.total
        BY <1>0, <1>3, EditedFields
    <2>3. HoursMatch(old) /\ (t.ask # None => HoursMatch(t.draft))
        BY <2>1, <2>2 DEF HoursInv
    <2> QED BY <2>2, <2>3 DEF HoursMatch
<1>4. ASSUME NEW status, NEW reviewer, r = t.r, Decides(w, status, reviewer),
             Restated(old, new, status, reviewer)
      PROVE  HoursMatch(new)
    <2>1. t.op \in RowOps
        BY <1>4 DEF Decides, CancelWrite, ViewAcquire, HrAcquire, HrDecide, HrCancelCommit,
                    Commit, RowOps, OpNames
    <2>2. /\ new.ask = old.ask /\ new.days = old.days /\ new.total = old.total
          /\ new.sent = old.sent
        BY <1>0, <1>4, RestatedFields
    <2>3. HoursMatch(old)
        BY <1>4, <2>1, <2>2 DEF HoursInv, BaseInv, DecisionInv, Known
    <2> QED BY <2>2, <2>3 DEF HoursMatch
<1> QED BY <1>1, <1>2, <1>3, <1>4 DEF Moves

\* Hours and days stay together.
LEMMA NextHours == "create" \in Exclusive => (HoursInv /\ [Next]_vars => HoursInv')
<1> SUFFICES ASSUME "create" \in Exclusive, HoursInv, [Next]_vars PROVE HoursInv'
    OBVIOUS
<1>0. BaseInv' /\ task \in [Workers -> Task]
    BY NextBase DEF HoursInv, BaseInv, TypeInv, TypeOK
<1>1. CASE UNCHANGED vars \/ Midnight
    <2>1. UNCHANGED <<req, task>>
        BY <1>1 DEF vars, Midnight
    <2> QED BY <1>0, <2>1 DEF HoursInv
<1>2. ASSUME NEW w \in Workers, Call(w) PROVE HoursInv'
    <2>1. PICK t : task' = [task EXCEPT ![w] = t] /\ UNCHANGED req /\ Started(t)
        BY <1>2, CallStarts DEF HoursInv, BaseInv
    <2>2. task'[w] = t /\ \A v \in Workers \ {w} : task'[v] = task[v]
        BY <1>0, <2>1
    <2>3. ~(t.op = "create" /\ t.phase # "plan")
          /\ ~(t.op = "edit" /\ t.phase # "plan" /\ t.ask # None)
        BY <2>1 DEF Started
    <2> QED BY <1>0, <2>1, <2>2, <2>3 DEF HoursInv
<1>3. ASSUME NEW w \in Workers, Step(w) \/ Fail(w) PROVE HoursInv'
    <2>1. PICK t : task' = [task EXCEPT ![w] = t] /\ Resumes(w, t)
        BY <1>3, StepResumes DEF HoursInv, BaseInv
    <2>2. task'[w] = t /\ \A v \in Workers \ {w} : task'[v] = task[v]
        BY <1>0, <2>1
    <2>3. \A r \in Requests :
              req'[r].status # "NONE" /\ "total" \notin req'[r].sent => HoursMatch(req'[r])
        BY <1>3, StepMoves, StepHours DEF HoursInv, BaseInv, OneMoves
    <2>4. \/ t.op = "create" /\ t.phase # "plan"
          \/ t.op = "edit" /\ t.phase # "plan" /\ t.ask # None
          => HoursMatch(t.draft)
        BY <2>1, ResumedHours
    <2> QED BY <1>0, <2>2, <2>3, <2>4 DEF HoursInv
<1> QED BY <1>1, <1>2, <1>3 DEF Next

\* Nothing is filed at the start.
LEMMA InitHours == Init => HoursInv
<1> SUFFICES ASSUME Init PROVE HoursInv
    OBVIOUS
<1>1. BaseInv
    BY InitBase
<1> QED BY <1>1 DEF Init, StoreInit, HoursInv, Idle, NoRow

\* When filing never overlaps with other operations on the same employee, the
\* hours a day-based leave is charged are the hours of its stored days, unless a
\* form sent them: the days planned again under the lock are those the hours were
\* worked out from, and an edit writes both or neither.
THEOREM HoursMatchDaysHolds == "create" \in Exclusive => (Spec => []HoursMatchDays)
<1> SUFFICES ASSUME "create" \in Exclusive PROVE Spec => []HoursMatchDays
    OBVIOUS
<1>1. HoursInv => HoursMatchDays
    BY DEF HoursInv, HoursMatch, HoursMatchDays, Untouched, Live, LiveStatuses,
           PendingStatuses
<1> QED BY <1>1, InitHours, NextHours, PTL DEF Spec

-----------------------------------------------------------------------------
(* No half-day twice. *)

\* Leave by the clock starts late enough in the day for the UTC day it is read
\* in to be the day it was filed for.
SameUtcDay == \A ask \in Asks : IsHourly(ask) => UtcOffset <= ask.from

\* A form that costs hours asks for some day that counts.
LEMMA CostsDays ==
    ASSUME SameUtcDay, NEW ask \in Asks, NEW occupied, NEW everyDay,
           RequestHours(ask, PlanDays(ask, occupied, everyDay), everyDay) > 0
    PROVE  PlannedDays(ask, everyDay) # {}
<1> SUFFICES ASSUME PlannedDays(ask, everyDay) = {} PROVE FALSE
    OBVIOUS
<1>0. ask \in Ask
    BY StoreAssumption
<1>1. PlanDays(ask, occupied, everyDay) = {}
    BY DEF PlanDays
<1>2. CASE ~IsHourly(ask)
    <2>1. PlanHours({}) = 0
        <3>1. {entry \in {} : entry.portion = "full"} = {}
            OBVIOUS
        <3> QED BY <3>1, FS_EmptySet DEF PlanHours, HoursPerHalf
    <2> QED BY <1>1, <1>2, <2>1 DEF RequestHours
<1>3. CASE IsHourly(ask)
    <2>1. PICK half : half \in ClockHalves(ask)
        BY DEF ClockHalves
    <2>2. UtcDay(ask) = ask.first
        <3>1. ask.first \in Int
            <4>1. ask.first \in Days
                BY <1>0 DEF Ask
            <4> QED BY <4>1, PortionAssumption
        <3>2. ask.from \in 0 .. 23 /\ UtcOffset \in 0 .. 23
            BY <1>0, PortionAssumption DEF Ask
        <3>3. ask.from - UtcOffset \in 0 .. 23
            BY <1>3, <3>2 DEF SameUtcDay
        <3>4. (ask.from - UtcOffset) \div 24 = 0
            BY <3>3
        <3> QED BY <3>1, <3>4 DEF UtcDay
    <2>3. <<ask.first, half>> \in Desired(ask)
        BY <1>3, <2>1, <2>2 DEF Desired
    <2>4. ask.first \in {slot[1] : slot \in Desired(ask)}
        BY <2>3
    <2>5. ~everyDay /\ ~Counted(ask, ask.first)
        BY <2>4 DEF PlannedDays
    <2> QED BY <1>3, <2>5 DEF RequestHours, HourlyHours
<1> QED BY <1>2, <1>3

\* A plan without conflicts for it has stored days, and they are free.
LEMMA PlanIsFree ==
    ASSUME NEW ask \in Ask, NEW occupied, NEW everyDay, PlannedDays(ask, everyDay) # {},
           PlanOk(ask, occupied, everyDay)
    PROVE  /\ PlanDays(ask, occupied, everyDay) # {}
           /\ Expand(PlanDays(ask, occupied, everyDay)) \cap occupied = {}
<1>1. PlanDays(ask, occupied, everyDay) # {}
    BY DEF PlanDays, PlanOk
<1> QED BY <1>1, PlanClaimsFree

\* A form that is being filed has been found to cost hours.
BookingInv ==
    /\ LockInv
    /\ \A w \in Workers :
          task[w].op = "create" /\ task[w].phase # "plan" =>
              PlannedDays(task[w].ask, EveryDay(task[w].user, task[w].draft.type)) # {}
    /\ NoDoubleBooking

\* The request keeps its slots, or takes some that nobody of its owner holds.
Books(r) ==
    \/ /\ req'[r].owner = req[r].owner /\ SlotsOf(req'[r]) = SlotsOf(req[r])
       /\ req'[r].status \in LiveStatuses => req[r].status \in LiveStatuses
    \/ SlotsOf(req'[r]) \cap Occupied(req'[r].owner, {r}) = {}

\* A step takes free slots only.
LEMMA StepBooks ==
    ASSUME SameUtcDay, EditHr, BookingInv, NEW w \in Workers, Step(w) \/ Fail(w),
           NEW r \in Requests
    PROVE  Books(r)
<1> DEFINE t == task[w]
           old == req[r]
           new == req'[r]
<1>0. /\ t \in Task /\ t.draft \in Row /\ old \in Row /\ Moves(w, r)
      /\ Advances(old, new) /\ SaneTask(t) /\ SaneRow(old)
    BY StepMoves, StepAdvances
       DEF BookingInv, LockInv, BaseInv, TypeInv, TypeOK, Task, OneMoves, SaneInv
<1>1. CASE CreateInsert(w) /\ StillFree(t) /\ old.status = "NONE" /\ new = Inserted(t)
    <2> DEFINE everyDay == EveryDay(t.user, t.draft.type)
               days == PlanDays(t.ask, Occupied(t.user, {}), everyDay)
    <2>1. t.op = "create" /\ t.phase # "plan" /\ t.user \in Users
        BY <1>1 DEF CreateInsert, BookingInv, LockInv, BaseInv, TypeInv, Ready
    <2>2. new.owner = t.user /\ new.days = days
        BY <1>0, <1>1, <2>1 DEF Inserted, Row, SaneTask
    <2>3. t.ask \in Ask /\ PlannedDays(t.ask, everyDay) # {}
          /\ PlanOk(t.ask, Occupied(t.user, {}), everyDay)
        BY <1>0, <1>1, <2>1, StoreAssumption DEF SaneTask, BookingInv, StillFree
    <2> HIDE DEF everyDay
    <2>4. days # {} /\ Expand(days) \cap Occupied(t.user, {}) = {}
        BY <2>3, PlanIsFree
    <2>5. Occupied(t.user, {r}) \subseteq Occupied(t.user, {})
        BY DEF Occupied
    <2> QED BY <2>2, <2>4, <2>5 DEF Books, SlotsOf
<1>2. CASE EditWrite(w) /\ r = t.r /\ new = Requeued(t, Rewritten(t, old))
    <2>1. t.op = "edit" /\ t.phase = "write" /\ t.op \in Exclusive /\ t.op \in RowOps \ {"hr"}
        BY <1>2 DEF EditWrite, EditHr, RowOps, OpNames
    <2>2. old = t.seen /\ old.status \in LiveStatuses
        BY <1>2, <2>1, FreshNow
           DEF BookingInv, LockInv, FreshRow, LiveStatuses, PendingStatuses
    <2>3. /\ new.owner = old.owner
          /\ t.ask = None => new.ask = old.ask /\ new.days = old.days
          /\ t.ask # None => new.days = t.draft.days
        BY <1>0, <1>2, EditedFields
    <2>4. CASE t.ask = None
        BY <2>2, <2>3, <2>4 DEF Books, SlotsOf
    <2>5. CASE t.ask # None
        <3> DEFINE everyDay == EveryDay(t.seen.owner, t.seen.type)
                   occupied == Occupied(t.seen.owner, {t.r})
                   days == PlanDays(t.ask, occupied, everyDay)
        <3>1. /\ PlanAccepted(t, t.seen.owner, t.seen.type, {t.r})
              /\ SamePlan(t.draft, PlannedRow(t, t.seen.owner, t.seen.type, {t.r}))
            BY <2>1, <2>5, FreshNow DEF BookingInv, LockInv, FreshPlan
        <3>2. t.draft.days = days
            BY <3>1, PlanFields DEF SamePlan
        <3>3. PlanOk(t.ask, occupied, everyDay) /\ RequestHours(t.ask, days, everyDay) > 0
            BY <3>1, PlanFields DEF PlanAccepted
        <3>4. t.ask \in Asks /\ t.ask \in Ask
            BY <1>0, <2>1, <2>5, StoreAssumption DEF SaneTask
        <3> HIDE DEF everyDay, occupied
        <3>5. PlannedDays(t.ask, everyDay) # {}
            BY <3>3, <3>4, CostsDays
        <3>6. days # {} /\ Expand(days) \cap occupied = {}
            BY <3>3, <3>4, <3>5, PlanIsFree
        <3> QED BY <1>2, <2>2, <2>3, <2>5, <3>2, <3>6 DEF Books, SlotsOf, occupied
    <2> QED BY <2>4, <2>5
<1>3. ASSUME NEW status, NEW reviewer, r = t.r, Decides(w, status, reviewer),
             Restated(old, new, status, reviewer)
      PROVE  Books(r)
    <2>1. new.owner = old.owner /\ new.ask = old.ask /\ new.days = old.days
          /\ new.status = status
        BY <1>0, <1>3, RestatedFields
    <2>2. t.op \in RowOps
        BY <1>3 DEF Decides, CancelWrite, ViewAcquire, HrAcquire, HrDecide, HrCancelCommit,
                    Commit, RowOps, OpNames
    <2>3. old.status # "NONE"
        BY <1>3, <2>2 DEF BookingInv, LockInv, BaseInv, DecisionInv, Known
    <2>4. new.status \in LiveStatuses => old.status \in LiveStatuses
        BY <1>0, <2>3 DEF Advances, LiveStatuses, PendingStatuses
    <2> QED BY <2>1, <2>4 DEF Books, SlotsOf
<1>4. CASE new = old
    BY <1>4 DEF Books, SlotsOf
<1> QED BY <1>0, <1>1, <1>2, <1>3, <1>4 DEF Moves

\* No slot is ever taken twice.
LEMMA NextBooking == SameUtcDay /\ EditHr => (BookingInv /\ [Next]_vars => BookingInv')
<1> SUFFICES ASSUME SameUtcDay, EditHr, BookingInv, [Next]_vars PROVE BookingInv'
    OBVIOUS
<1>0. LockInv' /\ task \in [Workers -> Task]
    BY NextLock DEF BookingInv, LockInv, BaseInv, TypeInv, TypeOK
<1>1. CASE UNCHANGED vars \/ Midnight
    <2>1. UNCHANGED <<req, task>>
        BY <1>1 DEF vars, Midnight
    <2> QED BY <1>0, <2>1 DEF BookingInv, NoDoubleBooking, Live, SlotsOf
<1>2. ASSUME NEW w \in Workers, Call(w) PROVE BookingInv'
    <2>1. PICK t : task' = [task EXCEPT ![w] = t] /\ UNCHANGED req /\ Started(t)
        BY <1>2, CallStarts DEF BookingInv, LockInv, BaseInv
    <2>2. task'[w] = t /\ \A v \in Workers \ {w} : task'[v] = task[v]
        BY <1>0, <2>1
    <2>3. ~(t.op = "create" /\ t.phase # "plan")
        BY <2>1 DEF Started
    <2> QED BY <1>0, <2>1, <2>2, <2>3 DEF BookingInv, NoDoubleBooking, Live, SlotsOf
<1>3. ASSUME NEW w \in Workers, Step(w) \/ Fail(w) PROVE BookingInv'
    <2> DEFINE u == task[w]
    <2>0. OneMoves(w) /\ SaneTask(u)
        BY <1>3, StepMoves DEF BookingInv, LockInv, BaseInv, SaneInv
    <2>1. PICK t : task' = [task EXCEPT ![w] = t] /\ Resumes(w, t)
        BY <1>3, StepResumes DEF BookingInv, LockInv, BaseInv
    <2>2. task'[w] = t /\ \A v \in Workers \ {w} : task'[v] = task[v]
        BY <1>0, <2>1
    <2>3. ASSUME t.op = "create", t.phase # "plan"
          PROVE  PlannedDays(t.ask, EveryDay(t.user, t.draft.type)) # {}
        <3>1. t # Idle /\ SameCall(t, u) /\ u.op = "create"
            BY <2>1, <2>3 DEF Resumes, Idle, SameCall
        <3>2. CASE u.phase = "plan"
            <4> DEFINE everyDay == EveryDay(u.user, u.draft.type)
            <4>1. /\ PlanAccepted(u, u.user, u.draft.type, {})
                  /\ t.draft = PlannedRow(u, u.user, u.draft.type, {})
                BY <2>1, <2>3, <3>1, <3>2 DEF Resumes, SameCall, HrAcquire, Deciders
            <4>2. t.draft.type = u.draft.type
                BY <4>1, PlanFields
            <4>3. RequestHours(u.ask, PlanDays(u.ask, Occupied(u.user, {}), everyDay), everyDay)
                    > 0
                BY <4>1, PlanFields DEF PlanAccepted
            <4> HIDE DEF everyDay
            <4>4. PlannedDays(u.ask, everyDay) # {}
                BY <2>0, <3>1, <4>3, CostsDays DEF SaneTask
            <4> QED BY <3>1, <4>2, <4>4 DEF SameCall, everyDay
        <3>3. CASE u.phase # "plan"
            <4>1. t.draft.type = u.draft.type
                BY <2>1, <3>1, <3>3 DEF Resumes, SameCall, HrAcquire, Deciders
            <4>2. PlannedDays(u.ask, EveryDay(u.user, u.draft.type)) # {}
                BY <3>1, <3>3 DEF BookingInv
            <4> QED BY <3>1, <4>1, <4>2 DEF SameCall
        <3> QED BY <3>2, <3>3
    <2>4. ASSUME NEW r \in Requests, NEW s \in Requests, r # s,
                 req'[r].status \in LiveStatuses, req'[s].status \in LiveStatuses,
                 req'[r].owner = req'[s].owner, req'[s] = req[s]
          PROVE  SlotsOf(req'[r]) \cap SlotsOf(req'[s]) = {}
        <3>1. Books(r)
            BY <1>3, StepBooks
        <3>2. CASE /\ req'[r].owner = req[r].owner /\ SlotsOf(req'[r]) = SlotsOf(req[r])
                   /\ req'[r].status \in LiveStatuses => req[r].status \in LiveStatuses
            <4>1. SlotsOf(req[r]) \cap SlotsOf(req[s]) = {}
                BY <2>4, <3>2 DEF BookingInv, NoDoubleBooking, Live
            <4>2. SlotsOf(req'[s]) = SlotsOf(req[s])
                BY <2>4
            <4> QED BY <3>2, <4>1, <4>2
        <3>3. CASE SlotsOf(req'[r]) \cap Occupied(req'[r].owner, {r}) = {}
            <4>1. s \in {q \in OwnedBy(req'[r].owner) \ {r} : req[q].status \in LiveStatuses}
                BY <2>4 DEF OwnedBy
            <4>2. SlotsOf(req[s]) \subseteq Occupied(req'[r].owner, {r})
                BY <4>1 DEF Occupied
            <4>3. SlotsOf(req'[s]) = SlotsOf(req[s])
                BY <2>4
            <4> QED BY <3>3, <4>2, <4>3
        <3> QED BY <3>1, <3>2, <3>3 DEF Books
    <2>5. ASSUME NEW r \in Requests, NEW s \in Requests, r # s,
                 req'[r].status \in LiveStatuses, req'[s].status \in LiveStatuses,
                 req'[r].owner = req'[s].owner
          PROVE  SlotsOf(req'[r]) \cap SlotsOf(req'[s]) = {}
        <3>1. req'[r] = req[r] \/ req'[s] = req[s]
            BY <2>0, <2>5 DEF OneMoves
        <3>2. CASE req'[s] = req[s]
            BY <2>4, <2>5, <3>2
        <3>3. CASE req'[r] = req[r]
            <4>1. SlotsOf(req'[s]) \cap SlotsOf(req'[r]) = {}
                BY <2>4, <2>5, <3>3
            <4> QED BY <4>1
        <3> QED BY <3>1, <3>2, <3>3
    <2>6. NoDoubleBooking'
        BY <2>5 DEF NoDoubleBooking, Live, SlotsOf
    <2>7. ASSUME NEW v \in Workers, task'[v].op = "create", task'[v].phase # "plan"
          PROVE  PlannedDays(task'[v].ask, EveryDay(task'[v].user, task'[v].draft.type)) # {}
        BY <2>2, <2>3, <2>7 DEF BookingInv
    <2> QED BY <1>0, <2>6, <2>7 DEF BookingInv
<1> QED BY <1>1, <1>2, <1>3 DEF Next, BookingInv

\* No slot is taken at the start.
LEMMA InitBooking == Init => BookingInv
<1> SUFFICES ASSUME Init PROVE BookingInv
    OBVIOUS
<1>1. LockInv
    BY InitLock
<1> QED BY <1>1 DEF Init, StoreInit, BookingInv, NoDoubleBooking, Live, LiveStatuses,
                    PendingStatuses, Idle, NoRow

\* When edits and HR's decisions never overlap with other operations on the same
\* employee, no employee ever holds the same half-day twice: filing may race with
\* filing, because the plan is made again under the lock.
THEOREM NoDoubleBookingHolds == SameUtcDay /\ EditHr => (Spec => []NoDoubleBooking)
<1> SUFFICES ASSUME SameUtcDay, EditHr PROVE Spec => []NoDoubleBooking
    OBVIOUS
<1>1. BookingInv => NoDoubleBooking
    BY DEF BookingInv
<1> QED BY <1>1, InitBooking, NextBooking, PTL DEF Spec

-----------------------------------------------------------------------------
(* Decisions are kept apart from the rest: the balances add up. *)

DecisionsApart == Deciders \subseteq Exclusive

Weighs(row) == row.status \in {"APPROVED", "PENDING_CANCELLATION"}

Sent(row) == "status" \in row.sent

\* What an edit or a cancellation in flight works on has not been decided since:
\* only a handler that is kept apart could have done it, or a form that sends the
\* status.
Undecided ==
    \A w \in Workers :
        /\ task[w].op = "edit" =>
              \/ req[task[w].r].status \in {"PENDING_VERIFY", "REVIEWING_HR"}
              \/ Sent(req[task[w].r])
        /\ task[w].op = "cancel" => Weighs(req[task[w].r]) \/ Sent(req[task[w].r])

\* A step that moves no balance: the request weighs on what it weighed on.
KeepsWeight(old, new) ==
    /\ Weighs(new) <=> Weighs(old)
    /\ Weighs(old) => AccountOf(new) = AccountOf(old) /\ new.total = old.total

\* An approver's transaction charges, HR's gives back.
Grants(w) == Commit(w) /\ Outcome(task[w]) = "APPROVED"

GivesBack(w) == HrCancelCommit(w) /\ task[w].action = "Approve"

\* A request comes to weigh on the balance that was read for it, or ceases to.
Granting(w, r) ==
    LET seen == task[w].seen IN
    /\ Grants(w) /\ r = task[w].r
    /\ ~Weighs(req[r]) /\ Weighs(req'[r])
    /\ AccountOf(req'[r]) = AccountOf(seen) /\ req'[r].total = seen.total

GivingBack(w, r) ==
    LET seen == task[w].seen IN
    /\ GivesBack(w) /\ r = task[w].r
    /\ Weighs(req[r]) /\ ~Weighs(req'[r])
    /\ AccountOf(req[r]) = AccountOf(seen) /\ req[r].total = seen.total

\* A step of a handler grants, gives back, moves no weight, or is on a request
\* whose status a form has sent.
LEMMA StepWeighs ==
    ASSUME DecisionsApart, BaseInv, Undecided, NEW w \in Workers, NEW r \in Requests,
           Moves(w, r)
    PROVE  \/ /\ KeepsWeight(req[r], req'[r]) \/ Sent(req'[r])
              /\ ~(r = task[w].r /\ (Grants(w) \/ GivesBack(w)))
           \/ Granting(w, r) \/ GivingBack(w, r)
<1> DEFINE t == task[w]
           old == req[r]
           new == req'[r]
<1>0. t \in Task /\ t.draft \in Row /\ old \in Row
    BY DEF BaseInv, TypeInv, TypeOK, Task
<1>1. CASE new = old
    <2>1. ASSUME r = t.r, Grants(w) PROVE FALSE
        <3>1. old.status # "APPROVED" /\ r \in DOMAIN req
            BY <2>1 DEF Grants, Commit, BaseInv, TypeInv, TypeOK, SaneInv, Locked, Awaited
        <3>2. new.status = "APPROVED"
            BY <1>0, <2>1, <3>1 DEF Grants, Commit, Row
        <3> QED BY <1>1, <3>1, <3>2
    <2>2. ASSUME r = t.r, GivesBack(w) PROVE FALSE
        <3>1. t.op = "hr" /\ t.phase = "tx" /\ t.op \in Exclusive
            BY <2>2 DEF GivesBack, HrCancelCommit, DecisionsApart, Deciders
        <3>2. old.status = "PENDING_CANCELLATION" /\ r \in DOMAIN req
            BY <2>2, <3>1, FreshNow DEF FreshRow, BaseInv, TypeInv, TypeOK
        <3>3. new.status = "CANCELLED"
            BY <1>0, <2>2, <3>2 DEF GivesBack, HrCancelCommit, Row
        <3> QED BY <1>1, <3>2, <3>3
    <2> QED BY <1>1, <2>1, <2>2 DEF KeepsWeight
<1>2. CASE CreateInsert(w) /\ old.status = "NONE" /\ new = Inserted(t)
    <2>1. new.status = "PENDING_VERIFY"
        BY <1>0, <1>2 DEF Inserted, Row
    <2>2. ~Grants(w) /\ ~GivesBack(w)
        BY <1>2 DEF CreateInsert, Grants, GivesBack, Commit, HrCancelCommit
    <2> QED BY <1>2, <2>1, <2>2 DEF KeepsWeight, Weighs
<1>3. CASE EditWrite(w) /\ r = t.r /\ new = Requeued(t, Rewritten(t, old))
    <2>1. t.op = "edit"
        BY <1>3 DEF EditWrite
    <2>2. old.status \in {"PENDING_VERIFY", "REVIEWING_HR"} \/ Sent(old)
        BY <1>3, <2>1 DEF Undecided
    <2>3. /\ new.status \in {"PENDING_VERIFY", old.status} \/ "status" \in Supplied(t)
          /\ new.sent = old.sent \cup Supplied(t)
        BY <1>0, <1>3, EditedFields
    <2>4. ~Grants(w) /\ ~GivesBack(w)
        BY <2>1 DEF Grants, GivesBack, Commit, HrCancelCommit
    <2>5. KeepsWeight(old, new) \/ Sent(new)
        <3> HIDE DEF old, new
        <3> QED BY <2>2, <2>3 DEF KeepsWeight, Weighs, Sent
    <2> QED BY <2>4, <2>5
<1>4. ASSUME NEW status, NEW reviewer, r = t.r, Decides(w, status, reviewer),
             Restated(old, new, status, reviewer)
      PROVE  \/ /\ KeepsWeight(old, new) \/ Sent(new)
                /\ ~(r = task[w].r /\ (Grants(w) \/ GivesBack(w)))
             \/ Granting(w, r) \/ GivingBack(w, r)
    <2>1. /\ new.status = status
          /\ new.owner = old.owner /\ new.type = old.type /\ new.ask = old.ask
          /\ new.total = old.total /\ new.sent = old.sent
        BY <1>0, <1>4, RestatedFields
    <2>2. AccountOf(new) = AccountOf(old)
        BY <2>1 DEF AccountOf, StartYear
    <2> HIDE DEF new
    <2>3. CASE CancelWrite(w) /\ status = "PENDING_CANCELLATION"
        <3>1. Weighs(old) \/ Sent(old)
            BY <1>4, <2>3 DEF CancelWrite, Undecided
        <3>2. ~Grants(w) /\ ~GivesBack(w)
            BY <2>3 DEF CancelWrite, Grants, GivesBack, Commit, HrCancelCommit
        <3>3. KeepsWeight(old, new) \/ Sent(new)
            BY <2>1, <2>2, <2>3, <3>1 DEF KeepsWeight, Weighs, Sent
        <3> QED BY <3>2, <3>3
    <2>4. CASE /\ ViewAcquire(w) \/ HrAcquire(w)
               /\ Acquirable(t.r) /\ status = "REVIEWING_HR"
        <3>1. old.status = "PENDING_VERIFY" /\ ~Grants(w) /\ ~GivesBack(w)
            BY <1>4, <2>4 DEF ViewAcquire, HrAcquire, Acquirable, Grants, GivesBack, Commit,
                              HrCancelCommit
        <3> QED BY <2>1, <2>4, <3>1 DEF KeepsWeight, Weighs
    <2>5. CASE HrDecide(w) /\ status = Verdict(t)
        <3>1. t.op = "hr" /\ t.phase = "decide" /\ t.op \in Exclusive
            BY <2>5 DEF HrDecide, DecisionsApart, Deciders
        <3>2. old.status = "REVIEWING_HR"
            BY <1>4, <3>1, FreshNow DEF FreshRow
        <3>3. Verdict(t) \in {"REJECTED", "PENDING_SUPERVISOR", "PENDING_EXECUTIVE"}
            BY DEF Verdict
        <3>4. ~Grants(w) /\ ~GivesBack(w)
            BY <3>1 DEF Grants, GivesBack, Commit, HrCancelCommit
        <3> QED BY <2>1, <2>5, <3>2, <3>3, <3>4 DEF KeepsWeight, Weighs
    <2>6. CASE /\ HrCancelCommit(w)
               /\ status = IF t.action = "Approve" THEN "CANCELLED" ELSE "APPROVED"
        <3>1. t.op = "hr" /\ t.phase = "tx" /\ t.op \in Exclusive /\ t.op \in RowOps
            BY <2>6 DEF HrCancelCommit, DecisionsApart, Deciders, RowOps, OpNames
        <3>2. old.status = "PENDING_CANCELLATION" /\ Content(old) = Content(t.seen)
            BY <1>4, <3>1, FreshNow DEF FreshRow
        <3>3. old.owner = t.seen.owner
            BY <1>4, <3>1 DEF BaseInv, DecisionInv, Known
        <3>4. AccountOf(old) = AccountOf(t.seen) /\ old.total = t.seen.total
            BY <3>2, <3>3 DEF Content, AccountOf, StartYear
        <3>5. ~Grants(w)
            BY <3>1 DEF Grants, Commit
        <3> QED BY <1>4, <2>1, <2>2, <2>6, <3>2, <3>4, <3>5
                DEF KeepsWeight, Weighs, GivingBack, GivesBack, new
    <2>7. CASE Commit(w) /\ status = Outcome(t)
        <3>1. t.op \in {"manager", "ceo"} /\ t.phase = "tx" /\ t.op \in Exclusive
              /\ t.op \in RowOps \ {"hr"}
            BY <2>7 DEF Commit, DecisionsApart, Deciders, RowOps, OpNames
        <3>2. old = t.seen
            BY <1>4, <3>1, FreshNow DEF FreshRow
        <3>3. old.status \in {"PENDING_SUPERVISOR", "PENDING_EXECUTIVE"}
            BY <1>4, <3>1 DEF BaseInv, SaneInv, Locked, Awaited
        <3>4. Outcome(t) \in {"REJECTED", "PENDING_EXECUTIVE", "APPROVED"}
            BY DEF Outcome
        <3>5. ~GivesBack(w)
            BY <3>1 DEF GivesBack, HrCancelCommit
        <3> QED BY <1>4, <2>1, <2>2, <2>7, <3>2, <3>3, <3>4, <3>5
                DEF KeepsWeight, Weighs, Granting, Grants, new
    <2> QED BY <1>4, <2>3, <2>4, <2>5, <2>6, <2>7 DEF Decides
<1> QED BY <1>1, <1>2, <1>3, <1>4 DEF Moves

\* A decision of HR is alone with its request.
LEMMA HrAlone ==
    ASSUME DecisionsApart, BaseInv, NEW v \in Workers, NEW w \in Workers, v # w,
           task[v].op \in RowOps, task[w].op = "hr", task[v].r = task[w].r
    PROVE  FALSE
<1>1. task[w].op \in RowOps
    BY DEF RowOps, OpNames
<1>2. Subject(task[v]) = req[task[v].r].owner /\ Subject(task[w]) = req[task[w].r].owner
    BY <1>1 DEF BaseInv, DecisionInv, Known, Subject, RowOps
<1>3. Busy(v) /\ Busy(w)
    BY <1>1 DEF Busy, RowOps, OpNames
<1> QED BY <1>2, <1>3 DEF BaseInv, Apart, DecisionsApart, Deciders

\* What an edit or a cancellation works on stays undecided.
LEMMA NextUndecided ==
    ASSUME DecisionsApart, BaseInv, Undecided, [Next]_vars
    PROVE  Undecided'
<1>0. task \in [Workers -> Task]
    BY DEF BaseInv, TypeInv, TypeOK
<1>1. CASE UNCHANGED vars \/ Midnight
    <2>1. UNCHANGED <<req, task>>
        BY <1>1 DEF vars, Midnight
    <2> QED BY <2>1 DEF Undecided, Weighs, Sent
<1>2. ASSUME NEW w \in Workers, Call(w) PROVE Undecided'
    <2>1. PICK t : task' = [task EXCEPT ![w] = t] /\ UNCHANGED req /\ Started(t)
        BY <1>2, CallStarts DEF BaseInv
    <2>2. task'[w] = t /\ \A v \in Workers \ {w} : task'[v] = task[v]
        BY <1>0, <2>1
    <2>3. /\ t.op = "edit" => req[t.r].status \in {"PENDING_VERIFY", "REVIEWING_HR"}
          /\ t.op = "cancel" => Weighs(req[t.r])
        BY <2>1 DEF Started, RowOps, OpNames, Weighs
    <2> QED BY <2>1, <2>2, <2>3 DEF Undecided, Weighs, Sent
<1>3. ASSUME NEW w \in Workers, Step(w) \/ Fail(w) PROVE Undecided'
    <2>1. PICK t : task' = [task EXCEPT ![w] = t] /\ Resumes(w, t)
        BY <1>3, StepResumes DEF BaseInv
    <2>2. task'[w] = t /\ \A v \in Workers \ {w} : task'[v] = task[v]
        BY <1>0, <2>1
    <2>3. OneMoves(w)
        BY <1>3, StepMoves DEF BaseInv
    <2>4. /\ t.op # "cancel"
          /\ t.op = "edit" => task[w].op = "edit" /\ t.r = task[w].r /\ UNCHANGED req
        BY <2>1 DEF Resumes, SameCall, Idle, HrAcquire, Deciders
    <2>5. ASSUME NEW v \in Workers \ {w}, task[v].op = "edit"
          PROVE  \/ req'[task[v].r].status \in {"PENDING_VERIFY", "REVIEWING_HR"}
                 \/ Sent(req'[task[v].r])
        <3> DEFINE r == task[v].r
        <3>1. /\ r \in Requests /\ task[v].op \in RowOps /\ req[r] \in Row /\ task[w] \in Task
              /\ req[r].status \in {"PENDING_VERIFY", "REVIEWING_HR"} \/ Sent(req[r])
              /\ req[r].status # "NONE" /\ Moves(w, r)
            BY <1>0, <2>3, <2>5
               DEF Undecided, BaseInv, TypeInv, TypeOK, Ready, OneMoves, RowOps, OpNames,
                   DecisionInv, Known
        <3> HIDE DEF r
        <3>2. CASE Sent(req[r])
            <4>1. Sent(req'[r])
                BY <3>1, <3>2, MovesKeep DEF Sent
            <4> QED BY <4>1 DEF r
        <3>3. CASE /\ ~Sent(req[r]) /\ EditWrite(w)
                   /\ req'[r] = Requeued(task[w], Rewritten(task[w], req[r]))
            <4>1. PICK new : new = req'[r]
                OBVIOUS
            <4>2. /\ new.status \in {"PENDING_VERIFY", req[r].status} \/ "status" \in Supplied(task[w])
                  /\ new.sent = req[r].sent \cup Supplied(task[w])
                BY <3>1, <3>3, <4>1, EditedFields
            <4>3. req'[r].status \in {"PENDING_VERIFY", "REVIEWING_HR"} \/ Sent(req'[r])
                BY <3>1, <3>3, <4>1, <4>2 DEF Sent
            <4> QED BY <4>3 DEF r
        <3>4. ASSUME ~Sent(req[r]), NEW status, NEW reviewer, r = task[w].r,
                     Decides(w, status, reviewer), Restated(req[r], req'[r], status, reviewer)
              PROVE  req'[r].status \in {"PENDING_VERIFY", "REVIEWING_HR"}
            <4>1. req'[r].status = status
                BY <3>1, <3>4, RestatedFields
            <4>2. task[w].op # "hr" \/ HrAcquire(w)
                BY <2>5, <3>1, <3>4, HrAlone DEF r
            <4>3. ~CancelWrite(w)
                BY <3>1, <3>4 DEF CancelWrite, Undecided, Weighs
            <4>4. ~Commit(w)
                BY <3>1, <3>4 DEF Commit, BaseInv, SaneInv, Locked, Awaited
            <4>5. HrAcquire(w) => task[w].phase = "acquire"
                BY DEF HrAcquire
            <4> QED BY <3>4, <4>1, <4>2, <4>3, <4>4, <4>5
                    DEF Decides, HrDecide, HrCancelCommit
        <3>5. CASE req'[r] = req[r]
            BY <3>1, <3>5 DEF r
        <3> QED BY <3>1, <3>2, <3>3, <3>4, <3>5 DEF Moves, r
    <2>6. ASSUME NEW v \in Workers \ {w}, task[v].op = "cancel"
          PROVE  Weighs(req'[task[v].r]) \/ Sent(req'[task[v].r])
        <3> DEFINE r == task[v].r
        <3>1. /\ r \in Requests /\ task[v].op \in RowOps /\ Moves(w, r)
              /\ Weighs(req[r]) \/ Sent(req[r])
              /\ req[r].status # "NONE"
            BY <2>3, <2>6
               DEF Undecided, BaseInv, TypeInv, Ready, OneMoves, RowOps, OpNames,
                   DecisionInv, Known
        <3>2. ~GivingBack(w, r)
            BY <2>6, <3>1, HrAlone DEF GivingBack, GivesBack, HrCancelCommit
        <3>3. Sent(req[r]) => Sent(req'[r])
            BY <3>1, MovesKeep DEF Sent
        <3> QED BY <3>1, <3>2, <3>3, StepWeighs DEF KeepsWeight, Granting
    <2>7. /\ t.op = "edit" => \/ req'[t.r].status \in {"PENDING_VERIFY", "REVIEWING_HR"}
                              \/ Sent(req'[t.r])
          /\ t.op # "cancel"
        BY <2>4 DEF Undecided, Sent
    <2> QED BY <2>2, <2>5, <2>6, <2>7 DEF Undecided, Weighs, Sent
<1> QED BY <1>1, <1>2, <1>3 DEF Next

\* A balance row is its total less what weighs on it, as long as no form has sent
\* the status of a request of the employee.
Adding ==
    \A a \in Accounts :
        NoneTouched(a[1], {"status"}) =>
            /\ bal[a].remaining = bal[a].total - Totals(ChargedTo(a))
            /\ bal[a].used = bal[a].total - bal[a].remaining

\* The ledger, with its sums named.
LEMMA LedgerAdds == Ledger <=> Adding
BY DEF Ledger, Adding, Totals, TotalsOf

\* No row ever holds more than its total.
Capped == \A a \in Accounts : bal[a].remaining <= bal[a].total

LedgerInv == BaseInv /\ Undecided /\ Adding /\ Capped

\* A refund never reaches the cap of the row's total.
LEMMA RefundInFull ==
    ASSUME NEW balance \in Balance, NEW hours \in Int,
           balance.remaining + hours <= balance.total
    PROVE  /\ Refunded(balance, hours).total = balance.total
           /\ Refunded(balance, hours).remaining = balance.remaining + hours
           /\ Refunded(balance, hours).used = balance.total - (balance.remaining + hours)
<1> DEFINE total == balance.total
           back == balance.remaining + hours
           used == total - back
<1>0. total \in Int /\ back \in Int /\ used \in Nat
    BY DEF Balance
<1>1. Min({total, back}) = back
    <2> HIDE DEF total, back
    <2>1. \E x \in {total, back} : \A y \in {total, back} : x =< y
        BY <1>0
    <2> QED BY <1>0, <2>1 DEF Min, total, back
<1>2. Max({0, used}) = used
    <2> HIDE DEF used
    <2>1. \E x \in {0, used} : \A y \in {0, used} : x >= y
        BY <1>0
    <2> QED BY <1>0, <2>1 DEF Max
<1> DEFINE new == [balance EXCEPT !.used = used, !.remaining = back]
<1>3. Refunded(balance, hours) = new
    BY <1>1, <1>2 DEF Refunded
<1>4. new.total = total /\ new.remaining = back /\ new.used = used
    BY DEF Balance
<1> QED BY <1>3, <1>4

\* Whatever is given back, the cap holds and nothing is taken.
LEMMA RefundCapped ==
    ASSUME NEW balance \in Balance, NEW hours \in Nat, balance.remaining <= balance.total
    PROVE  /\ Refunded(balance, hours).total = balance.total
           /\ Refunded(balance, hours).remaining <= balance.total
           /\ Refunded(balance, hours).remaining >= balance.remaining
           /\ Refunded(balance, hours).remaining <= balance.remaining + hours
<1>0. balance.total \in Int /\ balance.remaining \in Int
    BY DEF Balance
<1>1. CASE balance.remaining + hours <= balance.total
    BY <1>0, <1>1, RefundInFull
<1>2. CASE balance.remaining + hours > balance.total
    <2> DEFINE total == balance.total
               back == balance.remaining + hours
               used == Max({0, total - total})
               new == [balance EXCEPT !.used = used, !.remaining = total]
    <2>1. Min({total, back}) = total
        <3> HIDE DEF total, back
        <3>1. total \in Int /\ back \in Int /\ total < back
            BY <1>0, <1>2 DEF total, back
        <3>2. \E x \in {total, back} : \A y \in {total, back} : x =< y
            BY <3>1
        <3> QED BY <3>1, <3>2 DEF Min
    <2>2. Refunded(balance, hours) = new
        BY <2>1 DEF Refunded
    <2>3. new.total = total /\ new.remaining = total
        BY DEF Balance
    <2> HIDE DEF new
    <2> QED BY <1>0, <1>2, <2>2, <2>3
<1> QED BY <1>0, <1>1, <1>2

\* What a request weighs on an account.
Weight(row, a) == IF Weighs(row) /\ AccountOf(row) = a THEN row.total ELSE 0

\* What the request weighs on the account stays.
KeepsOn(old, new, a) ==
    /\ Weighs(new) /\ AccountOf(new) = a <=> Weighs(old) /\ AccountOf(old) = a
    /\ Weighs(old) /\ AccountOf(old) = a => new.total = old.total

\* When the other requests keep their weight, an account's charges change by the
\* weight of the one.
LEMMA ChargesChange ==
    ASSUME BaseInv, BaseInv', NEW CONSTANT a, NEW CONSTANT r \in Requests,
           \A x \in Requests \ {r} : KeepsOn(req[x], req'[x], a)
    PROVE  \E rest \in Nat :
               /\ Totals(ChargedTo(a)) = Weight(req[r], a) + rest
               /\ Totals(ChargedTo(a))' = Weight(req'[r], a) + rest
<1> DEFINE f == [x \in Requests |-> req[x].total]
           g == [x \in Requests |-> req'[x].total]
           S == ChargedTo(a)
           T == S \ {r}
<1>0. /\ \A x \in Requests : req[x] \in Row /\ req'[x] \in Row
      /\ \A x \in Requests : Weighs(req[x]) => req[x].total \in Nat
      /\ \A x \in Requests : Weighs(req'[x]) => req'[x].total \in Nat
      /\ \A x \in Requests : f[x] = req[x].total /\ g[x] = req'[x].total
    <2>1. /\ \A x \in Requests : req[x] \in Row /\ req'[x] \in Row
          /\ \A x \in Requests : SaneRow(req[x]) /\ SaneRow(req'[x])
        BY DEF BaseInv, TypeInv, TypeOK, SaneInv
    <2>2. ASSUME NEW row \in Row, SaneRow(row), Weighs(row) PROVE row.total \in Nat
        BY <2>2 DEF SaneRow, Weighs, Filed, Row
    <2> QED BY <2>1, <2>2
<1>1. S \in SUBSET Requests /\ S' \in SUBSET Requests /\ IsFiniteSet(Requests)
    BY StoreAssumption DEF ChargedTo
<1>2. \A x \in Requests :
          /\ x \in S <=> Weighs(req[x]) /\ AccountOf(req[x]) = a
          /\ x \in S' <=> Weighs(req'[x]) /\ AccountOf(req'[x]) = a
    BY DEF ChargedTo, Weighs
<1>3. S' \ {r} = T /\ \A x \in T : req'[x].total = req[x].total
    BY <1>1, <1>2 DEF KeepsOn
<1>4. /\ Totals(S) = Sum(f, S)
      /\ Totals(S)' = Sum(g, S')
    <2>1. Totals(S)' = TotalsOf(req', S')
        BY DEF Totals
    <2> QED BY <1>1, <2>1, RowSums DEF Totals
<1> HIDE DEF S
<1>5. \A x \in S : f[x] \in Nat
    BY <1>0, <1>1, <1>2
<1>6. \A x \in S' : g[x] \in Nat
    BY <1>0, <1>1, <1>2
<1>7. \A x \in S \ {r} : f[x] = g[x]
    BY <1>0, <1>1, <1>3
<1>8. /\ (IF r \in S THEN f[r] ELSE 0) = Weight(req[r], a)
      /\ (IF r \in S' THEN g[r] ELSE 0) = Weight(req'[r], a)
    BY <1>0, <1>2 DEF Weight
<1> HIDE DEF f, g
<1>9. IsFiniteSet(S) /\ IsFiniteSet(S') /\ IsFiniteSet(S \ {r})
    BY <1>1, FS_Subset
<1>10. /\ Sum(f, S \ {r}) \in Nat
       /\ Sum(f, S) = (IF r \in S THEN f[r] ELSE 0) + Sum(f, S \ {r})
    BY <1>5, <1>9, SumWithout
<1>11. Sum(g, S') = (IF r \in S' THEN g[r] ELSE 0) + Sum(g, S' \ {r})
    BY <1>6, <1>9, SumWithout
<1>12. Sum(f, S \ {r}) = Sum(g, S' \ {r})
    <2> HIDE DEF T
    <2>1. Sum(f, T) = Sum(g, T)
        <3>1. \A x \in T : f[x] = g[x]
            BY <1>7 DEF T
        <3>2. IsFiniteSet(T)
            BY <1>9 DEF T
        <3> QED BY <3>1, <3>2, SumSame
    <2> QED BY <1>3, <2>1 DEF T
<1> QED BY <1>4, <1>8, <1>10, <1>11, <1>12 DEF S

\* When all keep their weight, no charge changes.
LEMMA ChargesKept ==
    ASSUME BaseInv, BaseInv', NEW CONSTANT a,
           \A x \in Requests : KeepsOn(req[x], req'[x], a)
    PROVE  Totals(ChargedTo(a))' = Totals(ChargedTo(a))
<1>1. CASE Requests = {}
    <2>1. ChargedTo(a) = {} /\ ChargedTo(a)' = {}
        BY <1>1 DEF ChargedTo
    <2>2. \A rows : TotalsOf(rows, {}) = 0
        <3> SUFFICES ASSUME NEW rows PROVE TotalsOf(rows, {}) = 0
            OBVIOUS
        <3>1. TotalsOf(rows, {}) = Sum([r \in Requests |-> rows[r].total], {})
            BY RowSums
        <3> QED BY <1>1, <3>1, FS_EmptySet, SumAt
    <2> QED BY <2>1, <2>2 DEF Totals
<1>2. ASSUME NEW CONSTANT r \in Requests PROVE Totals(ChargedTo(a))' = Totals(ChargedTo(a))
    <2>1. \A x \in Requests \ {r} : KeepsOn(req[x], req'[x], a)
        OBVIOUS
    <2>2. PICK rest \in Nat : /\ Totals(ChargedTo(a)) = Weight(req[r], a) + rest
                              /\ Totals(ChargedTo(a))' = Weight(req'[r], a) + rest
        BY <2>1, ChargesChange
    <2>3. Weight(req'[r], a) = Weight(req[r], a)
        BY DEF KeepsOn, Weight
    <2> QED BY <2>2, <2>3
<1> QED BY <1>1, <1>2

\* The balance rows move with the grants and the cancellations, in full.
LEMMA StepBalances ==
    ASSUME DecisionsApart, LedgerInv, NEW w \in Workers, Step(w) \/ Fail(w)
    PROVE  LET t == task[w] IN
           \/ UNCHANGED bal /\ ~Grants(w) /\ ~GivesBack(w)
           \/ /\ Grants(w) \/ GivesBack(w)
              /\ AccountOf(t.seen) \notin Accounts /\ UNCHANGED bal
           \/ /\ Grants(w) /\ AccountOf(t.seen) \in Accounts
              /\ t.seen.total <= bal[AccountOf(t.seen)].remaining
              /\ bal' = [bal EXCEPT ![AccountOf(t.seen)]
                           = Deducted(bal[AccountOf(t.seen)], t.seen.total)]
           \/ /\ GivesBack(w) /\ AccountOf(t.seen) \in Accounts
              /\ bal' = [bal EXCEPT ![AccountOf(t.seen)]
                           = Refunded(bal[AccountOf(t.seen)], t.seen.total)]
<1> DEFINE t == task[w]
           a == AccountOf(t.seen)
<1>0. bal \in [Accounts -> Balance] /\ None \notin Balance
    BY StoreAssumption DEF LedgerInv, BaseInv, TypeInv, TypeOK
<1>1. t.phase = "tx" /\ t.op \in Deciders => t.balance = BalanceOf(t.seen)
    BY FreshNow DEF LedgerInv, FreshBalance, DecisionsApart
<1>2. CASE Commit(w)
    <2>1. t.phase = "tx" /\ t.op \in Deciders /\ ~GivesBack(w)
        BY <1>2 DEF Commit, Deciders, GivesBack, HrCancelCommit
    <2>2. CASE ~Grants(w)
        BY <1>2, <2>1, <2>2 DEF Commit, Charges, Grants
    <2>3. CASE Grants(w) /\ a \notin Accounts
        <3>1. t.balance = None
            BY <1>1, <2>1, <2>3 DEF BalanceOf
        <3> QED BY <1>2, <2>3, <3>1 DEF Commit, Charges
    <2>4. CASE Grants(w) /\ a \in Accounts
        <3>1. t.balance = bal[a] /\ t.balance # None
            BY <1>0, <1>1, <2>1, <2>4 DEF BalanceOf
        <3>2. Charges(t)
            BY <2>4, <3>1 DEF Charges, Grants
        <3> QED BY <1>2, <2>4, <3>1, <3>2 DEF Commit
    <2> QED BY <2>2, <2>3, <2>4
<1>3. CASE HrCancelCommit(w)
    <2>1. t.phase = "tx" /\ t.op \in Deciders /\ ~Grants(w)
        BY <1>3 DEF HrCancelCommit, Deciders, Grants, Commit
    <2>2. CASE ~GivesBack(w)
        BY <1>3, <2>1, <2>2 DEF HrCancelCommit, GivesBack
    <2>3. CASE GivesBack(w) /\ a \notin Accounts
        <3>1. t.balance = None
            BY <1>1, <2>1, <2>3 DEF BalanceOf
        <3> QED BY <1>3, <2>3, <3>1 DEF HrCancelCommit
    <2>4. CASE GivesBack(w) /\ a \in Accounts
        <3>1. t.balance = bal[a] /\ t.balance # None
            BY <1>0, <1>1, <2>1, <2>4 DEF BalanceOf
        <3> QED BY <1>3, <2>4, <3>1 DEF HrCancelCommit, GivesBack
    <2> QED BY <2>2, <2>3, <2>4
<1>4. CASE ~Commit(w) /\ ~HrCancelCommit(w)
    BY <1>4 DEF Grants, GivesBack, Step, EmployeeStep, HrStep, ApproverStep, CreatePlan,
                CreateCode, CreateInsert, EditPlan, EditWrite, CancelWrite, ViewAcquire,
                HrAcquire, HrDecide, HrCancelBegin, Claim, Rollback, Fail
<1> QED BY <1>2, <1>3, <1>4

\* The fields of a charged row.
LEMMA DeductedFields ==
    ASSUME NEW balance \in Balance, NEW hours \in Int
    PROVE  /\ Deducted(balance, hours).total = balance.total
           /\ Deducted(balance, hours).remaining = balance.remaining - hours
           /\ Deducted(balance, hours).used = balance.total - (balance.remaining - hours)
BY DEF Deducted, Balance

\* The leave that a decision charges or gives back has some hours.
LEMMA SeenHours ==
    ASSUME DecisionsApart, BaseInv, BaseInv', Undecided, NEW w \in Workers, Step(w) \/ Fail(w),
           Grants(w) \/ GivesBack(w)
    PROVE  /\ task[w].r \in Requests /\ task[w].seen.total \in Nat /\ task[w].seen.total > 0
           /\ Grants(w) => ~GivesBack(w) /\ Granting(w, task[w].r)
           /\ GivesBack(w) => ~Grants(w) /\ GivingBack(w, task[w].r)
<1> DEFINE r == task[w].r
<1>1. r \in Requests /\ ~(Grants(w) /\ GivesBack(w))
    BY DEF BaseInv, TypeInv, Ready, RowOps, OpNames, Grants, GivesBack, Commit, HrCancelCommit
<1>2. Granting(w, r) \/ GivingBack(w, r)
    BY <1>1, StepMoves, StepWeighs DEF BaseInv, OneMoves
<1>3. \A row \in Row : SaneRow(row) /\ Weighs(row) => row.total \in Nat /\ row.total > 0
    BY DEF SaneRow, Weighs, Filed, Row
<1>4. req[r] \in Row /\ req'[r] \in Row /\ SaneRow(req[r]) /\ SaneRow(req'[r])
    BY <1>1 DEF BaseInv, TypeInv, TypeOK, SaneInv
<1>5. task[w].seen.total \in Nat /\ task[w].seen.total > 0
    BY <1>2, <1>3, <1>4 DEF Granting, GivingBack
<1> QED BY <1>1, <1>2, <1>5 DEF Granting, GivingBack

\* A step leaves no row above its total.
LEMMA StepCaps ==
    ASSUME DecisionsApart, LedgerInv, BaseInv', NEW w \in Workers, Step(w) \/ Fail(w)
    PROVE  Capped'
<1> SUFFICES ASSUME NEW a \in Accounts PROVE bal'[a].remaining <= bal'[a].total
    BY DEF Capped
<1> DEFINE home == AccountOf(task[w].seen)
           hours == task[w].seen.total
<1>0. /\ bal \in [Accounts -> Balance] /\ bal[a] \in Balance
      /\ bal[a].total \in Int /\ bal[a].remaining \in Int
      /\ bal[a].remaining <= bal[a].total
    BY DEF LedgerInv, BaseInv, TypeInv, TypeOK, Capped, Balance
<1>1. Grants(w) \/ GivesBack(w) => hours \in Nat
    BY SeenHours DEF LedgerInv
<1>2. CASE bal'[a] = bal[a]
    BY <1>0, <1>2
<1>3. CASE Grants(w) /\ bal'[a] = Deducted(bal[a], hours)
    <2> HIDE DEF hours
    <2>1. /\ bal'[a].total = bal[a].total
          /\ bal'[a].remaining = bal[a].remaining - hours
        BY <1>0, <1>1, <1>3, DeductedFields
    <2> QED BY <1>0, <1>1, <1>3, <2>1
<1>4. CASE GivesBack(w) /\ bal'[a] = Refunded(bal[a], hours)
    <2> HIDE DEF hours
    <2> QED BY <1>0, <1>1, <1>4, RefundCapped
<1> QED BY <1>0, <1>2, <1>3, <1>4, StepBalances

\* A step keeps every balance row adding up.
LEMMA StepAdds ==
    ASSUME DecisionsApart, LedgerInv, BaseInv', NEW w \in Workers, Step(w) \/ Fail(w)
    PROVE  Adding'
<1> DEFINE t == task[w]
           home == AccountOf(t.seen)
<1>0. /\ \A r \in Requests : req[r] \in Row
      /\ bal \in [Accounts -> Balance] /\ t \in Task
      /\ t.seen \in Row
    BY DEF LedgerInv, BaseInv, TypeInv, TypeOK, Task
<1>2. SUFFICES ASSUME NEW CONSTANT a \in Accounts, NoneTouched(a[1], {"status"})'
               PROVE  /\ bal'[a].remaining = bal'[a].total - Totals(ChargedTo(a))'
                      /\ bal'[a].used = bal'[a].total - bal'[a].remaining
    BY DEF Adding
<1>1. \A r \in Requests :
          \/ KeepsOn(req[r], req'[r], a) /\ ~(r = t.r /\ (Grants(w) \/ GivesBack(w)))
          \/ Granting(w, r) \/ GivingBack(w, r)
    <2> SUFFICES ASSUME NEW r \in Requests, ~Granting(w, r), ~GivingBack(w, r)
                 PROVE  /\ KeepsOn(req[r], req'[r], a)
                        /\ ~(r = t.r /\ (Grants(w) \/ GivesBack(w)))
        OBVIOUS
    <2>1. /\ Moves(w, r)
          /\ KeepsWeight(req[r], req'[r]) \/ Sent(req'[r])
          /\ ~(r = t.r /\ (Grants(w) \/ GivesBack(w)))
        BY StepMoves, StepWeighs DEF LedgerInv, BaseInv, OneMoves
    <2>2. CASE KeepsWeight(req[r], req'[r])
        BY <2>1, <2>2 DEF KeepsWeight, KeepsOn
    <2>3. CASE Sent(req'[r])
        <3>1. ~(Weighs(req'[r]) /\ AccountOf(req'[r]) = a)
            BY <1>2, <2>3 DEF AccountOf, NoneTouched, Untouched, OwnedBy, Sent
        <3>2. ~(Weighs(req[r]) /\ AccountOf(req[r]) = a)
            <4> SUFFICES ASSUME Weighs(req[r]), req[r].owner = a[1] PROVE FALSE
                BY DEF AccountOf
            <4>1. req'[r].owner = a[1]
                BY <2>1, MovesKeep DEF LedgerInv, Weighs
            <4> QED BY <1>2, <2>3, <4>1 DEF NoneTouched, Untouched, OwnedBy, Sent
        <3> QED BY <2>1, <3>1, <3>2 DEF KeepsOn
    <2> QED BY <2>1, <2>2, <2>3
<1>9. NoneTouched(a[1], {"status"})
    BY <1>2, StoreAssumption, StepMoves, TouchedStays DEF LedgerInv, BaseInv
<1>3. /\ bal[a] \in Balance /\ bal[a].total \in Int /\ bal[a].remaining \in Int
      /\ bal[a].remaining = bal[a].total - Totals(ChargedTo(a))
      /\ bal[a].used = bal[a].total - bal[a].remaining
    BY <1>0, <1>9 DEF LedgerInv, Adding, Balance
<1>4. CASE ~Grants(w) /\ ~GivesBack(w)
    <2>1. \A r \in Requests : KeepsOn(req[r], req'[r], a)
        BY <1>1, <1>4 DEF Granting, GivingBack
    <2>2. Totals(ChargedTo(a))' = Totals(ChargedTo(a))
        BY <2>1, ChargesKept DEF LedgerInv
    <2>3. UNCHANGED bal
        BY <1>4, StepBalances
    <2> QED BY <1>3, <2>2, <2>3
<1>5. CASE Grants(w)
    <2>1. t.r \in Requests /\ ~GivesBack(w)
        BY <1>5 DEF LedgerInv, BaseInv, TypeInv, Ready, RowOps, OpNames, Grants, GivesBack,
                    Commit, HrCancelCommit
    <2>2. Granting(w, t.r) /\ \A r \in Requests \ {t.r} : KeepsOn(req[r], req'[r], a)
        BY <1>1, <1>5, <2>1 DEF Granting, GivingBack
    <2>3. PICK rest \in Nat : /\ Totals(ChargedTo(a)) = Weight(req[t.r], a) + rest
                              /\ Totals(ChargedTo(a))' = Weight(req'[t.r], a) + rest
        BY <2>1, <2>2, ChargesChange DEF LedgerInv
    <2>4. Weight(req[t.r], a) = 0
        BY <2>2 DEF Granting, Weight
    <2>5. Weight(req'[t.r], a) = IF a = home THEN t.seen.total ELSE 0
        BY <2>2 DEF Granting, Weight
    <2>6. t.seen.total \in Int
        BY <1>0 DEF Row
    <2>7. CASE a = home
        <3>1. bal'[a] = Deducted(bal[a], t.seen.total)
            BY <1>0, <1>5, <2>1, <2>7, StepBalances
        <3>2. /\ bal'[a].total = bal[a].total
              /\ bal'[a].remaining = bal[a].remaining - t.seen.total
              /\ bal'[a].used = bal[a].total - (bal[a].remaining - t.seen.total)
            BY <1>3, <2>6, <3>1, DeductedFields
        <3>3. Totals(ChargedTo(a)) = rest /\ Totals(ChargedTo(a))' = t.seen.total + rest
            BY <2>3, <2>4, <2>5, <2>7
        <3> HIDE DEF home, t
        <3> QED BY <1>3, <2>6, <3>2, <3>3
    <2>8. CASE a # home
        <3>1. bal'[a] = bal[a]
            BY <1>0, <1>5, <2>1, <2>8, StepBalances
        <3>2. Totals(ChargedTo(a))' = Totals(ChargedTo(a))
            BY <2>3, <2>4, <2>5, <2>8
        <3> QED BY <1>3, <3>1, <3>2
    <2> QED BY <2>7, <2>8
<1>6. CASE GivesBack(w)
    <2>1. t.r \in Requests /\ ~Grants(w)
        BY <1>6 DEF LedgerInv, BaseInv, TypeInv, Ready, RowOps, OpNames, Grants, GivesBack,
                    Commit, HrCancelCommit
    <2>2. GivingBack(w, t.r) /\ \A r \in Requests \ {t.r} : KeepsOn(req[r], req'[r], a)
        BY <1>1, <1>6, <2>1 DEF Granting, GivingBack
    <2>3. PICK rest \in Nat : /\ Totals(ChargedTo(a)) = Weight(req[t.r], a) + rest
                              /\ Totals(ChargedTo(a))' = Weight(req'[t.r], a) + rest
        BY <2>1, <2>2, ChargesChange DEF LedgerInv
    <2>4. Weight(req'[t.r], a) = 0
        BY <2>2 DEF GivingBack, Weight
    <2>5. Weight(req[t.r], a) = IF a = home THEN t.seen.total ELSE 0
        BY <2>2 DEF GivingBack, Weight
    <2>6. t.seen.total \in Int
        BY <1>0 DEF Row
    <2>7. CASE a = home
        <3>1. bal'[a] = Refunded(bal[a], t.seen.total)
            BY <1>0, <1>6, <2>1, <2>7, StepBalances
        <3>2. Totals(ChargedTo(a)) = t.seen.total + rest /\ Totals(ChargedTo(a))' = rest
            BY <2>3, <2>4, <2>5, <2>7
        <3>3. bal[a].remaining + t.seen.total <= bal[a].total
            <4> HIDE DEF home, t
            <4> QED BY <1>3, <2>6, <3>2
        <3>4. /\ bal'[a].total = bal[a].total
              /\ bal'[a].remaining = bal[a].remaining + t.seen.total
              /\ bal'[a].used = bal[a].total - (bal[a].remaining + t.seen.total)
            BY <1>3, <2>6, <3>1, <3>3, RefundInFull
        <3> HIDE DEF home, t
        <3> QED BY <1>3, <2>6, <3>2, <3>4
    <2>8. CASE a # home
        <3>1. bal'[a] = bal[a]
            BY <1>0, <1>6, <2>1, <2>8, StepBalances
        <3>2. Totals(ChargedTo(a))' = Totals(ChargedTo(a))
            BY <2>3, <2>4, <2>5, <2>8
        <3> QED BY <1>3, <3>1, <3>2
    <2> QED BY <2>7, <2>8
<1> QED BY <1>4, <1>5, <1>6

\* Every step of the system does.
LEMMA NextLedger == DecisionsApart => (LedgerInv /\ [Next]_vars => LedgerInv')
<1> SUFFICES ASSUME DecisionsApart, LedgerInv, [Next]_vars PROVE LedgerInv'
    OBVIOUS
<1>0. BaseInv' /\ Undecided'
    BY NextBase, NextUndecided DEF LedgerInv
<1>1. ASSUME UNCHANGED <<req, bal>> PROVE Adding' /\ Capped'
    <2>0. \A user : NoneTouched(user, {"status"})' <=> NoneTouched(user, {"status"})
        BY <1>1 DEF NoneTouched, Untouched, OwnedBy
    <2>1. \A a : ChargedTo(a)' = ChargedTo(a)
        BY <1>1 DEF ChargedTo
    <2>2. \A a : Totals(ChargedTo(a))' = Totals(ChargedTo(a))
        <3>1. \A a : Totals(ChargedTo(a))' = TotalsOf(req', ChargedTo(a)')
            BY DEF Totals
        <3> QED BY <1>1, <2>1, <3>1 DEF Totals
    <2> QED BY <1>1, <2>0, <2>2 DEF LedgerInv, Adding, Capped
<1>2. CASE UNCHANGED vars \/ Midnight
    BY <1>0, <1>1, <1>2 DEF vars, Midnight, LedgerInv
<1>3. ASSUME NEW w \in Workers, Call(w) PROVE LedgerInv'
    <2>1. UNCHANGED <<req, bal>>
        BY <1>3, CallStarts DEF LedgerInv, BaseInv
    <2> QED BY <1>0, <1>1, <2>1 DEF LedgerInv
<1>4. ASSUME NEW w \in Workers, Step(w) \/ Fail(w) PROVE LedgerInv'
    BY <1>0, <1>4, StepAdds, StepCaps DEF LedgerInv
<1> QED BY <1>2, <1>3, <1>4 DEF Next

\* The balances add up at the start.
LEMMA InitLedger == Init => LedgerInv
<1> SUFFICES ASSUME Init PROVE LedgerInv
    OBVIOUS
<1>1. BaseInv
    BY InitBase
<1>2. Undecided
    BY DEF Init, StoreInit, Undecided, Idle
<1>3. ASSUME NEW a \in Accounts PROVE Totals(ChargedTo(a)) = 0
    <2>1. ChargedTo(a) = {}
        BY DEF Init, StoreInit, ChargedTo, NoRow
    <2>2. Totals({}) = Sum([r \in Requests |-> req[r].total], {})
        BY RowSums DEF Totals
    <2>3. Sum([r \in Requests |-> req[r].total], {}) = 0
        BY FS_EmptySet, SumAt
    <2> QED BY <2>1, <2>2, <2>3
<1>4. Adding /\ Capped
    <2> SUFFICES ASSUME NEW a \in Accounts
                 PROVE  /\ bal[a].remaining = bal[a].total - Totals(ChargedTo(a))
                        /\ bal[a].used = bal[a].total - bal[a].remaining
                        /\ bal[a].remaining <= bal[a].total
        BY DEF Adding, Capped
    <2>1. Quota[a] \in Nat
        BY StoreAssumption
    <2>2. bal[a].total = Quota[a] /\ bal[a].used = 0 /\ bal[a].remaining = Quota[a]
        BY DEF Init, StoreInit
    <2> QED BY <1>3, <2>1, <2>2
<1> QED BY <1>1, <1>2, <1>4 DEF LedgerInv

\* When no two decisions on one employee's leave overlap, and none overlaps with
\* her filing, editing or cancelling, every balance row of an employee whose status
\* no form has sent is its total less the leaves granted on it: each is charged
\* once, and given back once, in full.
THEOREM LedgerHolds == DecisionsApart => (Spec => []Ledger)
<1> SUFFICES ASSUME DecisionsApart PROVE Spec => []Ledger
    OBVIOUS
<1>1. LedgerInv => Ledger
    BY LedgerAdds DEF LedgerInv
<1> QED BY <1>1, InitLedger, NextLedger, PTL DEF Spec

-----------------------------------------------------------------------------
(* Filing, editing and HR's decisions are kept apart: what is paid. *)

\* What a request adds to the hours that are paid, or that are reserved.
PaidIn(row, user, type) ==
    IF /\ row.owner = user /\ row.type = type /\ row.status \in LiveStatuses
       /\ StartYear(row) >= ThisYear
    THEN row.paid ELSE 0

ReservedIn(row, user, type) ==
    IF /\ row.owner = user /\ row.type = type /\ row.status \in PendingStatuses
       /\ StartYear(row) >= ThisYear
    THEN row.total ELSE 0

\* When the other requests stay as they are, what is paid changes by what the one
\* adds to it.
LEMMA PaidChange ==
    ASSUME BaseInv, BaseInv', today' = today,
           NEW CONSTANT user, NEW CONSTANT type, NEW CONSTANT r \in Requests,
           \A x \in Requests \ {r} : req'[x] = req[x]
    PROVE  \E rest \in Nat :
               /\ Paid(PaidFor(user, type, {})) = PaidIn(req[r], user, type) + rest
               /\ Paid(PaidFor(user, type, {r})) = rest
               /\ Paid(PaidFor(user, type, {}))' = PaidIn(req'[r], user, type) + rest
<1> DEFINE f == [x \in Requests |-> req[x].paid]
           g == [x \in Requests |-> req'[x].paid]
           S == PaidFor(user, type, {})
           T == PaidFor(user, type, {r})
<1>0. /\ \A x \in Requests : req[x].status \in LiveStatuses => req[x].paid \in Nat
      /\ \A x \in Requests : req'[x].status \in LiveStatuses => req'[x].paid \in Nat
      /\ \A x \in Requests : f[x] = req[x].paid /\ g[x] = req'[x].paid
    <2>1. /\ \A x \in Requests : req[x] \in Row /\ req'[x] \in Row
          /\ \A x \in Requests : SaneRow(req[x]) /\ SaneRow(req'[x])
        BY DEF BaseInv, TypeInv, TypeOK, SaneInv
    <2>2. ASSUME NEW row \in Row, SaneRow(row), row.status \in LiveStatuses
          PROVE  row.paid \in Nat
        BY <2>2 DEF SaneRow, LiveStatuses, PendingStatuses, Filed, Row
    <2> QED BY <2>1, <2>2
<1>1. S \in SUBSET Requests /\ S' \in SUBSET Requests /\ IsFiniteSet(Requests)
    BY StoreAssumption DEF PaidFor, OwnedBy
<1>2. /\ \A x \in Requests :
            x \in S <=> /\ req[x].owner = user /\ req[x].type = type
                        /\ req[x].status \in LiveStatuses /\ StartYear(req[x]) >= ThisYear
      /\ \A x \in Requests :
            x \in S' <=> /\ req'[x].owner = user /\ req'[x].type = type
                         /\ req'[x].status \in LiveStatuses /\ StartYear(req'[x]) >= ThisYear
      /\ T = S \ {r}
    BY DEF PaidFor, OwnedBy, ThisYear
<1>3. S' \ {r} = T /\ \A x \in T : req'[x].paid = req[x].paid
    BY <1>1, <1>2
<1>4. /\ Paid(S) = Sum(f, S) /\ Paid(T) = Sum(f, T)
      /\ Paid(S)' = Sum(g, S')
    <2>1. Paid(S)' = PaidOf(req', S')
        BY DEF Paid
    <2>2. T \in SUBSET Requests
        BY <1>1, <1>2
    <2> HIDE DEF S, T
    <2> QED BY <1>1, <2>1, <2>2, RowSums DEF Paid
<1> HIDE DEF S, T
<1>5. \A x \in S : f[x] \in Nat
    BY <1>0, <1>1, <1>2
<1>6. \A x \in S' : g[x] \in Nat
    BY <1>0, <1>1, <1>2
<1>7. \A x \in T : f[x] = g[x]
    BY <1>0, <1>1, <1>2, <1>3
<1>8. /\ (IF r \in S THEN f[r] ELSE 0) = PaidIn(req[r], user, type)
      /\ (IF r \in S' THEN g[r] ELSE 0) = PaidIn(req'[r], user, type)
    BY <1>0, <1>2 DEF PaidIn
<1> HIDE DEF f, g
<1>9. IsFiniteSet(S) /\ IsFiniteSet(S') /\ IsFiniteSet(T)
    BY <1>1, <1>2, FS_Subset
<1>10. Sum(f, T) \in Nat /\ Sum(f, S) = (IF r \in S THEN f[r] ELSE 0) + Sum(f, T)
    <2>1. /\ Sum(f, S \ {r}) \in Nat
          /\ Sum(f, S) = (IF r \in S THEN f[r] ELSE 0) + Sum(f, S \ {r})
        BY <1>5, <1>9, SumWithout
    <2>2. S \ {r} = T
        BY <1>2
    <2> QED BY <2>1, <2>2
<1>11. Sum(g, S') = (IF r \in S' THEN g[r] ELSE 0) + Sum(g, T)
    <2>1. Sum(g, S') = (IF r \in S' THEN g[r] ELSE 0) + Sum(g, S' \ {r})
        BY <1>6, <1>9, SumWithout
    <2>2. S' \ {r} = T
        BY <1>3
    <2> QED BY <2>1, <2>2
<1>12. Sum(f, T) = Sum(g, T)
    BY <1>7, <1>9, SumSame
<1> QED BY <1>4, <1>8, <1>10, <1>11, <1>12 DEF S, T

\* The same of what is reserved.
LEMMA ReservedChange ==
    ASSUME BaseInv, BaseInv', today' = today,
           NEW CONSTANT user, NEW CONSTANT type, NEW CONSTANT r \in Requests,
           \A x \in Requests \ {r} : req'[x] = req[x]
    PROVE  \E rest \in Nat :
               /\ Totals(Reserving(user, type, {})) = ReservedIn(req[r], user, type) + rest
               /\ Totals(Reserving(user, type, {r})) = rest
               /\ Totals(Reserving(user, type, {}))' = ReservedIn(req'[r], user, type) + rest
<1> DEFINE f == [x \in Requests |-> req[x].total]
           g == [x \in Requests |-> req'[x].total]
           S == Reserving(user, type, {})
           T == Reserving(user, type, {r})
<1>0. /\ \A x \in Requests : req[x].status \in PendingStatuses => req[x].total \in Nat
      /\ \A x \in Requests : req'[x].status \in PendingStatuses => req'[x].total \in Nat
      /\ \A x \in Requests : f[x] = req[x].total /\ g[x] = req'[x].total
    <2>1. /\ \A x \in Requests : req[x] \in Row /\ req'[x] \in Row
          /\ \A x \in Requests : SaneRow(req[x]) /\ SaneRow(req'[x])
        BY DEF BaseInv, TypeInv, TypeOK, SaneInv
    <2>2. ASSUME NEW row \in Row, SaneRow(row), row.status \in PendingStatuses
          PROVE  row.total \in Nat
        BY <2>2 DEF SaneRow, PendingStatuses, Filed, Row
    <2> QED BY <2>1, <2>2
<1>1. S \in SUBSET Requests /\ S' \in SUBSET Requests /\ IsFiniteSet(Requests)
    BY StoreAssumption DEF Reserving, OwnedBy
<1>2. /\ \A x \in Requests :
            x \in S <=> /\ req[x].owner = user /\ req[x].type = type
                        /\ req[x].status \in PendingStatuses /\ StartYear(req[x]) >= ThisYear
      /\ \A x \in Requests :
            x \in S' <=> /\ req'[x].owner = user /\ req'[x].type = type
                         /\ req'[x].status \in PendingStatuses
                         /\ StartYear(req'[x]) >= ThisYear
      /\ T = S \ {r}
    BY DEF Reserving, OwnedBy, ThisYear
<1>3. S' \ {r} = T /\ \A x \in T : req'[x].total = req[x].total
    BY <1>1, <1>2
<1>4. /\ Totals(S) = Sum(f, S) /\ Totals(T) = Sum(f, T)
      /\ Totals(S)' = Sum(g, S')
    <2>1. Totals(S)' = TotalsOf(req', S')
        BY DEF Totals
    <2>2. T \in SUBSET Requests
        BY <1>1, <1>2
    <2> HIDE DEF S, T
    <2> QED BY <1>1, <2>1, <2>2, RowSums DEF Totals
<1> HIDE DEF S, T
<1>5. \A x \in S : f[x] \in Nat
    BY <1>0, <1>1, <1>2
<1>6. \A x \in S' : g[x] \in Nat
    BY <1>0, <1>1, <1>2
<1>7. \A x \in T : f[x] = g[x]
    BY <1>0, <1>1, <1>2, <1>3
<1>8. /\ (IF r \in S THEN f[r] ELSE 0) = ReservedIn(req[r], user, type)
      /\ (IF r \in S' THEN g[r] ELSE 0) = ReservedIn(req'[r], user, type)
    BY <1>0, <1>2 DEF ReservedIn
<1> HIDE DEF f, g
<1>9. IsFiniteSet(S) /\ IsFiniteSet(S') /\ IsFiniteSet(T)
    BY <1>1, <1>2, FS_Subset
<1>10. Sum(f, T) \in Nat /\ Sum(f, S) = (IF r \in S THEN f[r] ELSE 0) + Sum(f, T)
    <2>1. /\ Sum(f, S \ {r}) \in Nat
          /\ Sum(f, S) = (IF r \in S THEN f[r] ELSE 0) + Sum(f, S \ {r})
        BY <1>5, <1>9, SumWithout
    <2>2. S \ {r} = T
        BY <1>2
    <2> QED BY <2>1, <2>2
<1>11. Sum(g, S') = (IF r \in S' THEN g[r] ELSE 0) + Sum(g, T)
    <2>1. Sum(g, S') = (IF r \in S' THEN g[r] ELSE 0) + Sum(g, S' \ {r})
        BY <1>6, <1>9, SumWithout
    <2>2. S' \ {r} = T
        BY <1>3
    <2> QED BY <2>1, <2>2
<1>12. Sum(f, T) = Sum(g, T)
    BY <1>7, <1>9, SumSame
<1> QED BY <1>4, <1>8, <1>10, <1>11, <1>12 DEF S, T

\* A step that changes no request changes neither.
LEMMA HoursKept ==
    ASSUME UNCHANGED <<req, today>>, NEW CONSTANT user, NEW CONSTANT type
    PROVE  /\ Paid(PaidFor(user, type, {}))' = Paid(PaidFor(user, type, {}))
           /\ Totals(Reserving(user, type, {}))' = Totals(Reserving(user, type, {}))
<1>1. ThisYear' = ThisYear
    BY DEF ThisYear
<1>2. /\ PaidFor(user, type, {})' = PaidFor(user, type, {})
      /\ Reserving(user, type, {})' = Reserving(user, type, {})
    BY <1>1 DEF PaidFor, Reserving, OwnedBy
<1>3. /\ Paid(PaidFor(user, type, {}))' = PaidOf(req', PaidFor(user, type, {})')
      /\ Totals(Reserving(user, type, {}))' = TotalsOf(req', Reserving(user, type, {})')
    BY DEF Paid, Totals
<1> QED BY <1>2, <1>3 DEF Paid, Totals

\* A step of a handler is within one day.
LEMMA SameDay == ASSUME NEW w \in Workers, Step(w) \/ Fail(w) PROVE today' = today
BY DEF Step, EmployeeStep, HrStep, ApproverStep, CreatePlan, CreateCode, CreateInsert,
       EditPlan, EditWrite, CancelWrite, ViewAcquire, HrAcquire, HrDecide, HrCancelBegin,
       HrCancelCommit, Claim, Commit, Rollback, Fail

\* It leaves every request as it was, or all but one.
LEMMA OneOrNone ==
    ASSUME BaseInv, BaseInv', NEW w \in Workers, OneMoves(w)
    PROVE  \/ UNCHANGED req
           \/ \E r \in Requests : Moves(w, r) /\ \A x \in Requests \ {r} : req'[x] = req[x]
<1>1. req \in [Requests -> Row] /\ req' \in [Requests -> Row]
    BY DEF BaseInv, TypeInv, TypeOK
<1>2. CASE \A r \in Requests : req'[r] = req[r]
    BY <1>1, <1>2
<1>3. ASSUME NEW r \in Requests, req'[r] # req[r]
      PROVE  Moves(w, r) /\ \A x \in Requests \ {r} : req'[x] = req[x]
    BY <1>3 DEF OneMoves
<1> QED BY <1>2, <1>3

FilingApart == {"create", "edit", "hr"} \subseteq Exclusive

PaidBelow ==
    \A user \in Users, type \in LeaveTypes :
        NoneTouched(user, {"type"}) /\ PaidCap[type] # None =>
            Paid(PaidFor(user, type, {})) <= PaidCap[type]

\* The cap on paid hours, with its sums named.
LEMMA PaidAdds == PaidWithinCap <=> PaidBelow
BY TheSums DEF PaidWithinCap, PaidBelow

PaidInv == LockInv /\ PaidBelow

\* What a plan pays for fits under the cap.
LEMMA PaidFits ==
    ASSUME NEW t, NEW owner, NEW type \in LeaveTypes, NEW except, PaidCap[type] # None,
           t.ask \in Ask, Paid(PaidFor(owner, type, except)) \in Int,
           Paid(PaidFor(owner, type, except)) <= PaidCap[type]
    PROVE  PlannedRow(t, owner, type, except).paid
             <= PaidCap[type] - Paid(PaidFor(owner, type, except))
<1> DEFINE days == PlanDays(t.ask, Occupied(owner, except), EveryDay(owner, type))
           hours == RequestHours(t.ask, days, EveryDay(owner, type))
           used == Paid(PaidFor(owner, type, except))
           room == PaidCap[type] - used
<1>1. hours \in Int
    BY HoursType
<1>2. PlannedRow(t, owner, type, except).paid = PaidHours(owner, type, hours, except)
    BY PlanFields
<1>3. PaidUsed(owner, type, except) = used
    BY TheSums
<1> HIDE DEF hours, used
<1>4. PaidCap[type] \in Nat
    BY StoreAssumption
<1>5. room \in Nat
    BY <1>4 DEF used
<1>6. PaidHours(owner, type, hours, except) = Fitting(hours, room)
    BY <1>3 DEF PaidHours
<1> HIDE DEF room
<1>7. Fitting(hours, room) <= room
    BY <1>1, <1>5 DEF Fitting
<1> QED BY <1>2, <1>6, <1>7 DEF room, used

\* A step keeps the paid hours within the cap.
LEMMA StepPaid ==
    ASSUME FilingApart, PaidInv, BaseInv', NEW w \in Workers, Step(w) \/ Fail(w),
           NEW CONSTANT user \in Users, NEW CONSTANT type \in LeaveTypes, PaidCap[type] # None,
           NoneTouched(user, {"type"})'
    PROVE  Paid(PaidFor(user, type, {}))' <= PaidCap[type]
<1> DEFINE t == task[w]
           used == Paid(PaidFor(user, type, {}))
<1>9. NoneTouched(user, {"type"})
    BY StepMoves, TouchedStays DEF PaidInv, LockInv, BaseInv
<1>0. /\ today' = today /\ t \in Task /\ t.draft \in Row /\ SaneTask(t)
      /\ BaseInv /\ OneMoves(w) /\ EditHr
      /\ used <= PaidCap[type] /\ PaidCap[type] \in Nat
    BY <1>9, SameDay, StepMoves, StoreAssumption
       DEF PaidInv, PaidBelow, LockInv, BaseInv, TypeInv, TypeOK, Task, SaneInv, FilingApart,
           EditHr
<1>1. CASE UNCHANGED req
    <2>1. used' = used
        BY <1>0, <1>1, HoursKept
    <2> QED BY <1>0, <2>1
<1>2. ASSUME NEW CONSTANT r \in Requests, Moves(w, r),
             \A x \in Requests \ {r} : req'[x] = req[x]
      PROVE  used' <= PaidCap[type]
    <2> DEFINE old == req[r]
               new == req'[r]
    <2>1. PICK rest \in Nat : /\ used = PaidIn(old, user, type) + rest
                              /\ Paid(PaidFor(user, type, {r})) = rest
                              /\ used' = PaidIn(new, user, type) + rest
        BY <1>0, <1>2, PaidChange
    <2>2. /\ old \in Row /\ new \in Row /\ SaneRow(old) /\ SaneRow(new)
          /\ PaidIn(old, user, type) \in Nat /\ PaidIn(new, user, type) \in Nat
        <3>1. old \in Row /\ new \in Row /\ SaneRow(old) /\ SaneRow(new)
            BY <1>0 DEF BaseInv, TypeInv, TypeOK, SaneInv
        <3>2. ASSUME NEW row \in Row, SaneRow(row) PROVE PaidIn(row, user, type) \in Nat
            BY <3>2 DEF PaidIn, SaneRow, LiveStatuses, PendingStatuses, Filed, Row
        <3> QED BY <3>1, <3>2
    <2>3. CASE PaidIn(new, user, type) <= PaidIn(old, user, type)
        BY <1>0, <2>1, <2>2, <2>3
    <2>4. CASE PaidIn(new, user, type) = 0
        BY <2>2, <2>3, <2>4
    <2>5. rest <= PaidCap[type]
        BY <1>0, <2>1, <2>2
    <2> HIDE DEF used, old, new
    <2>6. CASE CreateInsert(w) /\ old.status = "NONE" /\ new = Inserted(t)
        <3>1. t.op = "create" /\ t.phase # "plan" /\ t.op \in Exclusive /\ t.phase = "insert"
            BY <2>6 DEF CreateInsert, FilingApart
        <3>2. /\ new.owner = t.user /\ new.type = t.draft.type /\ new.paid = t.draft.paid
            BY <1>0, <2>6, <3>1 DEF Inserted, Row, SaneTask
        <3>3. SamePlan(t.draft, PlannedRow(t, t.user, t.draft.type, {}))
            BY <1>0, <3>1, FreshNow DEF FreshPlan
        <3>4. CASE t.user = user /\ t.draft.type = type
            <4>1. used = rest
                BY <2>1, <2>6 DEF PaidIn, LiveStatuses, PendingStatuses, old
            <4>2. t.ask \in Ask
                BY <1>0, <3>1, StoreAssumption DEF SaneTask
            <4>3. PlannedRow(t, user, type, {}).paid <= PaidCap[type] - rest
                BY <2>5, <3>4, <4>1, <4>2, PaidFits DEF used
            <4>4. new.paid <= PaidCap[type] - rest
                BY <3>2, <3>3, <3>4, <4>3 DEF SamePlan
            <4>5. PaidIn(new, user, type) = new.paid \/ PaidIn(new, user, type) = 0
                BY DEF PaidIn
            <4>6. CASE PaidIn(new, user, type) = new.paid
                BY <1>0, <2>1, <2>2, <4>4, <4>6
            <4> QED BY <2>4, <4>5, <4>6
        <3>5. CASE ~(t.user = user /\ t.draft.type = type)
            BY <2>4, <3>2, <3>5 DEF PaidIn
        <3> QED BY <3>4, <3>5
    <2>7. CASE EditWrite(w) /\ r = t.r /\ new = Requeued(t, Rewritten(t, old))
        <3>1. t.op = "edit" /\ t.phase = "write" /\ t.op \in Exclusive
              /\ t.op \in RowOps \ {"hr"}
            BY <2>7 DEF EditWrite, FilingApart, RowOps, OpNames
        <3>2. /\ new.owner = old.owner /\ new.sent = old.sent \cup Supplied(t)
              /\ new.type = IF "type" \in Supplied(t) THEN t.extra.type ELSE old.type
            BY <1>0, <2>2, <2>7, EditedFields
        <3>7. old.owner = user => new.type = old.type
            <4>1. new.owner = user => "type" \notin new.sent
                BY DEF NoneTouched, Untouched, OwnedBy, new
            <4> QED BY <3>2, <4>1
        <3>3. old = t.seen /\ t.seen.status \in {"PENDING_VERIFY", "REVIEWING_HR"}
            BY <1>0, <2>7, <3>1, FreshNow DEF FreshRow, old
        <3>4. /\ t.ask = None => new.ask = old.ask /\ new.paid = old.paid
              /\ t.ask # None => new.paid = t.draft.paid
            BY <1>0, <2>2, <2>7, EditedFields
        <3>5. CASE t.ask = None
            <4>1. old.status \in LiveStatuses
                BY <3>3 DEF LiveStatuses, PendingStatuses
            <4>2. PaidIn(new, user, type) \in {PaidIn(old, user, type), 0}
                BY <3>2, <3>4, <3>5, <3>7, <4>1 DEF PaidIn, StartYear
            <4> QED BY <2>2, <2>3, <4>2
        <3>6. CASE t.ask # None
            <4>1. SamePlan(t.draft, PlannedRow(t, t.seen.owner, t.seen.type, {t.r}))
                BY <1>0, <3>1, <3>6, FreshNow DEF FreshPlan
            <4>2. CASE old.owner = user /\ old.type = type
                <5>1. t.ask \in Ask
                    BY <1>0, <3>1, <3>6, StoreAssumption DEF SaneTask
                <5>2. PlannedRow(t, user, type, {r}).paid <= PaidCap[type] - rest
                    BY <2>1, <2>5, <5>1, PaidFits
                <5>3. new.paid <= PaidCap[type] - rest
                    BY <2>7, <3>3, <3>4, <3>6, <4>1, <4>2, <5>2 DEF SamePlan
                <5>4. PaidIn(new, user, type) = new.paid \/ PaidIn(new, user, type) = 0
                    BY DEF PaidIn
                <5>5. CASE PaidIn(new, user, type) = new.paid
                    BY <1>0, <2>1, <2>2, <5>3, <5>5
                <5> QED BY <2>4, <5>4, <5>5
            <4>3. CASE ~(old.owner = user /\ old.type = type)
                BY <2>4, <3>2, <3>7, <4>3 DEF PaidIn
            <4> QED BY <4>2, <4>3
        <3> QED BY <3>5, <3>6
    <2>8. ASSUME NEW status, NEW reviewer, r = t.r, Decides(w, status, reviewer),
                 Restated(old, new, status, reviewer)
          PROVE  used' <= PaidCap[type]
        <3>1. /\ new.owner = old.owner /\ new.type = old.type /\ new.ask = old.ask
              /\ new.paid = old.paid
            BY <2>2, <2>8, RestatedFields
        <3>2. Advances(old, new)
            BY <1>0, StepAdvances DEF PaidInv, LockInv, old, new
        <3>3. old.status # "NONE"
            <4>1. t.op \in RowOps
                BY <2>8 DEF Decides, CancelWrite, ViewAcquire, HrAcquire, HrDecide,
                            HrCancelCommit, Commit, RowOps, OpNames
            <4> QED BY <1>0, <2>8, <4>1 DEF BaseInv, DecisionInv, Known, old
        <3>4. new.status \in LiveStatuses => old.status \in LiveStatuses
            BY <2>2, <3>2, <3>3 DEF Advances, LiveStatuses, PendingStatuses
        <3>5. PaidIn(new, user, type) \in {PaidIn(old, user, type), 0}
            BY <3>1, <3>4 DEF PaidIn, StartYear
        <3> QED BY <2>2, <2>3, <3>5
    <2>9. CASE new = old
        BY <2>2, <2>3, <2>9
    <2> QED BY <1>2, <2>6, <2>7, <2>8, <2>9 DEF Moves, old, new
<1> QED BY <1>0, <1>1, <1>2, OneOrNone

\* A new year can only make the hours fewer.
LEMMA MidnightHours ==
    ASSUME BaseInv, Midnight, NEW CONSTANT user, NEW CONSTANT type
    PROVE  /\ Paid(PaidFor(user, type, {})) \in Nat
           /\ Paid(PaidFor(user, type, {}))' <= Paid(PaidFor(user, type, {}))
           /\ Paid(PaidFor(user, type, {}))' \in Nat
<1> DEFINE f == [x \in Requests |-> req[x].paid]
           S == PaidFor(user, type, {})
<1>1. today \in Days /\ today' \in Days /\ today <= today' /\ UNCHANGED req
    BY PortionAssumption DEF BaseInv, TypeInv, TypeOK, Midnight
<1>2. ThisYear <= ThisYear' /\ ThisYear \in Int /\ ThisYear' \in Int
    BY <1>1, StoreAssumption DEF ThisYear
<1>3. S \in SUBSET Requests /\ IsFiniteSet(Requests)
    BY StoreAssumption DEF PaidFor, OwnedBy
<1>4. \A x \in Requests : x \in S =>
          /\ req[x].status \in LiveStatuses /\ req[x] \in Row /\ SaneRow(req[x])
    BY DEF PaidFor, OwnedBy, BaseInv, TypeInv, TypeOK, SaneInv
<1>5. \A x \in S : req[x].paid \in Nat /\ StartYear(req[x]) \in Int
    <2>1. ASSUME NEW row \in Row, SaneRow(row), row.status \in LiveStatuses
          PROVE  row.paid \in Nat /\ StartYear(row) \in Int
        <3>1. row.ask \in Ask /\ row.paid \in Nat
            BY <2>1, StoreAssumption DEF SaneRow, LiveStatuses, PendingStatuses, Filed, Row
        <3>2. row.ask.first \in Days
            BY <3>1 DEF Ask
        <3> QED BY <3>1, <3>2, StoreAssumption DEF StartYear
    <2> HIDE DEF S
    <2> QED BY <1>3, <1>4, <2>1
<1>6. S' \in SUBSET S
    <2>1. \A x \in Requests : /\ x \in S' => x \in S \/ ~(StartYear(req[x]) >= ThisYear)
                              /\ x \in S' => StartYear(req[x]) >= ThisYear'
        BY <1>1 DEF PaidFor, OwnedBy
    <2>2. S' \in SUBSET Requests
        BY DEF PaidFor, OwnedBy
    <2>3. ASSUME NEW x \in Requests, x \in S' PROVE StartYear(req[x]) \in Int
        <3>1. req[x].status \in LiveStatuses /\ req[x] \in Row /\ SaneRow(req[x])
            BY <1>1, <2>3 DEF PaidFor, OwnedBy, BaseInv, TypeInv, TypeOK, SaneInv
        <3>2. req[x].ask \in Ask
            BY <3>1, StoreAssumption DEF SaneRow, LiveStatuses, PendingStatuses, Filed
        <3>3. req[x].ask.first \in Days
            BY <3>2 DEF Ask
        <3> QED BY <3>3, StoreAssumption DEF StartYear
    <2> HIDE DEF S
    <2> QED BY <1>2, <2>1, <2>2, <2>3
<1>7. /\ Paid(S) = Sum(f, S) /\ Paid(S)' = Sum(f, S')
    <2>1. Paid(S)' = PaidOf(req', S')
        BY DEF Paid
    <2>2. S' \in SUBSET Requests
        BY <1>3, <1>6
    <2> HIDE DEF S
    <2> QED BY <1>1, <1>3, <2>1, <2>2, RowSums DEF Paid
<1>8. \A x \in S : f[x] \in Nat
    BY <1>3, <1>5
<1> HIDE DEF f, S
<1>9. IsFiniteSet(S) /\ S \in SUBSET S
    BY <1>3, FS_Subset
<1>10. Sum(f, S) \in Nat /\ Sum(f, S') \in Nat /\ Sum(f, S') <= Sum(f, S)
    BY <1>6, <1>8, <1>9, SumNat
<1> QED BY <1>7, <1>10 DEF S

\* Every step of the system does.
LEMMA NextPaid == FilingApart => (PaidInv /\ [Next]_vars => PaidInv')
<1> SUFFICES ASSUME FilingApart, PaidInv, [Next]_vars PROVE PaidInv'
    OBVIOUS
<1>0. LockInv' /\ BaseInv' /\ BaseInv
    BY NextLock DEF PaidInv, LockInv, FilingApart, EditHr
<1>1. SUFFICES ASSUME NEW CONSTANT user \in Users, NEW CONSTANT type \in LeaveTypes,
                      PaidCap[type] # None, NoneTouched(user, {"type"})'
               PROVE  Paid(PaidFor(user, type, {}))' <= PaidCap[type]
    BY <1>0 DEF PaidInv, PaidBelow
<1> DEFINE used == Paid(PaidFor(user, type, {}))
<1>2. UNCHANGED req => used <= PaidCap[type] /\ PaidCap[type] \in Nat
    <2>1. UNCHANGED req => NoneTouched(user, {"type"})
        BY <1>1 DEF NoneTouched, Untouched, OwnedBy
    <2> QED BY <1>1, <2>1, StoreAssumption DEF PaidInv, PaidBelow
<1>3. ASSUME UNCHANGED <<req, today>> PROVE used' <= PaidCap[type]
    <2>1. used' = used
        BY <1>3, HoursKept
    <2> QED BY <1>2, <1>3, <2>1
<1>4. CASE UNCHANGED vars
    BY <1>3, <1>4 DEF vars
<1>5. CASE Midnight
    <2>1. used \in Nat /\ used' \in Nat /\ used' <= used
        BY <1>0, <1>5, MidnightHours
    <2>2. used' <= PaidCap[type]
        <3>1. UNCHANGED req
            BY <1>5 DEF Midnight
        <3> HIDE DEF used
        <3> QED BY <1>2, <2>1, <3>1
    <2> QED BY <2>2
<1>6. ASSUME NEW w \in Workers, Call(w) PROVE used' <= PaidCap[type]
    <2>1. UNCHANGED <<req, today>>
        BY <1>0, <1>6, CallStarts DEF BaseInv
    <2> QED BY <1>3, <2>1
<1>7. ASSUME NEW w \in Workers, Step(w) \/ Fail(w) PROVE used' <= PaidCap[type]
    BY <1>0, <1>1, <1>7, StepPaid
<1> QED BY <1>4, <1>5, <1>6, <1>7 DEF Next

\* Nothing is paid at the start.
LEMMA InitPaid == Init => PaidInv
<1> SUFFICES ASSUME Init PROVE PaidInv
    OBVIOUS
<1>1. LockInv
    BY InitLock
<1>2. ASSUME NEW user \in Users, NEW type \in LeaveTypes, PaidCap[type] # None
      PROVE  Paid(PaidFor(user, type, {})) <= PaidCap[type]
    <2>1. PaidFor(user, type, {}) = {}
        BY DEF Init, StoreInit, PaidFor, OwnedBy, NoRow, LiveStatuses, PendingStatuses
    <2>2. Paid({}) = Sum([r \in Requests |-> req[r].paid], {})
        BY RowSums DEF Paid
    <2>3. Sum([r \in Requests |-> req[r].paid], {}) = 0
        BY FS_EmptySet, SumAt
    <2>4. PaidCap[type] \in Nat
        BY <1>2, StoreAssumption
    <2> QED BY <2>1, <2>2, <2>3, <2>4
<1> QED BY <1>1, <1>2 DEF PaidInv, PaidBelow

\* When filing, editing and HR's decisions never overlap with other operations on
\* the same employee, no more hours of a capped type are paid in a year than the
\* cap, whatever is filed, edited, refused and cancelled, to an employee whose
\* requests no edit has turned into requests of another type.
THEOREM PaidWithinCapHolds == FilingApart => (Spec => []PaidWithinCap)
<1> SUFFICES ASSUME FilingApart PROVE Spec => []PaidWithinCap
    OBVIOUS
<1>1. PaidInv => PaidWithinCap
    BY PaidAdds DEF PaidInv
<1> QED BY <1>1, InitPaid, NextPaid, PTL DEF Spec

-----------------------------------------------------------------------------
(* Decisions, filing and editing are kept apart: what is pending is covered. *)

\* One year: no balance row takes the place of another at midnight.
OneYearLong == \A day, later \in Days : YearOf[day] = YearOf[later]

ReservedBelow ==
    \A a \in Accounts :
        NoneTouched(a[1], {"total", "type"}) /\ a[3] = ThisYear =>
            Totals(Reserving(a[1], a[2], {})) <= bal[a].remaining

\* The reservation, with its sums named.
LEMMA ReservedAdds == Reserved <=> ReservedBelow
BY TheSums DEF Reserved, ReservedBelow

ReservedInv == LockInv /\ LedgerInv /\ ReservedBelow

\* What weighs on an account is never less than nothing.
LEMMA ChargesNat ==
    ASSUME BaseInv, NEW a
    PROVE  Totals(ChargedTo(a)) \in Nat
<1> DEFINE f == [x \in Requests |-> req[x].total]
           S == ChargedTo(a)
<1>1. S \in SUBSET Requests /\ IsFiniteSet(Requests)
    BY StoreAssumption DEF ChargedTo
<1>2. \A x \in S : f[x] \in Nat
    <2>1. \A x \in Requests : req[x] \in Row /\ SaneRow(req[x])
        BY DEF BaseInv, TypeInv, TypeOK, SaneInv
    <2>2. ASSUME NEW row \in Row, SaneRow(row), row.status # "NONE" PROVE row.total \in Nat
        BY <2>2 DEF SaneRow, Filed, Row
    <2> QED BY <2>1, <2>2 DEF ChargedTo
<1>3. Totals(S) = Sum(f, S)
    BY <1>1, RowSums DEF Totals
<1> HIDE DEF f, S
<1>4. IsFiniteSet(S) /\ S \in SUBSET S
    BY <1>1, FS_Subset
<1>5. Sum(f, S) \in Nat
    BY <1>2, <1>4, SumNat
<1> QED BY <1>3, <1>5 DEF S

\* A step takes hours from an account only to charge a grant.
LEMMA StepRemaining ==
    ASSUME DecisionsApart, LedgerInv, BaseInv', NEW w \in Workers, Step(w) \/ Fail(w),
           NEW a \in Accounts
    PROVE  \/ bal'[a].remaining >= bal[a].remaining
           \/ /\ Grants(w) /\ a = AccountOf(task[w].seen)
              /\ bal'[a].remaining = bal[a].remaining - task[w].seen.total
<1> DEFINE t == task[w]
<1>0. /\ bal \in [Accounts -> Balance] /\ bal[a] \in Balance
      /\ bal[a].remaining \in Int /\ bal[a].total \in Int
      /\ t.seen \in Row /\ t.seen.total \in Int
    BY DEF LedgerInv, BaseInv, TypeInv, TypeOK, Balance, Task, Row
<1>1. CASE UNCHANGED bal
    BY <1>0, <1>1
<1>2. CASE a # AccountOf(t.seen)
    <2>1. bal'[a] = bal[a]
        BY <1>0, <1>2, StepBalances
    <2> QED BY <1>0, <2>1
<1>3. CASE /\ Grants(w) /\ a = AccountOf(t.seen)
           /\ bal' = [bal EXCEPT ![AccountOf(t.seen)]
                        = Deducted(bal[AccountOf(t.seen)], t.seen.total)]
    <2>1. bal'[a] = Deducted(bal[a], t.seen.total)
        BY <1>0, <1>3
    <2>2. bal'[a].remaining = bal[a].remaining - t.seen.total
        BY <1>0, <2>1, DeductedFields
    <2> QED BY <1>3, <2>2
<1>4. CASE /\ GivesBack(w) /\ a = AccountOf(t.seen)
           /\ bal' = [bal EXCEPT ![AccountOf(t.seen)]
                        = Refunded(bal[AccountOf(t.seen)], t.seen.total)]
    <2>1. bal'[a] = Refunded(bal[a], t.seen.total)
        BY <1>0, <1>4
    <2>2. bal[a].remaining <= bal[a].total /\ t.seen.total \in Nat
        BY <1>4, SeenHours DEF LedgerInv, Capped
    <2> QED BY <1>0, <2>1, <2>2, RefundCapped
<1> QED BY <1>1, <1>2, <1>3, <1>4, StepBalances

\* What a plan reserves is covered.
LEMMA PlanCovered ==
    ASSUME NEW t, NEW owner, NEW type, NEW except, PlanAccepted(t, owner, type, except)
    PROVE  PlannedRow(t, owner, type, except).total
             <= t.balance.remaining - Totals(Reserving(owner, type, except))
BY TheSums DEF PlanAccepted

\* Nobody's request is reserved for more than its total.
LEMMA ReservedShare ==
    ASSUME NEW row \in Row, SaneRow(row), NEW user, NEW type
    PROVE  /\ ReservedIn(row, user, type) \in Nat
           /\ ReservedIn(row, user, type) \in {0, row.total}
BY DEF ReservedIn, SaneRow, PendingStatuses, Filed, Row

\* A step keeps what is pending covered: a grant takes its own hours from both
\* sides, a filing or an edit was planned against what is left, and no other step
\* adds to what is pending or takes from what remains.
LEMMA StepReserved ==
    ASSUME FilingApart, DecisionsApart, OneYearLong, ReservedInv, BaseInv',
           NEW w \in Workers, Step(w) \/ Fail(w),
           NEW CONSTANT a \in Accounts, a[3] = ThisYear, NoneTouched(a[1], {"total", "type"})'
    PROVE  Totals(Reserving(a[1], a[2], {}))' <= bal'[a].remaining
<1> DEFINE t == task[w]
           user == a[1]
           type == a[2]
           pending == Totals(Reserving(user, type, {}))
           left == bal[a].remaining
<1>0. /\ today' = today /\ t \in Task /\ t.draft \in Row /\ t.seen \in Row /\ SaneTask(t)
      /\ BaseInv /\ OneMoves(w) /\ EditHr
      /\ pending <= left /\ left \in Int /\ bal'[a].remaining \in Int
      /\ a = <<user, type, ThisYear>> /\ user \in Users /\ type \in LeaveTypes
    <2>1. bal[a] \in Balance /\ bal'[a] \in Balance
        BY DEF ReservedInv, LockInv, BaseInv, TypeInv, TypeOK
    <2>2. a \in Users \X LeaveTypes \X Years
        BY StoreAssumption
    <2>3. BaseInv /\ TypeInv /\ SaneInv /\ ReservedBelow
        BY DEF ReservedInv, LockInv, BaseInv
    <2>4. task[w] \in Task
        BY <2>3 DEF TypeInv, TypeOK
    <2>5. t.draft \in Row /\ t.seen \in Row
        BY <2>4 DEF Task
    <2>6. SaneTask(t)
        BY <2>3 DEF SaneInv
    <2>7. today' = today /\ OneMoves(w)
        BY <2>3, SameDay, StepMoves
    <2>8. EditHr
        BY DEF FilingApart, EditHr
    <2>9. left \in Int /\ bal'[a].remaining \in Int
        BY <2>1 DEF Balance
    <2>10. a = <<user, type, ThisYear>> /\ user \in Users /\ type \in LeaveTypes
        BY <2>2
    <2>11. pending <= left
        <3>1. NoneTouched(a[1], {"total", "type"})
            BY <2>3, <2>7, <2>10, TouchedStays
        <3> QED BY <2>3, <3>1 DEF ReservedBelow
    <2> QED BY <2>3, <2>4, <2>5, <2>6, <2>7, <2>8, <2>9, <2>10, <2>11
<1>1. \/ bal'[a].remaining >= left
      \/ /\ Grants(w) /\ a = AccountOf(t.seen)
         /\ bal'[a].remaining = left - t.seen.total
    BY StepRemaining DEF ReservedInv
<1>2. CASE UNCHANGED req
    <2>1. pending' = pending
        BY <1>0, <1>2, HoursKept
    <2>2. ~Grants(w)
        <3> SUFFICES ASSUME Grants(w) PROVE FALSE
            OBVIOUS
        <3>2. t.r \in Requests /\ Granting(w, t.r)
            BY SeenHours DEF ReservedInv, LedgerInv
        <3> QED BY <1>2, <3>2 DEF Granting
    <2>3. pending \in Int
        <3>2. CASE Requests = {}
            <4>1. Reserving(user, type, {}) = {}
                BY <3>2 DEF Reserving, OwnedBy
            <4>2. Totals({}) = Sum([r \in Requests |-> req[r].total], {})
                BY RowSums DEF Totals
            <4>3. Sum([r \in Requests |-> req[r].total], {}) = 0
                BY FS_EmptySet, SumAt
            <4> QED BY <4>1, <4>2, <4>3
        <3>3. ASSUME NEW CONSTANT r \in Requests PROVE pending \in Int
            <4>0. \A x \in Requests \ {r} : req'[x] = req[x]
                BY <1>2
            <4>1. \E rest \in Nat :
                      /\ pending = ReservedIn(req[r], user, type) + rest
                      /\ Totals(Reserving(user, type, {r})) = rest
                      /\ pending' = ReservedIn(req'[r], user, type) + rest
                BY <1>0, <4>0, ReservedChange
            <4>2. ReservedIn(req[r], user, type) \in Nat
                BY <1>0, ReservedShare DEF BaseInv, SaneInv, TypeInv, TypeOK
            <4> QED BY <4>1, <4>2
        <3> QED BY <3>2, <3>3
    <2>4. pending' <= bal'[a].remaining
        <3> HIDE DEF pending, left
        <3> QED BY <1>0, <1>1, <2>1, <2>2, <2>3
    <2> QED BY <2>4
<1>3. ASSUME NEW CONSTANT r \in Requests, Moves(w, r),
             \A x \in Requests \ {r} : req'[x] = req[x]
      PROVE  pending' <= bal'[a].remaining
    <2> DEFINE old == req[r]
               new == req'[r]
               before == ReservedIn(old, user, type)
               after == ReservedIn(new, user, type)
    <2>1. PICK rest \in Nat : /\ pending = before + rest
                              /\ Totals(Reserving(user, type, {r})) = rest
                              /\ pending' = after + rest
        BY <1>0, <1>3, ReservedChange
    <2>2. /\ old \in Row /\ new \in Row /\ SaneRow(old) /\ SaneRow(new)
          /\ before \in Nat /\ after \in Nat
          /\ after \in {0, new.total} /\ new.total \in Int
        <3>1. old \in Row /\ new \in Row /\ SaneRow(old) /\ SaneRow(new)
            BY <1>0 DEF BaseInv, TypeInv, TypeOK, SaneInv
        <3>2. new.total \in Int
            BY <3>1 DEF Row
        <3> HIDE DEF old, new
        <3> QED BY <3>1, <3>2, ReservedShare
    <2>3. Advances(old, new)
        BY <1>0, StepAdvances DEF ReservedInv, LockInv
    <2>4. old.status = "NONE" \/ Content(new) = Content(old) \/ EditWrite(w)
        <3>1. ASSUME NEW status, NEW reviewer, Restated(old, new, status, reviewer)
              PROVE  Content(new) = Content(old)
            BY <2>2, <3>1, RestatedFields DEF Content
        <3> QED BY <1>3, <3>1 DEF Moves
    \* A grant.
    <2>5. CASE Grants(w)
        <3>2. t.r \in Requests /\ Granting(w, t.r)
            BY <2>5, SeenHours DEF ReservedInv, LedgerInv
        <3>3. t.r = r
            BY <1>3, <3>2 DEF Granting
        <3>4. /\ old.status \in {"PENDING_SUPERVISOR", "PENDING_EXECUTIVE"} /\ old = t.seen
            <4>1. /\ t.op \in {"manager", "ceo"} /\ t.phase = "tx" /\ t.op \in Exclusive
                  /\ t.op \in RowOps \ {"hr"}
                BY <2>5 DEF Grants, Commit, DecisionsApart, Deciders, RowOps, OpNames
            <4> QED BY <1>0, <3>3, <4>1, FreshNow
                    DEF FreshRow, BaseInv, SaneInv, Locked, Awaited
        <3>5. after = 0
            BY <3>2, <3>3 DEF Granting, Weighs, ReservedIn, PendingStatuses
        <3>6. a = AccountOf(t.seen) => before = t.seen.total
            <4>1. AccountOf(old)[1] = old.owner /\ AccountOf(old)[2] = old.type
                  /\ AccountOf(old)[3] = StartYear(old)
                BY DEF AccountOf
            <4>2. ThisYear \in Int
                BY <1>0, StoreAssumption DEF BaseInv, TypeInv, TypeOK, ThisYear
            <4> HIDE DEF old
            <4> QED BY <3>4, <4>1, <4>2 DEF ReservedIn, PendingStatuses
        <3>7. t.seen.total \in Int
            BY <1>0 DEF Row
        <3> HIDE DEF pending, left, before, after, t
        <3> QED BY <1>0, <1>1, <2>1, <2>2, <3>5, <3>6, <3>7
    \* Another step takes nothing away.
    <2>6. CASE ~Grants(w)
        <3>1. bal'[a].remaining >= left
            BY <1>1, <2>6
        <3>2. CASE after <= before
            <4> HIDE DEF pending, left, before, after
            <4> QED BY <1>0, <2>1, <2>2, <3>1, <3>2
        <3>3. CASE after = 0
            <4> HIDE DEF before, after, pending
            <4> QED BY <2>2, <3>2, <3>3
        <3>4. CASE new.total <= left - rest
            <4> HIDE DEF pending, left, before, after, new
            <4>1. CASE after = new.total
                BY <1>0, <2>1, <2>2, <3>1, <3>4, <4>1
            <4> QED BY <2>2, <3>3, <4>1
        <3>5. CASE CreateInsert(w) /\ old.status = "NONE" /\ new = Inserted(t)
            <4>1. t.op = "create" /\ t.phase # "plan" /\ t.op \in Exclusive
                BY <3>5 DEF CreateInsert, FilingApart
            <4>2. /\ new.owner = t.user /\ new.type = t.draft.type /\ new.total = t.draft.total
                BY <1>0, <3>5, <4>1 DEF Inserted, Row, SaneTask
            <4>3. /\ PlanAccepted(t, t.user, t.draft.type, {})
                  /\ SamePlan(t.draft, PlannedRow(t, t.user, t.draft.type, {}))
                  /\ t.balance = bal[<<t.user, t.draft.type, ThisYear>>]
                BY <1>0, <4>1, FreshNow DEF FreshPlan, FreshBalance
            <4>4. CASE t.user = user /\ t.draft.type = type
                <5>1. before = 0
                    BY <3>5 DEF ReservedIn, PendingStatuses
                <5>2. pending = rest
                    BY <2>1, <5>1
                <5>3. PlannedRow(t, user, type, {}).total <= t.balance.remaining - pending
                    BY <4>3, <4>4, PlanCovered
                <5>4. t.balance.remaining = left
                    BY <1>0, <4>3, <4>4
                <5>5. new.total = PlannedRow(t, user, type, {}).total
                    BY <4>2, <4>3, <4>4 DEF SamePlan
                <5>6. new.total <= left - rest
                    BY <5>2, <5>3, <5>4, <5>5
                <5> QED BY <3>4, <5>6
            <4>5. CASE ~(t.user = user /\ t.draft.type = type)
                <5>1. after = 0
                    BY <4>2, <4>5 DEF ReservedIn
                <5> QED BY <3>3, <5>1
            <4> QED BY <4>4, <4>5
        <3>6. CASE EditWrite(w) /\ r = t.r /\ new = Requeued(t, Rewritten(t, old))
            <4>1. t.op = "edit" /\ t.phase = "write" /\ t.op \in Exclusive
                  /\ t.op \in RowOps \ {"hr"}
                BY <3>6 DEF EditWrite, FilingApart, RowOps, OpNames
            <4>2. /\ new.owner = old.owner /\ new.sent = old.sent \cup Supplied(t)
                  /\ new.type = IF "type" \in Supplied(t) THEN t.extra.type ELSE old.type
                BY <1>0, <2>2, <3>6, EditedFields
            <4>3. old = t.seen /\ t.seen.status \in {"PENDING_VERIFY", "REVIEWING_HR"}
                BY <1>0, <3>6, <4>1, FreshNow DEF FreshRow
            <4>7. new.owner = user => Supplied(t) \cap {"total", "type"} = {}
                BY <4>2 DEF NoneTouched, Untouched, OwnedBy
            <4>4. /\ t.ask = None =>
                        /\ new.ask = old.ask
                        /\ "total" \notin Supplied(t) => new.total = old.total
                  /\ t.ask # None => new.total = t.draft.total
                BY <1>0, <2>2, <3>6, EditedFields
            <4>8. old.owner = user => new.type = old.type
                BY <4>2, <4>7
            <4>9. new.owner = user /\ t.ask = None => new.total = old.total
                BY <4>4, <4>7
            <4>5. CASE t.ask = None
                <5>1. after \in {before, 0}
                    <6> HIDE DEF old, new
                    <6> QED BY <4>2, <4>3, <4>4, <4>5, <4>8, <4>9
                            DEF ReservedIn, StartYear, PendingStatuses
                <5> QED BY <2>2, <3>2, <3>3, <5>1
            <4>6. CASE t.ask # None
                <5>1. /\ PlanAccepted(t, t.seen.owner, t.seen.type, {t.r})
                      /\ SamePlan(t.draft, PlannedRow(t, t.seen.owner, t.seen.type, {t.r}))
                      /\ t.balance = bal[<<t.seen.owner, t.seen.type, ThisYear>>]
                    BY <1>0, <4>1, <4>6, FreshNow DEF FreshPlan, FreshBalance
                <5>2. CASE old.owner = user /\ old.type = type
                    <6>1. PlannedRow(t, user, type, {r}).total <= t.balance.remaining - rest
                        <7>1. PlanAccepted(t, user, type, {r})
                            BY <3>6, <4>3, <5>1, <5>2
                        <7> QED BY <2>1, <7>1, PlanCovered
                    <6>2. t.balance.remaining = left
                        BY <1>0, <4>3, <5>1, <5>2
                    <6>3. new.total = PlannedRow(t, user, type, {r}).total
                        BY <3>6, <4>3, <4>4, <4>6, <5>1, <5>2 DEF SamePlan
                    <6>4. new.total <= left - rest
                        BY <6>1, <6>2, <6>3
                    <6> QED BY <3>4, <6>4
                <5>3. CASE ~(old.owner = user /\ old.type = type)
                    <6>1. after = 0
                        BY <4>2, <4>8, <5>3 DEF ReservedIn
                    <6> QED BY <3>3, <6>1
                <5> QED BY <5>2, <5>3
            <4> QED BY <4>5, <4>6
        <3>7. ASSUME NEW status, NEW reviewer, r = t.r, Decides(w, status, reviewer),
                     Restated(old, new, status, reviewer)
              PROVE  pending' <= bal'[a].remaining
            <4>1. /\ new.owner = old.owner /\ new.type = old.type /\ new.ask = old.ask
                  /\ new.total = old.total
                BY <2>2, <3>7, RestatedFields
            <4>2. old.status # "NONE"
                <5>1. t.op \in RowOps
                    BY <3>7 DEF Decides, CancelWrite, ViewAcquire, HrAcquire, HrDecide,
                                HrCancelCommit, Commit, RowOps, OpNames
                <5> QED BY <1>0, <3>7, <5>1 DEF BaseInv, DecisionInv, Known
            <4>3. new.status \in PendingStatuses => old.status \in PendingStatuses
                BY <2>2, <2>3, <4>2 DEF Advances, PendingStatuses
            <4>4. after \in {before, 0}
                <5> HIDE DEF old, new
                <5> QED BY <4>1, <4>3 DEF ReservedIn, StartYear
            <4> QED BY <2>2, <3>2, <3>3, <4>4
        <3>8. CASE new = old
            BY <2>2, <3>2, <3>8
        <3> HIDE DEF pending
        <3> QED BY <1>3, <3>5, <3>6, <3>7, <3>8 DEF Moves
    <2> QED BY <2>5, <2>6
<1> QED BY <1>0, <1>2, <1>3, OneOrNone

\* Nothing is reserved or released while the requests and the year stay.
LEMMA YearKept ==
    ASSUME UNCHANGED req, ThisYear' = ThisYear, NEW CONSTANT user, NEW CONSTANT type
    PROVE  Totals(Reserving(user, type, {}))' = Totals(Reserving(user, type, {}))
<1>1. Reserving(user, type, {})' = Reserving(user, type, {})
    BY DEF Reserving, OwnedBy
<1>2. Totals(Reserving(user, type, {}))' = TotalsOf(req', Reserving(user, type, {})')
    BY DEF Totals
<1> QED BY <1>1, <1>2 DEF Totals

\* When decisions, filing and editing are kept apart.
KeptApart == FilingApart /\ DecisionsApart /\ OneYearLong

\* Every step of the system does.
LEMMA NextReserved == KeptApart => (ReservedInv /\ [Next]_vars => ReservedInv')
<1> SUFFICES ASSUME FilingApart, DecisionsApart, OneYearLong, ReservedInv, [Next]_vars
             PROVE  ReservedInv'
    BY DEF KeptApart
<1>0. LockInv' /\ LedgerInv' /\ BaseInv' /\ BaseInv
    BY NextLock, NextLedger DEF ReservedInv, LockInv, FilingApart, EditHr
<1>1. ThisYear' = ThisYear
    BY <1>0 DEF BaseInv, TypeInv, TypeOK, ThisYear, OneYearLong
<1>2. SUFFICES ASSUME NEW CONSTANT a \in Accounts, a[3] = ThisYear,
                      NoneTouched(a[1], {"total", "type"})'
               PROVE  Totals(Reserving(a[1], a[2], {}))' <= bal'[a].remaining
    BY <1>0, <1>1 DEF ReservedInv, ReservedBelow
<1> DEFINE pending == Totals(Reserving(a[1], a[2], {}))
<1>3. UNCHANGED req => pending <= bal[a].remaining
    <2>1. UNCHANGED req => NoneTouched(a[1], {"total", "type"})
        BY <1>2 DEF NoneTouched, Untouched, OwnedBy
    <2> QED BY <1>2, <2>1 DEF ReservedInv, ReservedBelow
<1>4. ASSUME UNCHANGED <<req, bal>> PROVE pending' <= bal'[a].remaining
    <2>1. pending' = pending
        BY <1>1, <1>4, YearKept
    <2> QED BY <1>3, <1>4, <2>1
<1>5. CASE UNCHANGED vars \/ Midnight
    BY <1>4, <1>5 DEF vars, Midnight
<1>6. ASSUME NEW w \in Workers, Call(w) PROVE pending' <= bal'[a].remaining
    <2>1. UNCHANGED <<req, bal>>
        BY <1>0, <1>6, CallStarts DEF BaseInv
    <2> QED BY <1>4, <2>1
<1>7. ASSUME NEW w \in Workers, Step(w) \/ Fail(w) PROVE pending' <= bal'[a].remaining
    BY <1>0, <1>2, <1>7, StepReserved
<1> QED BY <1>5, <1>6, <1>7 DEF Next

\* Nothing is pending at the start.
LEMMA InitReserved == Init => ReservedInv
<1> SUFFICES ASSUME Init PROVE ReservedInv
    OBVIOUS
<1>1. LockInv /\ LedgerInv
    BY InitLock, InitLedger
<1>2. ASSUME NEW a \in Accounts
      PROVE  Totals(Reserving(a[1], a[2], {})) <= bal[a].remaining
    <2>1. Reserving(a[1], a[2], {}) = {}
        BY DEF Init, StoreInit, Reserving, OwnedBy, NoRow, PendingStatuses
    <2>2. Totals({}) = Sum([r \in Requests |-> req[r].total], {})
        BY RowSums DEF Totals
    <2>3. Sum([r \in Requests |-> req[r].total], {}) = 0
        BY FS_EmptySet, SumAt
    <2>4. Quota[a] \in Nat
        BY StoreAssumption
    <2>5. bal[a].remaining = Quota[a]
        BY DEF Init, StoreInit
    <2> QED BY <2>1, <2>2, <2>3, <2>4, <2>5
<1> QED BY <1>1, <1>2 DEF ReservedInv, ReservedBelow

\* When decisions, filing and editing never overlap with other operations on the
\* same employee and the year does not change, what an employee has waiting for a
\* decision never exceeds what remains, whatever status their edit forms send, as
\* long as no form sent hours or a type: the check each plan makes against the
\* pending hours is enough, and no final approval is refused for want of quota.
THEOREM ReservedHolds == KeptApart => (Spec => []Reserved)
<1> SUFFICES ASSUME KeptApart PROVE Spec => []Reserved
    OBVIOUS
<1>1. ReservedInv => Reserved
    BY ReservedAdds DEF ReservedInv
<1> QED BY <1>1, InitReserved, NextReserved, PTL DEF Spec

-----------------------------------------------------------------------------
(* Decisions are kept apart from the rest: the promised flow. *)

\* The exclusion under which the handlers implement the flow: no edit and no
\* decision overlaps with another operation on the same employee, edit forms name
\* no type, and the year does not change.
TypesKept == \A extra \in Extras : extra.type = None

FlowApart == DecisionsApart /\ EditHr /\ TypesKept /\ OneYearLong

\* Every leave on file, or about to be, has a balance row to weigh on.
AccountsKnown ==
    /\ \A r \in Requests : req[r].status # "NONE" => AccountOf(req[r]) \in Accounts
    /\ \A w \in Workers : task[w].op = "create" =>
          <<task[w].user, task[w].draft.type, ThisYear>> \in Accounts
    /\ \A w \in Workers : task[w].op = "edit" => task[w].extra.type = None

FlowInv == LockInv /\ LedgerInv /\ AccountsKnown

\* The moves of a request between stages that take no quota and return none.
Onward ==
    {<<"hr", "supervisor">>, <<"hr", "executive">>, <<"supervisor", "executive">>,
     <<"hr", "refused">>, <<"supervisor", "refused">>, <<"executive", "refused">>,
     <<"granted", "withdrawing">>, <<"withdrawing", "granted">>}

SameClaim(old, new) == ClaimOf(new) = ClaimOf(old) /\ (Sent(new) <=> Sent(old))

Claimed(new) == AccountOf(new) \in Accounts /\ new.total > 0

\* What worker w makes of a request, in terms of the flow.
FlowMoves(w, old, new) ==
    LET from == StageOf(old.status)
        to == StageOf(new.status)
    IN
    \/ from = to /\ SameClaim(old, new)
    \/ <<from, to>> \in Onward /\ SameClaim(old, new)
    \/ from \in {"unfiled", "hr"} /\ to = "hr" /\ Claimed(new) /\ (Sent(new) <=> Sent(old))
    \/ EditWrite(w) /\ from = "hr" /\ to # "unfiled" /\ Claimed(new) /\ Sent(new)
    \/ Grants(w) /\ from \in {"supervisor", "executive"} /\ to = "granted" /\ SameClaim(old, new)
    \/ GivesBack(w) /\ from = "withdrawing" /\ to = "withdrawn" /\ SameClaim(old, new)

\* The stage of each status.
LEMMA Stages ==
    /\ StageOf("NONE") = "unfiled"
    /\ StageOf("PENDING_VERIFY") = "hr" /\ StageOf("REVIEWING_HR") = "hr"
    /\ StageOf("PENDING_SUPERVISOR") = "supervisor"
    /\ StageOf("PENDING_EXECUTIVE") = "executive"
    /\ StageOf("APPROVED") = "granted" /\ StageOf("PENDING_CANCELLATION") = "withdrawing"
    /\ StageOf("CANCELLED") = "withdrawn" /\ StageOf("REJECTED") = "refused"
    /\ StageOf("OTHER") = "other"
BY DEF StageOf

\* Every status on file has a stage of the flow.
LEMMA FiledStages ==
    ASSUME NEW status \in Statuses
    PROVE  /\ StageOf(status) \in Flow!Stages
           /\ status # "NONE" <=> StageOf(status) # "unfiled"
           /\ status \in {"APPROVED", "PENDING_CANCELLATION"}
                <=> StageOf(status) \in {"granted", "withdrawing"}
BY Stages DEF Flow!Stages, Statuses, LiveStatuses, PendingStatuses, DeadStatuses

\* In one year every form starts in this year.
LEMMA AllThisYear ==
    ASSUME OneYearLong, BaseInv, NEW ask \in Ask
    PROVE  YearOf[ask.first] = ThisYear
<1>1. ask.first \in Days /\ today \in Days
    BY DEF Ask, BaseInv, TypeInv, TypeOK
<1> QED BY <1>1 DEF OneYearLong, ThisYear

\* A step moves a request along the flow, or revises its claim, or leaves it.
LEMMA StepStages ==
    ASSUME FlowApart, FlowInv, BaseInv', NEW w \in Workers, Step(w) \/ Fail(w),
           NEW r \in Requests
    PROVE  FlowMoves(w, req[r], req'[r])
<1> DEFINE t == task[w]
           old == req[r]
           new == req'[r]
<1>0. /\ t \in Task /\ t.draft \in Row /\ old \in Row /\ new \in Row
      /\ SaneTask(t) /\ SaneRow(old) /\ SaneRow(new)
      /\ BaseInv /\ CancelKnows /\ Moves(w, r)
    BY StepMoves DEF FlowInv, LockInv, BaseInv, TypeInv, TypeOK, SaneInv, Task, OneMoves
<1>1. CASE new = old
    BY <1>1 DEF FlowMoves, SameClaim
<1>2. CASE CreateInsert(w) /\ old.status = "NONE" /\ new = Inserted(t)
    <2>1. t.op = "create" /\ t.phase # "plan"
        BY <1>2 DEF CreateInsert
    <2>2. /\ new.status = "PENDING_VERIFY" /\ new.owner = t.user /\ new.type = t.draft.type
          /\ new.ask = t.ask /\ t.ask \in Asks /\ new.total > 0 /\ new.sent = {}
        BY <1>0, <1>2, <2>1 DEF Inserted, Row, SaneTask, Drafted
    <2>3. StartYear(new) = ThisYear
        BY <1>0, <2>2, AllThisYear, StoreAssumption DEF StartYear, FlowApart
    <2>4. AccountOf(new) \in Accounts
        BY <2>1, <2>2, <2>3 DEF FlowInv, AccountsKnown, AccountOf
    <2>5. old.sent = {}
        BY <1>0, <1>2 DEF SaneRow
    <2> QED BY <1>2, <2>2, <2>4, <2>5, Stages DEF FlowMoves, Claimed, Sent
<1>3. CASE EditWrite(w) /\ r = t.r /\ new = Requeued(t, Rewritten(t, old))
    <2>1. t.op = "edit" /\ t.phase = "write" /\ t.op \in Exclusive /\ t.op \in RowOps \ {"hr"}
        BY <1>3 DEF EditWrite, FlowApart, EditHr, RowOps, OpNames
    <2>2. old = t.seen /\ old.status \in {"PENDING_VERIFY", "REVIEWING_HR"}
        BY <1>0, <1>3, <2>1, FreshNow DEF FreshRow
    <2>3. t.extra.type = None
        BY <2>1 DEF FlowInv, AccountsKnown
    <2>4. /\ new.owner = old.owner /\ new.type = old.type /\ new.sent = old.sent \cup Supplied(t)
          /\ new.status \in {"PENDING_VERIFY", old.status} \/ "status" \in Supplied(t)
        <3>1. "type" \notin Supplied(t)
            BY <2>3 DEF Supplied
        <3> QED BY <1>0, <1>3, <3>1, EditedFields
    <2>5. new.status # "NONE"
        <3>1. "status" \in Supplied(t) => t.extra.status \in Statuses \ {"NONE"}
            BY <1>0 DEF Supplied, Task, Extra
        <3>2. new.status \in {"PENDING_VERIFY", old.status, t.extra.status}
            BY <1>0, <1>3, EditedFields
        <3>3. new.status = t.extra.status => new.status # "NONE" \/ "status" \notin Supplied(t)
            BY <3>1
        <3> HIDE DEF old, new
        <3> QED BY <2>2, <2>4, <3>2, <3>3
    <2>6. new.ask \in Ask /\ old.ask \in Ask /\ new.total > 0
        BY <1>0, <2>2, <2>5, StoreAssumption DEF SaneRow, Filed
    <2>7. StartYear(new) = StartYear(old)
        BY <1>0, <2>6, AllThisYear DEF StartYear, FlowApart
    <2>8. Claimed(new)
        BY <2>2, <2>4, <2>6, <2>7 DEF FlowInv, AccountsKnown, AccountOf, Claimed
    <2>9. StageOf(old.status) = "hr" /\ StageOf(new.status) # "unfiled"
        BY <1>0, <2>2, <2>5, Stages, FiledStages DEF Row
    <2>10. CASE "status" \in Supplied(t)
        BY <1>3, <2>4, <2>8, <2>9, <2>10 DEF FlowMoves, Sent
    <2>11. CASE "status" \notin Supplied(t)
        <3>1. StageOf(new.status) = "hr" /\ (Sent(new) <=> Sent(old))
            BY <2>2, <2>4, <2>11, Stages DEF Sent
        <3> QED BY <2>8, <2>9, <3>1 DEF FlowMoves
    <2> QED BY <2>10, <2>11
<1>4. ASSUME NEW status, NEW reviewer, r = t.r, Decides(w, status, reviewer),
             Restated(old, new, status, reviewer)
      PROVE  FlowMoves(w, old, new)
    <2>1. /\ new.status = status
          /\ new.owner = old.owner /\ new.type = old.type /\ new.ask = old.ask
          /\ new.total = old.total /\ new.sent = old.sent
        BY <1>0, <1>4, RestatedFields
    <2>2. t.op \in RowOps
        BY <1>4 DEF Decides, CancelWrite, ViewAcquire, HrAcquire, HrDecide, HrCancelCommit,
                    Commit, RowOps, OpNames
    <2>3. old.status # "NONE"
        BY <1>0, <1>4, <2>2 DEF BaseInv, DecisionInv, Known
    <2>4. status # "NONE" => SameClaim(old, new)
        BY <2>1, <2>3 DEF SameClaim, Sent, ClaimOf, AccountOf, StartYear
    <2> HIDE DEF new, old
    <2>5. CASE CancelWrite(w) /\ status = "PENDING_CANCELLATION"
        <3>1. old.status \in {"APPROVED", "PENDING_CANCELLATION"}
            BY <1>0, <1>4, <2>5 DEF CancelWrite, CancelKnows, old
        <3> QED BY <2>1, <2>4, <2>5, <3>1, Stages DEF FlowMoves, Onward
    <2>6. CASE /\ ViewAcquire(w) \/ HrAcquire(w)
               /\ Acquirable(t.r) /\ status = "REVIEWING_HR"
        <3>1. old.status = "PENDING_VERIFY"
            BY <1>4, <2>6 DEF Acquirable, old
        <3> QED BY <2>1, <2>4, <2>6, <3>1, Stages DEF FlowMoves
    <2>7. CASE HrDecide(w) /\ status = Verdict(t)
        <3>1. t.op = "hr" /\ t.phase = "decide" /\ t.op \in Exclusive
            BY <2>7 DEF HrDecide, FlowApart, DecisionsApart, Deciders
        <3>2. old.status = "REVIEWING_HR"
            BY <1>0, <1>4, <3>1, FreshNow DEF FreshRow, old
        <3>3. status \in {"REJECTED", "PENDING_SUPERVISOR", "PENDING_EXECUTIVE"}
            BY <2>7 DEF Verdict
        <3> QED BY <2>1, <2>4, <3>2, <3>3, Stages DEF FlowMoves, Onward
    <2>8. CASE /\ HrCancelCommit(w)
               /\ status = IF t.action = "Approve" THEN "CANCELLED" ELSE "APPROVED"
        <3>1. t.op = "hr" /\ t.phase = "tx" /\ t.op \in Exclusive
            BY <2>8 DEF HrCancelCommit, FlowApart, DecisionsApart, Deciders
        <3>2. old.status = "PENDING_CANCELLATION"
            BY <1>0, <1>4, <3>1, FreshNow DEF FreshRow, old
        <3> QED BY <2>1, <2>4, <2>8, <3>2, Stages DEF FlowMoves, Onward, GivesBack
    <2>9. CASE Commit(w) /\ status = Outcome(t)
        <3>1. t.op \in {"manager", "ceo"} /\ t.phase = "tx"
            BY <2>9 DEF Commit
        <3>2. old.status = Awaited(t.op)
            BY <1>0, <1>4, <3>1 DEF BaseInv, SaneInv, Locked, old
        <3>3. \/ status = "REJECTED"
              \/ status = "APPROVED" /\ Grants(w)
              \/ status = "PENDING_EXECUTIVE" /\ t.op = "manager"
            BY <2>9 DEF Outcome, Grants
        <3> QED BY <2>1, <2>4, <3>1, <3>2, <3>3, Stages DEF FlowMoves, Onward, Awaited
    <2> QED BY <1>4, <2>5, <2>6, <2>7, <2>8, <2>9 DEF Decides
<1> QED BY <1>0, <1>1, <1>2, <1>3, <1>4 DEF Moves

\* Filed leaves keep their balance rows, and edits the type.
LEMMA NextAccounts ==
    ASSUME FlowApart, FlowInv, BaseInv', [Next]_vars
    PROVE  AccountsKnown'
<1>0. task \in [Workers -> Task] /\ BaseInv
    BY DEF FlowInv, LedgerInv, BaseInv, TypeInv, TypeOK
<1>1. ThisYear' = ThisYear
    BY <1>0 DEF BaseInv, TypeInv, TypeOK, ThisYear, OneYearLong, FlowApart
<1>2. \A x \in Requests : AccountOf(req[x])' = AccountOf(req'[x])
    BY DEF AccountOf, StartYear
<1>3. CASE UNCHANGED vars \/ Midnight
    <2>1. UNCHANGED <<req, task>>
        BY <1>3 DEF vars, Midnight
    <2> QED BY <1>1, <1>2, <2>1 DEF FlowInv, AccountsKnown
<1>4. ASSUME NEW w \in Workers, Call(w) PROVE AccountsKnown'
    <2>1. PICK t : task' = [task EXCEPT ![w] = t] /\ UNCHANGED req /\ Started(t)
        BY <1>0, <1>4, CallStarts DEF BaseInv
    <2>2. /\ t.op = "create" => <<t.user, t.draft.type, ThisYear>> \in Accounts
          /\ t.op = "edit" => t.extra.type = None
        BY <2>1 DEF Started, FlowApart, TypesKept
    <2>3. task'[w] = t /\ \A v \in Workers \ {w} : task'[v] = task[v]
        BY <1>0, <2>1
    <2> QED BY <1>1, <1>2, <2>1, <2>2, <2>3 DEF FlowInv, AccountsKnown
<1>5. ASSUME NEW w \in Workers, Step(w) \/ Fail(w) PROVE AccountsKnown'
    <2>1. PICK t : task' = [task EXCEPT ![w] = t] /\ Resumes(w, t)
        BY <1>0, <1>5, StepResumes DEF BaseInv
    <2>2. task'[w] = t /\ \A v \in Workers \ {w} : task'[v] = task[v]
        BY <1>0, <2>1
    <2>3. t.op = "create" => /\ task[w].op = "create" /\ t.user = task[w].user
                             /\ t.draft.type = task[w].draft.type
        BY <2>1, PlanFields DEF Resumes, SameCall, Idle, HrAcquire, Deciders
    <2>5. t.op = "edit" => task[w].op = "edit" /\ t.extra = task[w].extra
        BY <2>1 DEF Resumes, SameCall, Idle
    <2>4. ASSUME NEW r \in Requests, req'[r].status # "NONE"
          PROVE  AccountOf(req'[r]) \in Accounts
        <3>1. FlowMoves(w, req[r], req'[r])
            BY <1>5, StepStages
        <3>2. req[r].status \in Statuses /\ req'[r].status \in Statuses
            BY <1>0 DEF BaseInv, TypeInv, TypeOK, Row
        <3>3. StageOf(req'[r].status) # "unfiled"
            BY <2>4, <3>2, FiledStages
        <3>4. CASE Claimed(req'[r])
            BY <3>4 DEF Claimed
        <3>5. CASE SameClaim(req[r], req'[r]) /\ req[r].status # "NONE"
            <4>1. AccountOf(req'[r]) = AccountOf(req[r])
                BY <2>4, <3>5 DEF SameClaim, ClaimOf
            <4> QED BY <3>5, <4>1 DEF FlowInv, AccountsKnown
        <3>6. req[r].status = "NONE" => StageOf(req[r].status) = "unfiled"
            BY Stages
        <3> QED BY <3>1, <3>3, <3>4, <3>5, <3>6 DEF FlowMoves, Onward
    <2> QED BY <1>1, <1>2, <2>2, <2>3, <2>4, <2>5 DEF FlowInv, AccountsKnown
<1> QED BY <1>3, <1>4, <1>5 DEF Next

StageNow == [r \in Requests |-> StageOf(req[r].status)]
ClaimNow == [r \in Requests |-> ClaimOf(req[r])]
ForcedNow == {r \in Requests : ~Untouched(r, {"status"})}
LeftNow == [a \in Accounts |-> bal[a].remaining]

\* What a confirmed cancellation gives back is what the leave was charged, when
\* nobody sent a status for a leave of the employee.
LEMMA RefundReturns ==
    ASSUME LedgerInv, BaseInv', NEW w \in Workers, NEW CONSTANT r \in Requests,
           GivingBack(w, r), AccountOf(task[w].seen) \in Accounts,
           NoneTouched(AccountOf(task[w].seen)[1], {"status"}),
           \A x \in Requests \ {r} : req'[x] = req[x],
           bal' = [bal EXCEPT ![AccountOf(task[w].seen)]
                     = Refunded(bal[AccountOf(task[w].seen)], task[w].seen.total)]
    PROVE  bal'[AccountOf(task[w].seen)].remaining
             = bal[AccountOf(task[w].seen)].remaining + task[w].seen.total
<1> DEFINE home == AccountOf(task[w].seen)
           hours == task[w].seen.total
<1>1. /\ bal \in [Accounts -> Balance] /\ hours \in Int /\ BaseInv
      /\ bal[home] \in Balance
    BY DEF LedgerInv, BaseInv, TypeInv, TypeOK, Task, Row
<1>2. bal[home].remaining \in Int /\ bal[home].total \in Int
    BY <1>1 DEF Balance
<1>3. bal[home].remaining + hours <= bal[home].total
    <2>1. ASSUME NEW CONSTANT a \in Accounts, a = home
          PROVE  bal[a].remaining + hours <= bal[a].total
        <3>1. \A x \in Requests \ {r} : KeepsOn(req[x], req'[x], a)
            BY DEF KeepsOn
        <3>2. PICK rest \in Nat : Totals(ChargedTo(a)) = Weight(req[r], a) + rest
            BY <1>1, <3>1, ChargesChange
        <3>3. Weight(req[r], a) = hours
            BY <2>1 DEF GivingBack, Weight
        <3>4. bal[a].remaining = bal[a].total - Totals(ChargedTo(a))
            BY <2>1 DEF LedgerInv, Adding
        <3> HIDE DEF hours, home
        <3> QED BY <1>1, <1>2, <2>1, <3>2, <3>3, <3>4
    <2> QED BY <2>1
<1>4. bal'[home] = Refunded(bal[home], hours)
    BY <1>1
<1> QED BY <1>1, <1>3, <1>4, RefundInFull

\* Otherwise it is no more than that.
LEMMA RefundGiven ==
    ASSUME FlowInv, BaseInv', NEW w \in Workers, NEW CONSTANT r \in Requests,
           GivingBack(w, r), AccountOf(task[w].seen) \in Accounts,
           ClaimOf(req[r]) = [account |-> AccountOf(task[w].seen), hours |-> task[w].seen.total],
           task[w].seen.total \in Nat,
           \A x \in Requests \ {r} : req'[x] = req[x],
           bal' = [bal EXCEPT ![AccountOf(task[w].seen)]
                     = Refunded(bal[AccountOf(task[w].seen)], task[w].seen.total)]
    PROVE  \E hours \in Flow!GivenBack(r) :
               bal'[AccountOf(task[w].seen)].remaining
                 = bal[AccountOf(task[w].seen)].remaining + hours
<1> DEFINE home == AccountOf(task[w].seen)
           total == task[w].seen.total
<1>1. /\ bal \in [Accounts -> Balance] /\ bal[home] \in Balance
      /\ bal[home].remaining \in Int /\ bal[home].remaining <= bal[home].total
    <2>1. bal \in [Accounts -> Balance] /\ bal[home] \in Balance
        BY DEF FlowInv, LedgerInv, BaseInv, TypeInv, TypeOK
    <2> QED BY <2>1 DEF Balance, FlowInv, LedgerInv, Capped
<1>2. ClaimNow[r] = [account |-> home, hours |-> total]
    BY DEF ClaimNow
<1>3. Flow!GivenBack(r) = IF \E s \in ForcedNow : ClaimNow[s].account[1] = ClaimNow[r].account[1]
                          THEN 0 .. ClaimNow[r].hours ELSE {ClaimNow[r].hours}
    BY DEF Flow!GivenBack, ForcedNow, ClaimNow
<1>4. CASE NoneTouched(home[1], {"status"})
    <2>1. bal'[home].remaining = bal[home].remaining + total
        BY <1>4, RefundReturns DEF FlowInv
    <2>2. total \in Flow!GivenBack(r)
        BY <1>2, <1>3
    <2> QED BY <2>1, <2>2
<1>5. CASE ~NoneTouched(home[1], {"status"})
    <2>1. PICK s \in Requests : req[s].owner = home[1] /\ ~Untouched(s, {"status"})
        BY <1>5 DEF NoneTouched, OwnedBy
    <2>2. req[s].status # "NONE"
        BY <2>1 DEF FlowInv, LockInv, BaseInv, SaneInv, SaneRow, Untouched
    <2>3. ClaimNow[s].account[1] = home[1] /\ s \in ForcedNow
        BY <2>1, <2>2 DEF ClaimNow, ClaimOf, AccountOf, ForcedNow
    <2>4. Flow!GivenBack(r) = 0 .. total
        BY <1>2, <1>3, <2>3
    <2>5. PICK now : now = bal'[home].remaining
        OBVIOUS
    <2>6. /\ now \in Int
          /\ now >= bal[home].remaining /\ now <= bal[home].remaining + total
        <3>1. bal'[home] = Refunded(bal[home], total)
            BY <1>1
        <3>2. bal'[home] \in Balance
            BY DEF BaseInv, TypeInv, TypeOK
        <3>3. now \in Int
            BY <2>5, <3>2 DEF Balance
        <3> QED BY <1>1, <2>5, <3>1, <3>3, RefundCapped
    <2>7. PICK was : was = bal[home].remaining
        OBVIOUS
    <2>8. now - was \in 0 .. total /\ now = was + (now - was)
        <3>1. was \in Int /\ now \in Int /\ total \in Nat /\ now >= was /\ now <= was + total
            BY <1>1, <2>6, <2>7
        <3> HIDE DEF total
        <3> QED BY <3>1
    <2> QED BY <2>4, <2>5, <2>7, <2>8
<1> QED BY <1>4, <1>5

\* A handler's step is a step of the flow, or none.
LEMMA StepFlows ==
    ASSUME FlowApart, FlowInv, BaseInv', NEW w \in Workers, Step(w) \/ Fail(w)
    PROVE  [Flow!Next]_(Flow!flow)
<1> DEFINE t == task[w]
           home == AccountOf(t.seen)
<1>0. /\ BaseInv /\ OneMoves(w) /\ DecisionsApart /\ LedgerInv
      /\ bal \in [Accounts -> Balance] /\ t.seen.total \in Int
    BY StepMoves DEF FlowInv, FlowApart, LedgerInv, BaseInv, TypeInv, TypeOK, Task, Row
<1>8. Grants(w) \/ GivesBack(w) =>
          /\ t.r \in Requests /\ t.seen.total \in Nat
          /\ Grants(w) => ~GivesBack(w) /\ Granting(w, t.r)
          /\ GivesBack(w) => ~Grants(w) /\ GivingBack(w, t.r)
    BY <1>0, SeenHours DEF FlowInv, LedgerInv
<1>1. CASE UNCHANGED req
    <2>1. ~Grants(w) /\ ~GivesBack(w)
        BY <1>1, <1>8 DEF Granting, GivingBack
    <2>2. UNCHANGED bal
        BY <1>0, <2>1, StepBalances
    <2> QED BY <1>1, <2>2 DEF Flow!flow, ClaimOf, AccountOf, StartYear, Untouched
<1>2. ASSUME NEW CONSTANT r \in Requests, Moves(w, r),
             \A x \in Requests \ {r} : req'[x] = req[x]
      PROVE  [Flow!Next]_(Flow!flow)
    <2> DEFINE old == req[r]
               new == req'[r]
               from == StageOf(old.status)
               to == StageOf(new.status)
    <2>1. /\ FlowMoves(w, old, new) /\ old \in Row /\ new \in Row
          /\ old.status \in Statuses /\ new.status \in Statuses
        <3>1. FlowMoves(w, old, new)
            BY StepStages
        <3> QED BY <1>0, <3>1 DEF BaseInv, TypeInv, TypeOK, Row
    <2>2. StageNow' = [StageNow EXCEPT ![r] = to] /\ StageNow[r] = from
        BY <1>2 DEF StageNow
    <2>3. ClaimNow' = [ClaimNow EXCEPT ![r] = ClaimOf(new)] /\ ClaimNow[r] = ClaimOf(old)
        <3>1. ClaimNow' = [x \in Requests |-> ClaimOf(req'[x])]
            BY DEF ClaimNow, ClaimOf, AccountOf, StartYear
        <3> QED BY <1>2, <3>1 DEF ClaimNow
    <2>4. /\ (Sent(new) <=> Sent(old)) => ForcedNow' = ForcedNow
          /\ Sent(new) => ForcedNow' = ForcedNow \cup {r}
        <3>1. ForcedNow' = {x \in Requests : "status" \in req'[x].sent}
            BY DEF ForcedNow, Untouched
        <3>2. ForcedNow = {x \in Requests : "status" \in req[x].sent}
            BY DEF ForcedNow, Untouched
        <3> QED BY <1>2, <3>1, <3>2 DEF Sent
    <2>5. SameClaim(old, new) => ClaimNow' = ClaimNow /\ ForcedNow' = ForcedNow
        <3> HIDE DEF old, new
        <3> QED BY <2>3, <2>4 DEF SameClaim, ClaimNow
    <2>6. ASSUME NEW F, from \in F, SameClaim(old, new) PROVE Flow!Moves(r, F, to)
        BY <2>2, <2>5, <2>6 DEF Flow!Moves, StageNow, ClaimNow, ForcedNow
    <2>7. \/ ~Grants(w) /\ ~GivesBack(w) /\ UNCHANGED LeftNow
          \/ Grants(w) /\ ~GivesBack(w) /\ t.r = r
          \/ GivesBack(w) /\ ~Grants(w) /\ t.r = r
        <3>1. ~Grants(w) /\ ~GivesBack(w) => UNCHANGED bal
            BY <1>0, StepBalances
        <3>2. Grants(w) \/ GivesBack(w) => t.r = r
            BY <1>2, <1>8 DEF Granting, GivingBack
        <3> QED BY <1>8, <3>1, <3>2 DEF LeftNow
    \* A step that moves no quota.
    <2>8. CASE ~Grants(w) /\ ~GivesBack(w)
        <3>1. LeftNow' = LeftNow
            BY <2>7, <2>8
        <3>2. CASE from = to /\ SameClaim(old, new)
            <4>1. StageNow' = StageNow
                <5> HIDE DEF old, new
                <5> QED BY <2>2, <3>2 DEF StageNow
            <4> QED BY <2>5, <3>1, <3>2, <4>1
                    DEF StageNow, ClaimNow, ForcedNow, LeftNow, Flow!flow
        <3>3. CASE <<from, to>> \in Onward /\ SameClaim(old, new)
            <4>1. \/ from = "hr" /\ to \in {"supervisor", "executive"}
                  \/ from = "supervisor" /\ to = "executive"
                  \/ from \in {"hr", "supervisor", "executive"} /\ to = "refused"
                  \/ from = "granted" /\ to = "withdrawing"
                  \/ from = "withdrawing" /\ to = "granted"
                <5> HIDE DEF from, to
                <5> QED BY <3>3 DEF Onward, from, to
            <4>2. UNCHANGED [a \in Accounts |-> bal[a].remaining]
                BY <3>1 DEF LeftNow
            <4>3. \/ Flow!Verify(r) \/ Flow!Forward(r) \/ Flow!Refuse(r)
                  \/ Flow!AskBack(r) \/ Flow!Keep(r)
                <5> HIDE DEF from, to
                <5> QED BY <2>6, <3>3, <4>1, <4>2
                        DEF Flow!Verify, Flow!Forward, Flow!Refuse, Flow!AskBack, Flow!Keep
            <4> QED BY <4>3 DEF Flow!Next
        <3>4. ASSUME Claimed(new), to # "unfiled" PROVE Flow!Claims(r)
            <4>1. new.status # "NONE"
                BY <2>1, <3>4, FiledStages
            <4>2. ClaimOf(new).account \in Accounts /\ ClaimOf(new).hours > 0
                BY <3>4, <4>1 DEF ClaimOf, Claimed
            <4>3. ClaimNow'[r] = ClaimOf(new)
                BY <2>3 DEF ClaimNow
            <4> QED BY <2>3, <3>1, <4>2, <4>3
                    DEF Flow!Claims, Flow!Accounts, Accounts, ClaimNow, LeftNow
        <3>5. CASE /\ from \in {"unfiled", "hr"} /\ to = "hr"
                   /\ Claimed(new) /\ (Sent(new) <=> Sent(old))
            <4>1. Flow!Claims(r) /\ ForcedNow' = ForcedNow
                BY <2>4, <3>4, <3>5
            <4>2. from = "hr" => StageNow' = StageNow
                <5> HIDE DEF old, new
                <5> QED BY <2>2, <3>5 DEF StageNow
            <4>3. Flow!File(r) \/ Flow!Revise(r)
                BY <2>2, <3>5, <4>1, <4>2 DEF Flow!File, Flow!Revise, StageNow, ForcedNow
            <4> QED BY <4>3 DEF Flow!Next
        <3>6. CASE EditWrite(w) /\ from = "hr" /\ to # "unfiled" /\ Claimed(new) /\ Sent(new)
            <4>1. Flow!Claims(r) /\ ForcedNow' = ForcedNow \cup {r}
                BY <2>4, <3>4, <3>6
            <4>2. to \in Flow!Stages \ {"unfiled"}
                BY <2>1, <3>6, FiledStages
            <4>3. Flow!Override(r)
                BY <2>2, <3>6, <4>1, <4>2 DEF Flow!Override, StageNow, ForcedNow
            <4> QED BY <4>3 DEF Flow!Next
        <3> HIDE DEF from, to, old, new
        <3> QED BY <2>1, <2>8, <3>2, <3>3, <3>5, <3>6 DEF FlowMoves, from, to
    \* A grant or a cancellation: the request's own account is the one that moves.
    <2>9. CASE Grants(w) \/ GivesBack(w)
        <3>1. t.r = r /\ (Weighs(new) <=> ~Weighs(old)) /\ (Granting(w, r) \/ GivingBack(w, r))
            BY <1>8, <2>7, <2>9 DEF Granting, GivingBack
        <3>2. from \in {"granted", "withdrawing"} <=> ~(to \in {"granted", "withdrawing"})
            BY <2>1, <3>1, FiledStages DEF Weighs
        <3>3. ~EditWrite(w)
            BY <2>9 DEF EditWrite, Grants, GivesBack, Commit, HrCancelCommit
        <3>4. /\ SameClaim(old, new)
              /\ \/ Grants(w) /\ from \in {"supervisor", "executive"} /\ to = "granted"
                 \/ GivesBack(w) /\ from = "withdrawing" /\ to = "withdrawn"
            <4> HIDE DEF from, to, old, new
            <4> QED BY <2>1, <3>2, <3>3 DEF FlowMoves, Onward, from, to
        <3>5. /\ ClaimOf(old) = [account |-> home, hours |-> t.seen.total] /\ home \in Accounts
              /\ ClaimNow[r] = ClaimOf(old)
            <4>1. old.status # "NONE" /\ new.status # "NONE"
                BY <2>1, <3>4, FiledStages
            <4>2. /\ ClaimOf(old) = [account |-> AccountOf(old), hours |-> old.total]
                  /\ ClaimOf(new) = [account |-> AccountOf(new), hours |-> new.total]
                BY <4>1 DEF ClaimOf
            <4>3. \/ AccountOf(old) = home /\ old.total = t.seen.total
                  \/ AccountOf(new) = home /\ new.total = t.seen.total
                BY <3>1 DEF Granting, GivingBack
            <4>4. AccountOf(old) \in Accounts
                BY <4>1 DEF FlowInv, AccountsKnown
            <4> HIDE DEF old, new, home
            <4> QED BY <2>3, <3>4, <4>1, <4>2, <4>3, <4>4 DEF SameClaim
        <3>6. LeftNow[home] = bal[home].remaining /\ LeftNow'[home] = bal'[home].remaining
            BY <3>5 DEF LeftNow
        <3>7. CASE Grants(w)
            <4>1. ~GivesBack(w)
                BY <1>8, <3>7
            <4>2. from \in {"supervisor", "executive"} /\ to = "granted"
                BY <3>4, <4>1
            <4>3. /\ t.seen.total <= bal[home].remaining
                  /\ bal' = [bal EXCEPT ![home] = Deducted(bal[home], t.seen.total)]
                BY <1>0, <3>5, <3>7, <4>1, StepBalances
            <4>4. bal[home] \in Balance
                BY <1>0, <3>5
            <4>5. bal'[home].remaining = bal[home].remaining - t.seen.total
                <5>1. bal'[home] = Deducted(bal[home], t.seen.total)
                    BY <1>0, <3>5, <4>3
                <5> QED BY <1>0, <4>4, <5>1, DeductedFields
            <4>6. LeftNow' = [LeftNow EXCEPT ![home] = LeftNow[home] - t.seen.total]
                BY <1>0, <3>5, <3>6, <4>3, <4>5 DEF LeftNow
            <4>7. Flow!Moves(r, {"supervisor", "executive"}, "granted")
                BY <2>6, <3>4, <4>2
            <4>8. /\ ClaimNow[r].account = home /\ ClaimNow[r].hours = t.seen.total
                  /\ ClaimNow[r].hours <= LeftNow[home]
                BY <3>5, <3>6, <4>3
            <4>9. Flow!Grant(r)
                <5> HIDE DEF home, t
                <5> QED BY <4>6, <4>7, <4>8 DEF Flow!Grant, ClaimNow, LeftNow
            <4> QED BY <4>9 DEF Flow!Next
        <3>8. CASE GivesBack(w)
            <4>1. ~Grants(w) /\ GivingBack(w, r) /\ t.seen.total \in Nat
                BY <1>8, <3>1, <3>8
            <4>2. from = "withdrawing" /\ to = "withdrawn"
                BY <3>4, <4>1
            <4>3. bal' = [bal EXCEPT ![home] = Refunded(bal[home], t.seen.total)]
                BY <1>0, <3>5, <3>8, <4>1, StepBalances
            <4>4. PICK hours \in Flow!GivenBack(r) :
                      bal'[home].remaining = bal[home].remaining + hours
                BY <1>2, <3>5, <4>1, <4>3, RefundGiven
            <4>5. LeftNow' = [LeftNow EXCEPT ![home] = LeftNow[home] + hours]
                BY <1>0, <3>5, <3>6, <4>3, <4>4 DEF LeftNow
            <4>6. Flow!Moves(r, {"withdrawing"}, "withdrawn")
                BY <2>6, <3>4, <4>2
            <4>7. Flow!Withdraw(r)
                BY <3>5, <4>4, <4>5, <4>6 DEF Flow!Withdraw, ClaimNow, LeftNow
            <4> QED BY <4>7 DEF Flow!Next
        <3> QED BY <2>9, <3>7, <3>8
    <2> QED BY <2>8, <2>9
<1> QED BY <1>0, <1>1, <1>2, OneOrNone

\* Every step of the system is a step of the flow or none, and keeps the invariant.
LEMMA NextFlow == FlowApart => (FlowInv /\ [Next]_vars => FlowInv' /\ [Flow!Next]_(Flow!flow))
<1> SUFFICES ASSUME FlowApart, FlowInv, [Next]_vars
             PROVE  FlowInv' /\ [Flow!Next]_(Flow!flow)
    OBVIOUS
<1>1. LockInv' /\ LedgerInv' /\ BaseInv' /\ BaseInv
    BY NextLock, NextLedger DEF FlowApart, FlowInv, LedgerInv
<1>2. FlowInv'
    BY <1>1, NextAccounts DEF FlowInv
<1>3. ASSUME UNCHANGED <<req, bal>> PROVE UNCHANGED Flow!flow
    BY <1>3 DEF Flow!flow, ClaimOf, AccountOf, StartYear, Untouched
<1>4. CASE UNCHANGED vars \/ Midnight
    BY <1>2, <1>3, <1>4 DEF vars, Midnight
<1>5. ASSUME NEW w \in Workers, Call(w) PROVE UNCHANGED Flow!flow
    BY <1>1, <1>3, <1>5, CallStarts DEF BaseInv
<1>6. ASSUME NEW w \in Workers, Step(w) \/ Fail(w) PROVE [Flow!Next]_(Flow!flow)
    BY <1>1, <1>6, StepFlows
<1> QED BY <1>2, <1>4, <1>5, <1>6 DEF Next

\* The system starts where the flow starts.
LEMMA InitFlow == Init => FlowInv /\ Flow!Init
<1> SUFFICES ASSUME Init PROVE FlowInv /\ Flow!Init
    OBVIOUS
<1>1. AccountsKnown
    BY DEF Init, StoreInit, AccountsKnown, NoRow, Idle
<1>2. Quota = [a \in Accounts |-> Quota[a]]
    BY StoreAssumption
<1>3. [a \in Accounts |-> bal[a].remaining] = Quota
    BY <1>2 DEF Init, StoreInit
<1>4. \A r \in Requests : req[r] = NoRow
    BY DEF Init, StoreInit
<1>5. NoRow.status = "NONE" /\ NoRow.total = 0 /\ NoRow.sent = {}
    BY DEF NoRow
<1>6. {r \in Requests : ~Untouched(r, {"status"})} = {}
    BY <1>4, <1>5 DEF Untouched
<1>7. Flow!Init
    BY <1>3, <1>4, <1>5, <1>6, Stages DEF Flow!Init, ClaimOf
<1> QED BY <1>1, <1>7, InitLock, InitLedger DEF FlowInv

\* The handlers implement the promised flow: when no edit and no decision overlaps
\* with another operation on the same employee and forms name no type, every
\* request goes through its stages in order, but for a form that names the stage
\* itself while HR has the request; quota moves only with a grant, which it covers,
\* and with a cancellation, which gives it all back to an employee none of whose
\* requests was put into a stage by a form, whatever is filed, edited, locked,
\* interrupted or rolled back in between.
THEOREM FollowsFlowHolds == FlowApart => (Spec => FollowsFlow)
<1> SUFFICES ASSUME FlowApart PROVE Spec => FollowsFlow
    OBVIOUS
<1> QED BY InitFlow, NextFlow, PTL DEF Spec, FollowsFlow, Flow!Spec
=============================================================================
