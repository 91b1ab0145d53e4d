------------------------- MODULE LeaveSystemProofs -------------------------
(***************************************************************************)
(* What holds of the leave workflow for every set of users, workers,       *)
(* requests, forms and days, and whatever handlers overlap.                *)
(***************************************************************************)
EXTENDS LeaveSystem, LeavePortionProofs, SequenceTheorems

\* The operations on a request that exists.
RowOps == OpNames \ {"create"}

\* What a handler in flight has already made sure of.
Ready(t) ==
    /\ t.op # "idle" => t.user \in Users
    /\ t.op = "create" => t.ask \in Ask /\ t.draft.type \in LeaveTypes
    /\ t.op \in RowOps => t.r \in Requests
    /\ t.phase = "plan" => t.ask \in Ask

TypeInv == TypeOK /\ \A w \in Workers : Ready(task[w])

-----------------------------------------------------------------------------
(* Types of what the handlers compute. *)

LEMMA IdleType == Idle \in Task /\ NoRow \in Row /\ Ready(Idle)
<1>1. NoRow \in Row
    BY DEF NoRow, Row, Statuses
<1>2. NoExtra \in Extra
    BY DEF NoExtra, Extra
<1>3. Idle \in Task
    BY <1>1, <1>2 DEF Idle, Task
<1> QED BY <1>1, <1>3 DEF Idle, Ready, RowOps, OpNames

LEMMA PairExtrema ==
    ASSUME NEW a \in Int, NEW b \in Int
    PROVE  Min({a, b}) \in Int /\ Max({a, b}) \in Int
<1>1. \E x \in {a, b} : \A y \in {a, b} : x =< y
    BY DEF Min
<1>2. \E x \in {a, b} : \A y \in {a, b} : x >= y
    OBVIOUS
<1> QED BY <1>1, <1>2 DEF Min, Max

\* A refund leaves a balance a balance.
LEMMA RefundedType ==
    ASSUME NEW balance \in Balance, NEW hours \in Int
    PROVE  Refunded(balance, hours) \in Balance
<1> DEFINE remaining == Min({balance.total, balance.remaining + hours})
<1>1. balance.total \in Int /\ balance.remaining \in Int
    BY DEF Balance
<1>2. remaining \in Int
    BY <1>1, PairExtrema
<1> HIDE DEF remaining
<1>3. Max({0, balance.total - remaining}) \in Int
    <2> DEFINE used == balance.total - remaining
    <2>1. used \in Int /\ 0 \in Int
        BY <1>1, <1>2
    <2> HIDE DEF used
    <2>2. Max({0, used}) \in Int
        BY <2>1, PairExtrema
    <2> QED BY <2>2 DEF used
<1>4. [balance EXCEPT !.used = Max({0, balance.total - remaining}),
                      !.remaining = remaining] \in Balance
    BY <1>2, <1>3 DEF Balance
<1> QED BY <1>4 DEF Refunded, remaining

\* A charge leaves a balance a balance.
LEMMA DeductedType ==
    ASSUME NEW balance \in Balance, NEW hours \in Int
    PROVE  Deducted(balance, hours) \in Balance
<1>1. balance \in [total : Int, used : Int, remaining : Int]
    BY DEF Balance
<1>2. balance.total \in Int /\ balance.remaining \in Int
    BY <1>1
<1>3. /\ balance.remaining - hours \in Int
      /\ balance.total - (balance.remaining - hours) \in Int
    BY <1>2
<1> QED BY <1>1, <1>3 DEF Deducted, Balance

\* The hours a leave is charged, and those of them that are paid, are hours.
LEMMA HoursType ==
    ASSUME NEW ask \in Ask, NEW occupied, NEW everyDay
    PROVE  RequestHours(ask, PlanDays(ask, occupied, everyDay), everyDay) \in Int
<1>1. HourlyHours(ask, everyDay) \in Int
    <2>1. ask.from \in Int /\ ask.to \in Int
        BY DEF Ask
    <2> QED BY <2>1 DEF HourlyHours
<1> QED BY <1>1, PlanHoursType DEF RequestHours

LEMMA PaidType ==
    ASSUME NEW owner, NEW type, NEW hours \in Int, NEW except
    PROVE  PaidHours(owner, type, hours, except) \in Int
<1>1. \A room : Fitting(hours, room) \in Int
    BY DEF Fitting
<1> QED BY <1>1 DEF PaidHours

\* A planned row is a row.
LEMMA PlannedRowType ==
    ASSUME NEW t, t.ask \in Ask, NEW owner \in Users \cup {None},
           NEW type \in LeaveTypes \cup {None}, NEW except
    PROVE  PlannedRow(t, owner, type, except) \in Row
<1> DEFINE taken == Occupied(owner, except)
           days == PlanDays(t.ask, taken, EveryDay(owner, type))
           hours == RequestHours(t.ask, days, EveryDay(owner, type))
           paid == PaidHours(owner, type, hours, except)
<1>1. days \in SUBSET DayPortion
    BY PlanType
<1>2. hours \in Int
    BY HoursType
<1>3. paid \in Int
    BY <1>2, PaidType
<1> HIDE DEF days, hours, paid, taken
<1>4. [status |-> "PENDING_VERIFY", code |-> None, owner |-> owner, type |-> type,
       ask |-> t.ask, days |-> days, total |-> hours, paid |-> paid,
       reviewer |-> None, sent |-> {}] \in Row
    BY <1>1, <1>2, <1>3 DEF Row, Statuses, LiveStatuses, PendingStatuses
<1> QED BY <1>4 DEF PlannedRow, days, hours, paid, taken

-----------------------------------------------------------------------------
(* Types of the tables. *)

\* A worker whose handler is as it should be leaves the others as they were.
LEMMA TaskStep ==
    ASSUME TypeInv, NEW w \in Workers, NEW t \in Task, Ready(t),
           task' = [task EXCEPT ![w] = t]
    PROVE  task' \in [Workers -> Task] /\ \A v \in Workers : Ready(task'[v])
BY DEF TypeInv, TypeOK

\* The end of a handler.
LEMMA FinishStep ==
    ASSUME TypeInv, NEW w \in Workers, Finish(w)
    PROVE  task' \in [Workers -> Task] /\ \A v \in Workers : Ready(task'[v])
BY TaskStep, IdleType DEF Finish

LEMMA CreateReadType ==
    ASSUME TypeInv, NEW w \in Workers, NEW user \in Users, NEW ask \in Asks,
           NEW type \in LeaveTypes, CreateRead(w, user, ask, type)
    PROVE  TypeInv'
<1> DEFINE account == <<user, type, ThisYear>>
           draft == [NoRow EXCEPT !.type = type]
           t == [Idle EXCEPT !.op = "create", !.phase = "plan", !.user = user, !.ask = ask,
                             !.draft = draft, !.balance = bal[account]]
<1>1. bal[account] \in Balance
    BY DEF CreateRead, TypeInv, TypeOK
<1>2. ask \in Ask
    BY StoreAssumption
<1>3. draft \in Row /\ draft.type = type
    BY DEF NoRow, Row, Statuses
<1> HIDE DEF draft
<1>4. t \in Task
    BY <1>1, <1>2, <1>3, IdleType DEF Idle, Task, OpNames, Phases
<1>5. Ready(t)
    BY <1>2, <1>3 DEF Ready, Idle, RowOps
<1>6. task' = [task EXCEPT ![w] = t]
    BY DEF CreateRead, draft
<1>7. task' \in [Workers -> Task] /\ \A v \in Workers : Ready(task'[v])
    BY <1>4, <1>5, <1>6, TaskStep
<1> QED BY <1>7 DEF CreateRead, TypeInv, TypeOK

LEMMA CreatePlanType ==
    ASSUME TypeInv, NEW w \in Workers, CreatePlan(w)
    PROVE  TypeInv'
<1> DEFINE t == task[w]
           row == PlannedRow(t, t.user, t.draft.type, {})
           next == [t EXCEPT !.phase = "code", !.draft = row]
<1>1. t \in Task /\ t.op = "create" /\ t.user \in Users
      /\ t.ask \in Ask /\ t.draft.type \in LeaveTypes
    BY DEF CreatePlan, TypeInv, TypeOK, Ready
<1>2. CASE PlanAccepted(t, t.user, t.draft.type, {})
    <2>1. row \in Row /\ row.type = t.draft.type
        <3>1. row \in Row
            BY <1>1, PlannedRowType
        <3> QED BY <3>1 DEF PlannedRow
    <2> HIDE DEF row
    <2>2. next \in Task
        BY <1>1, <2>1 DEF Task, Phases
    <2>3. Ready(next)
        BY <1>1, <2>1 DEF Ready, Task, RowOps
    <2>4. task' = [task EXCEPT ![w] = next]
        BY <1>2 DEF CreatePlan, row, TypeInv, TypeOK
    <2>5. task' \in [Workers -> Task] /\ \A v \in Workers : Ready(task'[v])
        BY <2>2, <2>3, <2>4, TaskStep
    <2> QED BY <2>5 DEF CreatePlan, TypeInv, TypeOK
<1>3. CASE ~PlanAccepted(t, t.user, t.draft.type, {})
    <2>1. task' \in [Workers -> Task] /\ \A v \in Workers : Ready(task'[v])
        BY <1>3, FinishStep DEF CreatePlan
    <2> QED BY <2>1 DEF CreatePlan, TypeInv, TypeOK
<1> QED BY <1>2, <1>3

LEMMA CreateCodeType ==
    ASSUME TypeInv, NEW w \in Workers, CreateCode(w)
    PROVE  TypeInv'
<1> DEFINE t == task[w]
           code == <<t.draft.type, NextSeq, ThisYear>>
           next == [t EXCEPT !.phase = "insert", !.draft.code = code]
<1>1. t \in Task /\ t.op = "create" /\ t.user \in Users
      /\ t.ask \in Ask /\ t.draft.type \in LeaveTypes
    BY DEF CreateCode, TypeInv, TypeOK, Ready
<1>2. code \in LeaveTypes \X Nat \X Int
    <2>1. NextSeq \in Nat
        <3>1. MaxSeq \in Nat
            BY StoreAssumption, FS_CardinalityType DEF MaxSeq
        <3> QED BY <3>1 DEF CreateCode
    <2>2. ThisYear \in Int
        BY StoreAssumption DEF ThisYear, TypeInv, TypeOK
    <2> QED BY <1>1, <2>1, <2>2
<1> HIDE DEF code
<1>3. [t.draft EXCEPT !.code = code] \in Row
    BY <1>1, <1>2 DEF Task, Row
<1>4. next \in Task
    BY <1>1, <1>3 DEF Task, Phases
<1>5. Ready(next)
    BY <1>1, <1>4 DEF Ready, Task, Row, RowOps
<1>6. task' = [task EXCEPT ![w] = next]
    BY DEF CreateCode, code, TypeInv, TypeOK
<1>7. task' \in [Workers -> Task] /\ \A v \in Workers : Ready(task'[v])
    BY <1>4, <1>5, <1>6, TaskStep
<1> QED BY <1>7 DEF CreateCode, TypeInv, TypeOK

LEMMA CreateInsertType ==
    ASSUME TypeInv, NEW w \in Workers, CreateInsert(w)
    PROVE  TypeInv'
<1> DEFINE t == task[w]
<1>1. t \in Task /\ t.ask \in Ask
    BY DEF CreateInsert, TypeInv, TypeOK, Ready
<1>2. Inserted(t) \in Row
    <2>1. t.draft \in Row
        BY <1>1 DEF Task
    <2>2. PlanDays(t.ask, Occupied(t.user, {}), EveryDay(t.user, t.draft.type))
            \in SUBSET DayPortion
        BY <1>1, PlanType
    <2> QED BY <2>1, <2>2 DEF Inserted, Row, Statuses, LiveStatuses, PendingStatuses
<1>3. req' \in [Requests -> Row]
    BY <1>2 DEF CreateInsert, TypeInv, TypeOK
<1>4. task' \in [Workers -> Task] /\ \A v \in Workers : Ready(task'[v])
    BY FinishStep DEF CreateInsert
<1> QED BY <1>3, <1>4 DEF CreateInsert, TypeInv, TypeOK

LEMMA EditReadType ==
    ASSUME TypeInv, NEW w \in Workers, NEW user \in Users, NEW r \in Requests,
           NEW ask \in Asks, NEW extra \in Extras, EditRead(w, user, r, ask, extra)
    PROVE  TypeInv'
<1> DEFINE account == <<req[r].owner, req[r].type, ThisYear>>
           t == [Idle EXCEPT !.op = "edit", !.phase = "plan", !.user = user, !.r = r,
                             !.ask = ask, !.extra = extra, !.seen = req[r],
                             !.balance = bal[account]]
<1>1. bal[account] \in Balance /\ req[r] \in Row
    BY DEF EditRead, TypeInv, TypeOK
<1>2. ask \in Ask /\ extra \in Extra
    BY StoreAssumption
<1> HIDE DEF account
<1>4. t \in Task
    BY <1>1, <1>2, IdleType DEF Idle, Task, OpNames, Phases
<1>5. Ready(t)
    BY <1>2 DEF Ready, Idle, RowOps
<1>6. task' = [task EXCEPT ![w] = t]
    BY DEF EditRead, account
<1>7. task' \in [Workers -> Task] /\ \A v \in Workers : Ready(task'[v])
    BY <1>4, <1>5, <1>6, TaskStep
<1> QED BY <1>7 DEF EditRead, TypeInv, TypeOK

LEMMA EditReadPlainType ==
    ASSUME TypeInv, NEW w \in Workers, NEW user \in Users, NEW r \in Requests,
           NEW extra \in Extras, EditReadPlain(w, user, r, extra)
    PROVE  TypeInv'
<1> DEFINE t == [Idle EXCEPT !.op = "edit", !.phase = "write", !.user = user, !.r = r,
                             !.extra = extra, !.seen = req[r]]
<1>1. req[r] \in Row
    BY DEF TypeInv, TypeOK
<1>2. extra \in Extra
    BY StoreAssumption
<1>3. t \in Task
    BY <1>1, <1>2, IdleType DEF Idle, Task, OpNames, Phases
<1>4. Ready(t)
    BY DEF Ready, Idle, RowOps
<1>5. task' = [task EXCEPT ![w] = t]
    BY DEF EditReadPlain
<1>6. task' \in [Workers -> Task] /\ \A v \in Workers : Ready(task'[v])
    BY <1>3, <1>4, <1>5, TaskStep
<1> QED BY <1>6 DEF EditReadPlain, TypeInv, TypeOK

LEMMA EditPlanType ==
    ASSUME TypeInv, NEW w \in Workers, EditPlan(w)
    PROVE  TypeInv'
<1> DEFINE t == task[w]
           row == PlannedRow(t, t.seen.owner, t.seen.type, {t.r})
           next == [t EXCEPT !.phase = "write", !.draft = row]
<1>1. t \in Task /\ t.op = "edit" /\ t.user \in Users /\ t.r \in Requests /\ t.ask \in Ask
    BY DEF EditPlan, TypeInv, TypeOK, Ready, RowOps, OpNames
<1>2. CASE PlanAccepted(t, t.seen.owner, t.seen.type, {t.r})
    <2>1. row \in Row
        <3>1. t.seen.owner \in Users \cup {None} /\ t.seen.type \in LeaveTypes \cup {None}
            BY <1>1 DEF Task, Row
        <3> QED BY <1>1, <3>1, PlannedRowType
    <2> HIDE DEF row
    <2>3. next \in Task
        BY <1>1, <2>1 DEF Task, Phases
    <2>4. Ready(next)
        BY <1>1 DEF Ready, Task, RowOps
    <2>5. task' = [task EXCEPT ![w] = next]
        BY <1>2 DEF EditPlan, row, TypeInv, TypeOK
    <2>6. task' \in [Workers -> Task] /\ \A v \in Workers : Ready(task'[v])
        BY <2>3, <2>4, <2>5, TaskStep
    <2> QED BY <2>6 DEF EditPlan, TypeInv, TypeOK
<1>3. CASE ~PlanAccepted(t, t.seen.owner, t.seen.type, {t.r})
    <2>1. task' \in [Workers -> Task] /\ \A v \in Workers : Ready(task'[v])
        BY <1>3, FinishStep DEF EditPlan
    <2> QED BY <2>1 DEF EditPlan, TypeInv, TypeOK
<1> QED BY <1>2, <1>3

\* What an edit form brings by itself.
LEMMA SuppliedType ==
    ASSUME NEW t \in Task
    PROVE  /\ Supplied(t) \subseteq {"type", "status", "total"}
           /\ "type" \in Supplied(t) => t.extra.type \in LeaveTypes
           /\ "status" \in Supplied(t) => t.extra.status \in Statuses \ {"NONE"}
           /\ "total" \in Supplied(t) =>
                  t.extra.total \in Nat /\ t.extra.total >= HoursPerHalf /\ t.ask = None
           /\ t.seen.status = "REVIEWING_HR" => "status" \notin Supplied(t)
<1>1. DOMAIN NoExtra = {"type", "status", "total"}
    BY DEF NoExtra
<1>2. t.extra \in Extra
    BY DEF Task
<1>3. /\ t.extra["type"] = t.extra.type /\ t.extra["status"] = t.extra.status
      /\ t.extra["total"] = t.extra.total
    OBVIOUS
<1>4. /\ t.extra.type \in LeaveTypes \cup {None}
      /\ t.extra.status \in (Statuses \ {"NONE"}) \cup {None}
      /\ t.extra.total \in {hours \in Nat : hours >= HoursPerHalf} \cup {None}
    BY <1>2 DEF Extra
<1> QED BY <1>1, <1>3, <1>4 DEF Supplied

\* The dates of a form come with their plan, over the rest of the row.
LEMMA ReplannedFields ==
    ASSUME NEW t \in Task, NEW row \in Row
    PROVE  LET new == Replanned(t, row)
           IN  /\ new \in Row
               /\ new.status = row.status /\ new.code = row.code /\ new.owner = row.owner
               /\ new.type = row.type /\ new.reviewer = row.reviewer /\ new.sent = row.sent
               /\ t.ask = None => new = row
               /\ t.ask # None => /\ new.ask = t.draft.ask /\ new.days = t.draft.days
                                  /\ new.total = t.draft.total /\ new.paid = t.draft.paid
<1>1. t.draft \in Row
    BY DEF Task
<1> QED BY <1>1 DEF Replanned, Row

\* What an edit writes over a row, column by column.
LEMMA RewrittenFields ==
    ASSUME NEW t \in Task, NEW row \in Row
    PROVE  LET new == Rewritten(t, row)
               plan == Replanned(t, row)
           IN  /\ new \in Row
               /\ new.code = row.code /\ new.owner = row.owner
               /\ new.reviewer = row.reviewer /\ new.sent = row.sent \cup Supplied(t)
               /\ new.ask = plan.ask /\ new.days = plan.days /\ new.paid = plan.paid
               /\ new.type = IF "type" \in Supplied(t) THEN t.extra.type ELSE row.type
               /\ new.status = IF "status" \in Supplied(t) THEN t.extra.status ELSE row.status
               /\ new.total = IF "total" \in Supplied(t) THEN t.extra.total ELSE plan.total
<1> DEFINE type == IF "type" \in Supplied(t) THEN t.extra.type ELSE row.type
           status == IF "status" \in Supplied(t) THEN t.extra.status ELSE row.status
           total == IF "total" \in Supplied(t) THEN t.extra.total ELSE Replanned(t, row).total
           sent == row.sent \cup Supplied(t)
           plan == Replanned(t, row)
<1>1. /\ plan \in Row /\ plan.status = row.status /\ plan.type = row.type
      /\ plan.code = row.code /\ plan.owner = row.owner /\ plan.reviewer = row.reviewer
      /\ plan.sent = row.sent
    BY ReplannedFields
<1>2. Rewritten(t, row) = [plan EXCEPT !.type = type, !.status = status, !.total = total,
                                       !.sent = sent]
    <2>1. Rewritten(t, row) =
              [plan EXCEPT
                  !.type = IF "type" \in Supplied(t) THEN t.extra.type ELSE plan.type,
                  !.status = IF "status" \in Supplied(t) THEN t.extra.status ELSE plan.status,
                  !.total = IF "total" \in Supplied(t) THEN t.extra.total ELSE plan.total,
                  !.sent = plan.sent \cup Supplied(t)]
        <3> HIDE DEF type, status, total, sent
        <3> QED BY <1>1 DEF Rewritten, Row
    <2> QED BY <1>1, <2>1
<1>3. /\ type \in LeaveTypes \cup {None} /\ status \in Statuses /\ total \in Int
      /\ sent \in SUBSET DOMAIN NoExtra
    <2>1. /\ row.type \in LeaveTypes \cup {None} /\ row.status \in Statuses
          /\ plan.total \in Int /\ row.sent \in SUBSET DOMAIN NoExtra
        BY <1>1 DEF Row
    <2>2. Supplied(t) \subseteq DOMAIN NoExtra
        BY DEF Supplied
    <2> QED BY <2>1, <2>2, SuppliedType
<1> HIDE DEF type, status, total, sent, plan
<1>4. /\ Rewritten(t, row) \in Row
      /\ Rewritten(t, row).code = plan.code /\ Rewritten(t, row).owner = plan.owner
      /\ Rewritten(t, row).reviewer = plan.reviewer /\ Rewritten(t, row).sent = sent
      /\ Rewritten(t, row).ask = plan.ask /\ Rewritten(t, row).days = plan.days
      /\ Rewritten(t, row).paid = plan.paid /\ Rewritten(t, row).type = type
      /\ Rewritten(t, row).status = status /\ Rewritten(t, row).total = total
    BY <1>1, <1>2, <1>3 DEF Row
<1> QED BY <1>1, <1>4 DEF type, status, total, sent, plan

\* What the requeueing adds to it.
LEMMA RequeuedFields ==
    ASSUME NEW t \in Task, NEW row \in Row
    PROVE  LET new == Requeued(t, row)
           IN  /\ new \in Row
               /\ new.code = row.code /\ new.owner = row.owner /\ new.type = row.type
               /\ new.ask = row.ask /\ new.days = row.days /\ new.total = row.total
               /\ new.paid = row.paid /\ new.sent = row.sent
               /\ t.seen.status = "REVIEWING_HR" =>
                      new.status = "PENDING_VERIFY" /\ new.reviewer = None
               /\ t.seen.status # "REVIEWING_HR" =>
                      new.status = row.status /\ new.reviewer = row.reviewer
BY DEF Requeued, Row, Statuses, LiveStatuses, PendingStatuses

\* What an edit writes over a row is a row; its owner stays, and so do its type and
\* its status, but for what the form names and for going back to the queue.
LEMMA RewrittenType ==
    ASSUME NEW t \in Task, NEW row \in Row
    PROVE  LET new == Requeued(t, Rewritten(t, row))
           IN  /\ new \in Row /\ new.owner = row.owner
               /\ new.sent = row.sent \cup Supplied(t)
               /\ "type" \notin Supplied(t) => new.type = row.type
               /\ \/ new.status \in {row.status, "PENDING_VERIFY"}
                  \/ /\ "status" \in Supplied(t)
                     /\ new.status = t.extra.status /\ new.status \in Statuses \ {"NONE"}
<1>1. PICK mid : mid = Rewritten(t, row)
    OBVIOUS
<1>2. /\ mid \in Row /\ mid.owner = row.owner /\ mid.sent = row.sent \cup Supplied(t)
      /\ "type" \notin Supplied(t) => mid.type = row.type
      /\ mid.status = IF "status" \in Supplied(t) THEN t.extra.status ELSE row.status
    BY <1>1, RewrittenFields
<1>3. "status" \in Supplied(t) => t.extra.status \in Statuses \ {"NONE"}
    BY SuppliedType
<1>4. PICK new : new = Requeued(t, mid)
    OBVIOUS
<1>5. /\ new \in Row /\ new.owner = mid.owner /\ new.sent = mid.sent /\ new.type = mid.type
      /\ new.status \in {mid.status, "PENDING_VERIFY"}
    BY <1>2, <1>4, RequeuedFields
<1> QED BY <1>1, <1>2, <1>3, <1>4, <1>5

LEMMA EditWriteType ==
    ASSUME TypeInv, NEW w \in Workers, EditWrite(w)
    PROVE  TypeInv'
<1> DEFINE t == task[w]
<1>1. t \in Task /\ t.r \in Requests
    BY DEF EditWrite, TypeInv, TypeOK, Ready, RowOps, OpNames
<1>2. Requeued(t, Rewritten(t, req[t.r])) \in Row
    BY <1>1, RewrittenType DEF TypeInv, TypeOK
<1>3. req' \in [Requests -> Row]
    BY <1>2 DEF EditWrite, TypeInv, TypeOK
<1>4. task' \in [Workers -> Task] /\ \A v \in Workers : Ready(task'[v])
    BY FinishStep DEF EditWrite
<1> QED BY <1>3, <1>4 DEF EditWrite, TypeInv, TypeOK

LEMMA CancelReadType ==
    ASSUME TypeInv, NEW w \in Workers, NEW user \in Users, NEW r \in Requests,
           CancelRead(w, user, r)
    PROVE  TypeInv'
<1> DEFINE t == [Idle EXCEPT !.op = "cancel", !.phase = "write", !.user = user, !.r = r,
                             !.seen = req[r]]
<1>1. req[r] \in Row
    BY DEF TypeInv, TypeOK
<1>2. t \in Task
    BY <1>1, IdleType DEF Idle, Task, OpNames, Phases
<1>3. Ready(t)
    BY DEF Ready, Idle, RowOps
<1>4. task' = [task EXCEPT ![w] = t]
    BY DEF CancelRead
<1>5. task' \in [Workers -> Task] /\ \A v \in Workers : Ready(task'[v])
    BY <1>2, <1>3, <1>4, TaskStep
<1> QED BY <1>5 DEF CancelRead, TypeInv, TypeOK

\* A row stays a row when its status and reviewer change.
LEMMA StatusStep ==
    ASSUME TypeInv, NEW r \in Requests, NEW status \in Statuses
    PROVE  /\ [req EXCEPT ![r].status = status] \in [Requests -> Row]
           /\ \A user \in Users \cup {None} :
                [req EXCEPT ![r].status = status, ![r].reviewer = user] \in [Requests -> Row]
<1>1. req[r] \in Row /\ req \in [Requests -> Row]
    BY DEF TypeInv, TypeOK
<1>2. [req[r] EXCEPT !.status = status] \in Row
    BY <1>1 DEF Row
<1>3. ASSUME NEW user \in Users \cup {None}
      PROVE  [req[r] EXCEPT !.status = status, !.reviewer = user] \in Row
    BY <1>1 DEF Row
<1> QED BY <1>1, <1>2, <1>3

\* The approval rows stay approval rows when one is added.
LEMMA LogStep ==
    ASSUME TypeInv, NEW r \in Requests, NEW user \in Users, NEW status \in Statuses
    PROVE  [log EXCEPT ![r] = Append(@, [by |-> user, status |-> status])]
             \in [Requests -> Seq(Entry)]
<1>1. [by |-> user, status |-> status] \in Entry
    BY DEF Entry
<1>2. log \in [Requests -> Seq(Entry)]
    BY DEF TypeInv, TypeOK
<1> QED BY <1>1, <1>2

\* So does a row HR takes under review.
LEMMA AcquiredType ==
    ASSUME TypeInv, NEW r \in Requests, NEW user \in Users
    PROVE  Acquired(r, user) \in [Requests -> Row]
<1>1. "REVIEWING_HR" \in Statuses
    BY DEF Statuses, LiveStatuses, PendingStatuses
<1> QED BY <1>1, StatusStep DEF Acquired

LEMMA CancelWriteType ==
    ASSUME TypeInv, NEW w \in Workers, CancelWrite(w)
    PROVE  TypeInv'
<1>1. task[w].r \in Requests
    BY DEF CancelWrite, TypeInv, Ready, RowOps, OpNames
<1>2. req' \in [Requests -> Row]
    BY <1>1, StatusStep DEF CancelWrite, Statuses, LiveStatuses
<1>3. task' \in [Workers -> Task] /\ \A v \in Workers : Ready(task'[v])
    BY FinishStep DEF CancelWrite
<1> QED BY <1>2, <1>3 DEF CancelWrite, TypeInv, TypeOK

LEMMA ViewReadType ==
    ASSUME TypeInv, NEW w \in Workers, NEW user \in Users, NEW r \in Requests,
           ViewRead(w, user, r)
    PROVE  TypeInv'
<1> DEFINE t == [Idle EXCEPT !.op = "view", !.phase = "acquire", !.user = user, !.r = r,
                             !.seen = req[r]]
<1>1. req[r] \in Row
    BY DEF TypeInv, TypeOK
<1>2. t \in Task
    BY <1>1, IdleType DEF Idle, Task, OpNames, Phases
<1>3. Ready(t)
    BY DEF Ready, Idle, RowOps
<1>4. task' = [task EXCEPT ![w] = t]
    BY DEF ViewRead
<1>5. task' \in [Workers -> Task] /\ \A v \in Workers : Ready(task'[v])
    BY <1>2, <1>3, <1>4, TaskStep
<1> QED BY <1>5 DEF ViewRead, TypeInv, TypeOK

LEMMA ViewAcquireType ==
    ASSUME TypeInv, NEW w \in Workers, ViewAcquire(w)
    PROVE  TypeInv'
<1>1. task[w].r \in Requests /\ task[w].user \in Users
    BY DEF ViewAcquire, TypeInv, Ready, RowOps, OpNames
<1>2. req' \in [Requests -> Row]
    BY <1>1, AcquiredType DEF ViewAcquire, TypeInv, TypeOK
<1>3. task' \in [Workers -> Task] /\ \A v \in Workers : Ready(task'[v])
    BY FinishStep DEF ViewAcquire
<1> QED BY <1>2, <1>3 DEF ViewAcquire, TypeInv, TypeOK

LEMMA HrReadType ==
    ASSUME TypeInv, NEW w \in Workers, NEW user \in Users, NEW r \in Requests,
           NEW action \in {"Approve", "Reject"}, HrRead(w, user, r, action)
    PROVE  TypeInv'
<1> DEFINE t == [Idle EXCEPT !.op = "hr", !.phase = HrNextPhase(req[r]), !.user = user, !.r = r,
                             !.action = action, !.seen = req[r]]
<1>1. req[r] \in Row
    BY DEF TypeInv, TypeOK
<1>2. HrNextPhase(req[r]) \in {"acquire", "decide", "claim"}
    BY DEF HrRead, HrNextPhase
<1>3. t \in Task
    BY <1>1, <1>2, IdleType DEF Idle, Task, OpNames, Phases
<1>4. Ready(t)
    BY <1>2 DEF Ready, Idle, RowOps
<1>5. task' = [task EXCEPT ![w] = t]
    BY DEF HrRead
<1>6. task' \in [Workers -> Task] /\ \A v \in Workers : Ready(task'[v])
    BY <1>3, <1>4, <1>5, TaskStep
<1> QED BY <1>6 DEF HrRead, TypeInv, TypeOK

\* A handler goes on to its next phase.
LEMMA PhaseStep ==
    ASSUME TypeInv, NEW w \in Workers, NEW phase \in Phases \ {"plan"},
           NEW balance \in Balance \cup {None}
    PROVE  /\ task' = [task EXCEPT ![w].phase = phase, ![w].balance = balance] =>
                 task' \in [Workers -> Task] /\ \A v \in Workers : Ready(task'[v])
           /\ task' = [task EXCEPT ![w].phase = phase] =>
                 task' \in [Workers -> Task] /\ \A v \in Workers : Ready(task'[v])
<1>1. task[w] \in Task /\ Ready(task[w]) /\ task \in [Workers -> Task]
    BY DEF TypeInv, TypeOK
<1>2. /\ [task[w] EXCEPT !.phase = phase, !.balance = balance] \in Task
      /\ [task[w] EXCEPT !.phase = phase] \in Task
    BY <1>1 DEF Task
<1>3. /\ Ready([task[w] EXCEPT !.phase = phase, !.balance = balance])
      /\ Ready([task[w] EXCEPT !.phase = phase])
    BY <1>1 DEF Ready, Task
<1> QED BY <1>1, <1>2, <1>3, TaskStep

LEMMA HrAcquireType ==
    ASSUME TypeInv, NEW w \in Workers, HrAcquire(w)
    PROVE  TypeInv'
<1>1. task[w].r \in Requests /\ task[w].user \in Users
    BY DEF HrAcquire, TypeInv, Ready, RowOps, OpNames
<1>2. req' \in [Requests -> Row]
    BY <1>1, AcquiredType DEF HrAcquire, TypeInv, TypeOK
<1>3. task' \in [Workers -> Task] /\ \A v \in Workers : Ready(task'[v])
    <2>1. "decide" \in Phases \ {"plan"}
        BY DEF Phases
    <2> QED BY <2>1, FinishStep, PhaseStep DEF HrAcquire
<1> QED BY <1>2, <1>3 DEF HrAcquire, TypeInv, TypeOK

LEMMA HrDecideType ==
    ASSUME TypeInv, NEW w \in Workers, HrDecide(w)
    PROVE  TypeInv'
<1>1. task[w].r \in Requests /\ task[w].user \in Users
    BY DEF HrDecide, TypeInv, Ready, RowOps, OpNames
<1>2. Verdict(task[w]) \in Statuses
    BY DEF Verdict, Statuses, LiveStatuses, PendingStatuses, DeadStatuses
<1>3. req' \in [Requests -> Row]
    BY <1>1, <1>2, StatusStep DEF HrDecide
<1>4. log' \in [Requests -> Seq(Entry)]
    BY <1>1, <1>2, LogStep DEF HrDecide
<1>5. task' \in [Workers -> Task] /\ \A v \in Workers : Ready(task'[v])
    BY FinishStep DEF HrDecide
<1> QED BY <1>3, <1>4, <1>5 DEF HrDecide, TypeInv, TypeOK

\* The balance row a decision reads is a balance row, or missing.
LEMMA BalanceOfType == ASSUME TypeInv, NEW row PROVE BalanceOf(row) \in Balance \cup {None}
BY DEF BalanceOf, TypeInv, TypeOK

LEMMA HrCancelBeginType ==
    ASSUME TypeInv, NEW w \in Workers, HrCancelBegin(w)
    PROVE  TypeInv'
<1>1. task' \in [Workers -> Task] /\ \A v \in Workers : Ready(task'[v])
    <2>1. "tx" \in Phases \ {"plan"}
        BY DEF Phases
    <2> QED BY <2>1, PhaseStep, BalanceOfType DEF HrCancelBegin
<1> QED BY <1>1 DEF HrCancelBegin, TypeInv, TypeOK

LEMMA HrCancelCommitType ==
    ASSUME TypeInv, NEW w \in Workers, HrCancelCommit(w)
    PROVE  TypeInv'
<1> DEFINE t == task[w]
           status == IF t.action = "Approve" THEN "CANCELLED" ELSE "APPROVED"
<1>1. t \in Task /\ t.r \in Requests /\ t.user \in Users
    BY DEF HrCancelCommit, TypeInv, TypeOK, Ready, RowOps, OpNames
<1>2. status \in Statuses
    BY DEF Statuses, LiveStatuses, DeadStatuses
<1>3. req' \in [Requests -> Row]
    BY <1>1, <1>2, StatusStep DEF HrCancelCommit
<1>4. log' \in [Requests -> Seq(Entry)]
    BY <1>1, <1>2, LogStep DEF HrCancelCommit
<1>5. bal' \in [Accounts -> Balance]
    <2>1. t.balance \in Balance \cup {None} /\ t.seen.total \in Int
        BY <1>1 DEF Task, Row
    <2>2. t.balance # None => Refunded(t.balance, t.seen.total) \in Balance
        BY <2>1, RefundedType
    <2> QED BY <2>2 DEF HrCancelCommit, TypeInv, TypeOK
<1>6. task' \in [Workers -> Task] /\ \A v \in Workers : Ready(task'[v])
    BY FinishStep DEF HrCancelCommit
<1> QED BY <1>3, <1>4, <1>5, <1>6 DEF HrCancelCommit, TypeInv, TypeOK

LEMMA ManagerReadType ==
    ASSUME TypeInv, NEW w \in Workers, NEW user \in Users, NEW r \in Requests,
           NEW action \in {"Approve", "Reject"}, ManagerRead(w, user, r, action)
    PROVE  TypeInv'
<1> DEFINE t == [Idle EXCEPT !.op = "manager", !.phase = "claim", !.user = user, !.r = r,
                             !.action = action, !.seen = req[r]]
<1>1. req[r] \in Row
    BY DEF TypeInv, TypeOK
<1>2. t \in Task
    BY <1>1, IdleType DEF Idle, Task, OpNames, Phases
<1>3. Ready(t)
    BY DEF Ready, Idle, RowOps
<1>4. task' = [task EXCEPT ![w] = t]
    BY DEF ManagerRead
<1>5. task' \in [Workers -> Task] /\ \A v \in Workers : Ready(task'[v])
    BY <1>2, <1>3, <1>4, TaskStep
<1> QED BY <1>5 DEF ManagerRead, TypeInv, TypeOK

LEMMA CeoReadType ==
    ASSUME TypeInv, NEW w \in Workers, NEW user \in Users, NEW r \in Requests,
           NEW action \in {"Approve", "Reject"}, CeoRead(w, user, r, action)
    PROVE  TypeInv'
<1> DEFINE t == [Idle EXCEPT !.op = "ceo", !.phase = "claim", !.user = user, !.r = r,
                             !.action = action, !.seen = req[r]]
<1>1. req[r] \in Row
    BY DEF TypeInv, TypeOK
<1>2. t \in Task
    BY <1>1, IdleType DEF Idle, Task, OpNames, Phases
<1>3. Ready(t)
    BY DEF Ready, Idle, RowOps
<1>4. task' = [task EXCEPT ![w] = t]
    BY DEF CeoRead
<1>5. task' \in [Workers -> Task] /\ \A v \in Workers : Ready(task'[v])
    BY <1>2, <1>3, <1>4, TaskStep
<1> QED BY <1>5 DEF CeoRead, TypeInv, TypeOK

LEMMA ClaimType ==
    ASSUME TypeInv, NEW w \in Workers, Claim(w)
    PROVE  TypeInv'
<1>1. task' \in [Workers -> Task] /\ \A v \in Workers : Ready(task'[v])
    <2>1. "tx" \in Phases \ {"plan"}
        BY DEF Phases
    <2> QED BY <2>1, PhaseStep, FinishStep, BalanceOfType DEF Claim
<1> QED BY <1>1 DEF Claim, TypeInv, TypeOK

LEMMA CommitType ==
    ASSUME TypeInv, NEW w \in Workers, Commit(w)
    PROVE  TypeInv'
<1> DEFINE t == task[w]
<1>1. t \in Task /\ t.r \in Requests /\ t.user \in Users
    BY DEF Commit, TypeInv, TypeOK, Ready, RowOps, OpNames
<1>2. Outcome(t) \in Statuses
    BY DEF Outcome, Statuses, LiveStatuses, PendingStatuses, DeadStatuses
<1>3. req' \in [Requests -> Row]
    BY <1>1, <1>2, StatusStep DEF Commit
<1>4. log' \in [Requests -> Seq(Entry)]
    BY <1>1, <1>2, LogStep DEF Commit
<1>5. bal' \in [Accounts -> Balance]
    <2>1. t.balance \in Balance \cup {None} /\ t.seen.total \in Int
        BY <1>1 DEF Task, Row
    <2>2. Charges(t) => Deducted(t.balance, t.seen.total) \in Balance
        BY <2>1, DeductedType DEF Charges
    <2> QED BY <2>2 DEF Commit, TypeInv, TypeOK
<1>6. task' \in [Workers -> Task] /\ \A v \in Workers : Ready(task'[v])
    BY FinishStep DEF Commit
<1> QED BY <1>3, <1>4, <1>5, <1>6 DEF Commit, TypeInv, TypeOK

\* Handlers that end without writing.
LEMMA QuietEndType ==
    ASSUME TypeInv, NEW w \in Workers, Rollback(w) \/ Fail(w)
    PROVE  TypeInv'
<1>1. task' \in [Workers -> Task] /\ \A v \in Workers : Ready(task'[v])
    BY FinishStep DEF Rollback, Fail
<1> QED BY <1>1 DEF Rollback, Fail, TypeInv, TypeOK

LEMMA MidnightType == ASSUME TypeInv, Midnight PROVE TypeInv'
BY DEF Midnight, TypeInv, TypeOK

-----------------------------------------------------------------------------
LEMMA InitType == Init => TypeInv
<1> SUFFICES ASSUME Init PROVE TypeInv
    OBVIOUS
<1>1. req \in [Requests -> Row]
    BY IdleType DEF Init, StoreInit
<1>2. bal \in [Accounts -> Balance]
    <2>1. \A a \in Accounts : Quota[a] \in Int
        BY StoreAssumption
    <2> QED BY <2>1 DEF Init, StoreInit, Balance
<1>3. log \in [Requests -> Seq(Entry)]
    BY DEF Init, StoreInit
<1>4. task \in [Workers -> Task] /\ \A w \in Workers : Ready(task[w])
    BY IdleType DEF Init, StoreInit
<1> QED BY <1>1, <1>2, <1>3, <1>4 DEF Init, StoreInit, TypeInv, TypeOK

LEMMA NextType == TypeInv /\ [Next]_vars => TypeInv'
<1> SUFFICES ASSUME TypeInv, [Next]_vars PROVE TypeInv'
    OBVIOUS
<1>1. ASSUME NEW w \in Workers, EmployeeCall(w) PROVE TypeInv'
    BY <1>1, CreateReadType, EditReadType, EditReadPlainType, CancelReadType DEF EmployeeCall
<1>2. ASSUME NEW w \in Workers, HrCall(w) PROVE TypeInv'
    BY <1>2, ViewReadType, HrReadType DEF HrCall
<1>3. ASSUME NEW w \in Workers, ApproverCall(w) PROVE TypeInv'
    BY <1>3, ManagerReadType, CeoReadType DEF ApproverCall
<1>4. ASSUME NEW w \in Workers, EmployeeStep(w) PROVE TypeInv'
    BY <1>4, CreatePlanType, CreateCodeType, CreateInsertType, EditPlanType, EditWriteType,
       CancelWriteType DEF EmployeeStep
<1>5. ASSUME NEW w \in Workers, HrStep(w) PROVE TypeInv'
    BY <1>5, ViewAcquireType, HrAcquireType, HrDecideType, HrCancelBeginType,
       HrCancelCommitType DEF HrStep
<1>6. ASSUME NEW w \in Workers, ApproverStep(w) PROVE TypeInv'
    BY <1>6, ClaimType, CommitType, QuietEndType DEF ApproverStep
<1>7. CASE UNCHANGED vars
    BY <1>7 DEF vars, TypeInv, TypeOK
<1> QED BY <1>1, <1>2, <1>3, <1>4, <1>5, <1>6, <1>7, QuietEndType, MidnightType
        DEF Next, Call, Step

\* The tables and the handlers in flight keep their types, whatever overlaps.
THEOREM TypeCorrect == Spec => []TypeOK
<1>1. TypeInv => TypeOK
    BY DEF TypeInv
<1> QED BY <1>1, InitType, NextType, PTL DEF Spec

-----------------------------------------------------------------------------
(* Nobody decides their own leave. *)

Deciders == {"hr", "manager", "ceo"}

\* What a handler in flight has checked about its caller and what it read.
JobOK(t) ==
    /\ t.op \in Deciders => t.user # t.seen.owner
    /\ t.op = "cancel" => t.seen.status = "APPROVED"
    /\ t.op = "hr" => /\ RoleOf[t.user] = "HR"
                      /\ t.phase \in {"claim", "tx"} => t.seen.status = "PENDING_CANCELLATION"
    /\ t.op = "manager" => /\ t.seen.status = "PENDING_SUPERVISOR"
                           /\ MayHead(t.user) /\ DeptOf[t.user] = DeptOf[t.seen.owner]
    /\ t.op = "ceo" => RoleOf[t.user] = "CEO" /\ t.seen.status = "PENDING_EXECUTIVE"

\* What it read that no other handler can change meanwhile: the row exists, its
\* owner stays, and so does its type if no form ever named another.
Known(t) ==
    t.op \in RowOps =>
        /\ req[t.r].status # "NONE"
        /\ req[t.r].owner = t.seen.owner
        /\ "type" \notin req[t.r].sent => req[t.r].type = t.seen.type

\* The inductive invariant: without what handlers in flight know, a decision
\* that is under way could still turn out to be its owner's.
DecisionInv ==
    /\ \A w \in Workers : JobOK(task[w]) /\ Known(task[w])
    /\ \A r \in Requests : req[r].status = "NONE" => log[r] = <<>>
    /\ NobodyDecidesOwnLeave

\* A call starts a handler on a request as it is, and writes nothing.
LEMMA CallShape ==
    ASSUME TypeInv, NEW w \in Workers, Call(w)
    PROVE  \E t : /\ task' = [task EXCEPT ![w] = t] /\ UNCHANGED <<req, log>>
                  /\ JobOK(t)
                  /\ t.op \in RowOps => /\ t.r \in Requests /\ t.seen = req[t.r]
                                        /\ req[t.r].status # "NONE"
<1> DEFINE Shape(t) == /\ task' = [task EXCEPT ![w] = t] /\ UNCHANGED <<req, log>>
                       /\ JobOK(t)
                       /\ t.op \in RowOps => /\ t.r \in Requests /\ t.seen = req[t.r]
                                             /\ req[t.r].status # "NONE"
<1> SUFFICES \E t : Shape(t)
    OBVIOUS
<1>1. ASSUME NEW user \in Users, NEW ask \in Asks, NEW type \in LeaveTypes,
             CreateRead(w, user, ask, type)
      PROVE  \E t : Shape(t)
    <2> DEFINE t == [Idle EXCEPT !.op = "create", !.phase = "plan", !.user = user, !.ask = ask,
                                 !.draft = [NoRow EXCEPT !.type = type],
                                 !.balance = bal[<<user, type, ThisYear>>]]
    <2>1. t.op = "create"
        BY DEF Idle
    <2>2. task' = [task EXCEPT ![w] = t] /\ UNCHANGED <<req, log>>
        BY <1>1 DEF CreateRead
    <2> HIDE DEF t
    <2>3. Shape(t)
        BY <2>1, <2>2 DEF JobOK, Deciders, RowOps
    <2> QED BY <2>3
<1>2. ASSUME NEW user \in Users, NEW r \in Requests, NEW ask \in Asks,
             NEW extra \in Extras, EditRead(w, user, r, ask, extra)
      PROVE  \E t : Shape(t)
    <2> DEFINE t == [Idle EXCEPT !.op = "edit", !.phase = "plan", !.user = user, !.r = r,
                                 !.ask = ask, !.extra = extra, !.seen = req[r],
                                 !.balance = bal[<<req[r].owner, req[r].type, ThisYear>>]]
    <2>1. t.op = "edit" /\ t.r = r /\ t.seen = req[r]
        BY DEF Idle
    <2>2. task' = [task EXCEPT ![w] = t] /\ UNCHANGED <<req, log>>
        BY <1>2 DEF EditRead
    <2>3. req[r].status # "NONE"
        BY <1>2 DEF EditRead, MayEdit
    <2> HIDE DEF t
    <2>4. Shape(t)
        BY <2>1, <2>2, <2>3 DEF JobOK, Deciders
    <2> QED BY <2>4
<1>3. ASSUME NEW user \in Users, NEW r \in Requests, NEW extra \in Extras,
             EditReadPlain(w, user, r, extra)
      PROVE  \E t : Shape(t)
    <2> DEFINE t == [Idle EXCEPT !.op = "edit", !.phase = "write", !.user = user, !.r = r,
                                 !.extra = extra, !.seen = req[r]]
    <2>1. t.op = "edit" /\ t.r = r /\ t.seen = req[r]
        BY DEF Idle
    <2>2. task' = [task EXCEPT ![w] = t] /\ UNCHANGED <<req, log>>
        BY <1>3 DEF EditReadPlain
    <2>3. req[r].status # "NONE"
        BY <1>3 DEF EditReadPlain, MayEdit
    <2> HIDE DEF t
    <2>4. Shape(t)
        BY <2>1, <2>2, <2>3 DEF JobOK, Deciders
    <2> QED BY <2>4
<1>4. ASSUME NEW user \in Users, NEW r \in Requests, CancelRead(w, user, r)
      PROVE  \E t : Shape(t)
    <2> DEFINE t == [Idle EXCEPT !.op = "cancel", !.phase = "write", !.user = user, !.r = r,
                                 !.seen = req[r]]
    <2>1. t.op = "cancel" /\ t.r = r /\ t.seen = req[r]
        BY DEF Idle
    <2>2. /\ task' = [task EXCEPT ![w] = t] /\ UNCHANGED <<req, log>>
          /\ req[r].status = "APPROVED"
        BY <1>4 DEF CancelRead
    <2> HIDE DEF t
    <2>3. Shape(t)
        BY <2>1, <2>2 DEF JobOK, Deciders
    <2> QED BY <2>3
<1>5. ASSUME NEW user \in Users, NEW r \in Requests, ViewRead(w, user, r)
      PROVE  \E t : Shape(t)
    <2> DEFINE t == [Idle EXCEPT !.op = "view", !.phase = "acquire", !.user = user, !.r = r,
                                 !.seen = req[r]]
    <2>1. t.op = "view" /\ t.r = r /\ t.seen = req[r]
        BY DEF Idle
    <2>2. /\ task' = [task EXCEPT ![w] = t] /\ UNCHANGED <<req, log>>
          /\ req[r].status # "NONE"
        BY <1>5 DEF ViewRead
    <2> HIDE DEF t
    <2>3. Shape(t)
        BY <2>1, <2>2 DEF JobOK, Deciders
    <2> QED BY <2>3
<1>6. ASSUME NEW user \in Users, NEW r \in Requests, NEW action \in {"Approve", "Reject"},
             HrRead(w, user, r, action)
      PROVE  \E t : Shape(t)
    <2> DEFINE t == [Idle EXCEPT !.op = "hr", !.phase = HrNextPhase(req[r]), !.user = user,
                                 !.r = r, !.action = action, !.seen = req[r]]
    <2>1. /\ t.op = "hr" /\ t.r = r /\ t.seen = req[r] /\ t.user = user
          /\ t.phase = HrNextPhase(req[r])
        BY DEF Idle
    <2>2. /\ task' = [task EXCEPT ![w] = t] /\ UNCHANGED <<req, log>>
          /\ req[r].status # "NONE" /\ RoleOf[user] = "HR" /\ req[r].owner # user
        BY <1>6 DEF HrRead, MayVerify
    <2>3. HrNextPhase(req[r]) \in {"claim", "tx"} => req[r].status = "PENDING_CANCELLATION"
        BY <1>6 DEF HrRead, HrNextPhase
    <2> HIDE DEF t
    <2>4. Shape(t)
        BY <2>1, <2>2, <2>3 DEF JobOK, Deciders
    <2> QED BY <2>4
<1>7. ASSUME NEW user \in Users, NEW r \in Requests, NEW action \in {"Approve", "Reject"},
             ManagerRead(w, user, r, action)
      PROVE  \E t : Shape(t)
    <2> DEFINE t == [Idle EXCEPT !.op = "manager", !.phase = "claim", !.user = user, !.r = r,
                                 !.action = action, !.seen = req[r]]
    <2>1. t.op = "manager" /\ t.r = r /\ t.seen = req[r] /\ t.user = user
        BY DEF Idle
    <2>2. /\ task' = [task EXCEPT ![w] = t] /\ UNCHANGED <<req, log>>
          /\ req[r].status = "PENDING_SUPERVISOR" /\ req[r].owner # user
          /\ MayHead(user) /\ DeptOf[req[r].owner] = DeptOf[user]
        BY <1>7 DEF ManagerRead
    <2> HIDE DEF t
    <2>3. Shape(t)
        BY <2>1, <2>2 DEF JobOK, Deciders
    <2> QED BY <2>3
<1>8. ASSUME NEW user \in Users, NEW r \in Requests, NEW action \in {"Approve", "Reject"},
             CeoRead(w, user, r, action)
      PROVE  \E t : Shape(t)
    <2> DEFINE t == [Idle EXCEPT !.op = "ceo", !.phase = "claim", !.user = user, !.r = r,
                                 !.action = action, !.seen = req[r]]
    <2>1. t.op = "ceo" /\ t.r = r /\ t.seen = req[r] /\ t.user = user
        BY DEF Idle
    <2>2. /\ task' = [task EXCEPT ![w] = t] /\ UNCHANGED <<req, log>>
          /\ req[r].status = "PENDING_EXECUTIVE" /\ req[r].owner # user
          /\ RoleOf[user] = "CEO"
        BY <1>8 DEF CeoRead
    <2> HIDE DEF t
    <2>3. Shape(t)
        BY <2>1, <2>2 DEF JobOK, Deciders
    <2> QED BY <2>3
<1> HIDE DEF Shape
<1> QED BY <1>1, <1>2, <1>3, <1>4, <1>5, <1>6, <1>7, <1>8
        DEF Call, EmployeeCall, HrCall, ApproverCall

\* A handler that goes on is about the same request, for the same caller.
SameJob(t, u) ==
    /\ t.op = u.op /\ t.r = u.r /\ t.user = u.user /\ t.seen = u.seen /\ t.extra = u.extra
    /\ t.phase \in {"claim", "tx"} => u.op # "hr" \/ u.phase \in {"claim", "tx"}

\* A handler's step ends it or goes on with the same job.
LEMMA StepShape ==
    ASSUME TypeInv, NEW w \in Workers, Step(w) \/ Fail(w)
    PROVE  \E t : task' = [task EXCEPT ![w] = t] /\ (t = Idle \/ SameJob(t, task[w]))
<1> DEFINE Shape == \E t : task' = [task EXCEPT ![w] = t] /\ (t = Idle \/ SameJob(t, task[w]))
<1> SUFFICES Shape
    OBVIOUS
<1>0. task \in [Workers -> Task] /\ task[w] \in Task
    BY DEF TypeInv, TypeOK
<1>1. Finish(w) => Shape
    BY DEF Finish
<1>2. ASSUME NEW phase, NEW draft, NEW balance,
             phase \in {"claim", "tx"} =>
                 task[w].op # "hr" \/ task[w].phase \in {"claim", "tx"},
             \/ task' = [task EXCEPT ![w].phase = phase]
             \/ task' = [task EXCEPT ![w].phase = phase, ![w].draft = draft]
             \/ task' = [task EXCEPT ![w].phase = phase, ![w].balance = balance]
      PROVE  Shape
    <2> DEFINE a == [task[w] EXCEPT !.phase = phase]
               b == [task[w] EXCEPT !.phase = phase, !.draft = draft]
               c == [task[w] EXCEPT !.phase = phase, !.balance = balance]
    <2>1. \/ task' = [task EXCEPT ![w] = a]
          \/ task' = [task EXCEPT ![w] = b]
          \/ task' = [task EXCEPT ![w] = c]
        BY <1>0, <1>2
    <2>2. SameJob(a, task[w]) /\ SameJob(b, task[w]) /\ SameJob(c, task[w])
        BY <1>0, <1>2 DEF SameJob, Task
    <2> HIDE DEF a, b, c
    <2> QED BY <2>1, <2>2
<1> HIDE DEF Shape
<1>3. CASE CreatePlan(w)
    <2>1. task[w].op = "create"
        BY <1>3 DEF CreatePlan
    <2> QED BY <2>1, <1>1, <1>2, <1>3 DEF CreatePlan
<1>4. CASE CreateCode(w)
    <2> DEFINE draft == [task[w].draft EXCEPT !.code = <<task[w].draft.type, NextSeq, ThisYear>>]
    <2>1. task[w].op = "create"
        BY <1>4 DEF CreateCode
    <2>2. task' = [task EXCEPT ![w].phase = "insert", ![w].draft = draft]
        BY <1>0, <1>4 DEF CreateCode
    <2> HIDE DEF draft
    <2> QED BY <2>1, <2>2, <1>2
<1>5. CASE EditPlan(w)
    <2> DEFINE t == task[w]
               draft == PlannedRow(t, t.seen.owner, t.seen.type, {t.r})
    <2>1. t.op # "hr"
        BY <1>5 DEF EditPlan
    <2>2. task' = [task EXCEPT ![w].phase = "write", ![w].draft = draft] \/ Finish(w)
        BY <1>5 DEF EditPlan
    <2> HIDE DEF draft
    <2> QED BY <2>1, <2>2, <1>1, <1>2
<1>6. CASE HrAcquire(w)
    <2>1. /\ task' = [task EXCEPT ![w].phase = "decide"] \/ Finish(w)
          /\ task[w].op # "edit"
        BY <1>6 DEF HrAcquire
    <2>2. [task EXCEPT ![w].phase = "decide"] =
            [task EXCEPT ![w].phase = "decide", ![w].balance = task[w].balance]
        BY <1>0 DEF Task
    <2> QED BY <2>1, <2>2, <1>1, <1>2
<1>7. CASE HrCancelBegin(w) \/ Claim(w)
    <2>1. \/ task' = [task EXCEPT ![w].phase = "tx", ![w].balance = BalanceOf(task[w].seen)]
          \/ Finish(w)
        BY <1>7 DEF HrCancelBegin, Claim
    <2>2. task[w].op # "edit" /\ (task[w].op # "hr" \/ task[w].phase \in {"claim", "tx"})
        BY <1>7 DEF HrCancelBegin, Claim
    <2> QED BY <2>1, <2>2, <1>1, <1>2
<1>8. CASE CreateInsert(w) \/ EditWrite(w) \/ CancelWrite(w) \/ ViewAcquire(w) \/ HrDecide(w)
           \/ HrCancelCommit(w) \/ Commit(w) \/ Rollback(w) \/ Fail(w)
    <2>1. Finish(w)
        BY <1>8 DEF CreateInsert, EditWrite, CancelWrite, ViewAcquire, HrDecide,
                    HrCancelCommit, Commit, Rollback, Fail
    <2> QED BY <2>1, <1>1
<1> QED BY <1>3, <1>4, <1>5, <1>6, <1>7, <1>8 DEF Step, EmployeeStep, HrStep, ApproverStep

\* What a handler has checked stays checked.
LEMMA JobKept ==
    ASSUME NEW t, NEW u, JobOK(u), t = Idle \/ SameJob(t, u)
    PROVE  JobOK(t)
<1>1. JobOK(Idle)
    BY DEF JobOK, Idle, Deciders
<1>2. SameJob(t, u) => JobOK(t)
    BY DEF SameJob, JobOK, Deciders
<1> QED BY <1>1, <1>2

\* A filed request stays filed, with its owner and what forms brought to it, and with
\* its type if none of them named another.
RowsKept ==
    \A r \in Requests :
        req[r].status # "NONE" =>
            /\ req'[r].status # "NONE"
            /\ req'[r].owner = req[r].owner
            /\ req[r].sent \subseteq req'[r].sent
            /\ "type" \notin req'[r].sent => req'[r].type = req[r].type

LEMMA StepKeepsRows ==
    ASSUME TypeInv, NEW w \in Workers, JobOK(task[w]), Step(w) \/ Fail(w)
    PROVE  RowsKept
<1>0. req \in [Requests -> Row]
    BY DEF TypeInv, TypeOK
<1>1. CASE UNCHANGED req
    BY <1>1 DEF RowsKept
<1>2. ASSUME NEW q, NEW status \in Statuses \ {"NONE"}, NEW reviewer,
             \/ req' = [req EXCEPT ![q].status = status]
             \/ req' = [req EXCEPT ![q].status = status, ![q].reviewer = reviewer]
      PROVE  RowsKept
    <2> SUFFICES ASSUME NEW r \in Requests, req[r].status # "NONE"
                 PROVE  /\ req'[r].status # "NONE" /\ req'[r].owner = req[r].owner
                        /\ req'[r].type = req[r].type /\ req'[r].sent = req[r].sent
        BY DEF RowsKept
    <2>1. CASE r = q
        <3>1. req[r] \in Row
            BY <1>0
        <3> QED BY <1>0, <1>2, <2>1, <3>1 DEF Row
    <2>2. CASE r # q
        BY <1>0, <1>2, <2>2
    <2> QED BY <2>1, <2>2
<1>3. CASE CreateInsert(w)
    <2> DEFINE fresh == CHOOSE r \in Requests : req[r].status = "NONE"
    <2>1. req[fresh].status = "NONE" /\ \A r \in Requests \ {fresh} : req'[r] = req[r]
        BY <1>0, <1>3 DEF CreateInsert
    <2> HIDE DEF fresh
    <2> QED BY <2>1 DEF RowsKept
<1>4. CASE EditWrite(w)
    <2> DEFINE t == task[w]
    <2>1. t \in Task /\ t.r \in Requests /\ t.op = "edit"
        BY <1>4 DEF EditWrite, TypeInv, TypeOK, Ready, RowOps, OpNames
    <2>2. req' = [req EXCEPT ![t.r] = Requeued(t, Rewritten(t, req[t.r]))]
        BY <1>4 DEF EditWrite
    <2>3. ASSUME NEW row \in Row, row.status # "NONE"
          PROVE  LET new == Requeued(t, Rewritten(t, row))
                 IN  /\ new.status # "NONE" /\ new.owner = row.owner
                     /\ row.sent \subseteq new.sent
                     /\ "type" \notin new.sent => new.type = row.type
        BY <2>1, <2>3, RewrittenType
    <2> QED BY <1>0, <2>1, <2>2, <2>3 DEF RowsKept
<1>5. CASE CancelWrite(w)
    BY <1>2, <1>5 DEF CancelWrite, Statuses, LiveStatuses
<1>6. CASE ViewAcquire(w) \/ HrAcquire(w)
    <2>1. UNCHANGED req \/ req' = Acquired(task[w].r, task[w].user)
        BY <1>6 DEF ViewAcquire, HrAcquire
    <2> QED BY <1>1, <1>2, <2>1 DEF Acquired, Statuses, LiveStatuses, PendingStatuses
<1>7. CASE HrDecide(w)
    <2>1. Verdict(task[w]) \in Statuses \ {"NONE"}
        BY DEF Verdict, Statuses, LiveStatuses, PendingStatuses, DeadStatuses
    <2> QED BY <1>2, <1>7, <2>1 DEF HrDecide
<1>8. CASE HrCancelCommit(w)
    <2> DEFINE status == IF task[w].action = "Approve" THEN "CANCELLED" ELSE "APPROVED"
    <2>1. status \in Statuses \ {"NONE"}
        BY DEF Statuses, LiveStatuses, DeadStatuses
    <2>2. req' = [req EXCEPT ![task[w].r].status = status]
        BY <1>8 DEF HrCancelCommit
    <2> HIDE DEF status
    <2> QED BY <1>2, <2>1, <2>2
<1>9. CASE Commit(w)
    <2>1. Outcome(task[w]) \in Statuses \ {"NONE"}
        BY DEF Outcome, Statuses, LiveStatuses, PendingStatuses, DeadStatuses
    <2> QED BY <1>2, <1>9, <2>1 DEF Commit
<1>10. CASE CreatePlan(w) \/ CreateCode(w) \/ EditPlan(w) \/ HrCancelBegin(w) \/ Claim(w)
            \/ Rollback(w) \/ Fail(w)
    <2>1. UNCHANGED req
        BY <1>10 DEF CreatePlan, CreateCode, EditPlan, HrCancelBegin, Claim, Rollback, Fail
    <2> QED BY <1>1, <2>1
<1> QED BY <1>3, <1>4, <1>5, <1>6, <1>7, <1>8, <1>9, <1>10
        DEF Step, EmployeeStep, HrStep, ApproverStep

\* The approval rows only ever grow, by the decision of the handler that steps.
LEMMA StepLogs ==
    ASSUME TypeInv, NEW w \in Workers, Step(w) \/ Fail(w)
    PROVE  \/ UNCHANGED log
           \/ /\ task[w].op \in Deciders
              /\ \E status \in Statuses :
                   log' = [log EXCEPT ![task[w].r] =
                              Append(@, [by |-> task[w].user, status |-> status])]
<1>1. Verdict(task[w]) \in Statuses /\ Outcome(task[w]) \in Statuses
    BY DEF Verdict, Outcome, Statuses, LiveStatuses, PendingStatuses, DeadStatuses
<1>2. CASE HrDecide(w)
    BY <1>1, <1>2 DEF HrDecide, Deciders
<1>3. CASE HrCancelCommit(w)
    BY <1>3 DEF HrCancelCommit, Deciders, Statuses, LiveStatuses, DeadStatuses
<1>4. CASE Commit(w)
    BY <1>1, <1>4 DEF Commit, Deciders
<1>5. CASE ~(HrDecide(w) \/ HrCancelCommit(w) \/ Commit(w))
    BY <1>5 DEF Step, EmployeeStep, HrStep, ApproverStep, CreatePlan, CreateCode, CreateInsert,
                EditPlan, EditWrite, CancelWrite, ViewAcquire, HrAcquire, HrCancelBegin, Claim,
                Rollback, Fail
<1> QED BY <1>2, <1>3, <1>4, <1>5

\* What a handler knows of its request survives the steps of the others.
LEMMA JobsKept ==
    ASSUME TypeInv, DecisionInv, NEW w \in Workers, Call(w) \/ Step(w) \/ Fail(w)
    PROVE  RowsKept /\ \A v \in Workers : JobOK(task'[v]) /\ Known(task[v])'
<1>0. /\ task \in [Workers -> Task]
      /\ \A v \in Workers : /\ task[v].op \in RowOps => task[v].r \in Requests
                            /\ JobOK(task[v]) /\ Known(task[v])
    BY DEF TypeInv, TypeOK, Ready, DecisionInv
<1>1. CASE Call(w)
    <2>1. PICK t : /\ task' = [task EXCEPT ![w] = t] /\ UNCHANGED <<req, log>> /\ JobOK(t)
                   /\ t.op \in RowOps => t.seen = req[t.r] /\ req[t.r].status # "NONE"
        BY <1>1, CallShape
    <2>2. RowsKept
        BY <2>1 DEF RowsKept
    <2>3. task'[w] = t /\ \A v \in Workers \ {w} : task'[v] = task[v]
        BY <1>0, <2>1
    <2>4. JobOK(task'[w]) /\ Known(task[w])'
        BY <2>1, <2>3 DEF Known
    <2>5. \A v \in Workers \ {w} : JobOK(task'[v]) /\ Known(task[v])'
        BY <1>0, <2>1, <2>3 DEF Known
    <2> QED BY <2>2, <2>4, <2>5
<1>2. CASE Step(w) \/ Fail(w)
    <2>1. PICK t : task' = [task EXCEPT ![w] = t] /\ (t = Idle \/ SameJob(t, task[w]))
        BY <1>2, StepShape
    <2>2. RowsKept
        BY <1>0, <1>2, StepKeepsRows
    <2>3. task'[w] = t /\ \A v \in Workers \ {w} : task'[v] = task[v]
        BY <1>0, <2>1
    <2>4. JobOK(task'[w])
        BY <1>0, <2>1, <2>3, JobKept
    <2>5. Known(task[w])'
        <3>1. CASE t = Idle
            BY <2>3, <3>1 DEF Known, Idle, RowOps, OpNames
        <3>2. CASE SameJob(t, task[w])
            BY <1>0, <2>2, <2>3, <3>2 DEF Known, SameJob, RowsKept
        <3> QED BY <2>1, <3>1, <3>2
    <2>6. \A v \in Workers \ {w} : JobOK(task'[v]) /\ Known(task[v])'
        BY <1>0, <2>2, <2>3 DEF Known, RowsKept
    <2> QED BY <2>2, <2>4, <2>5, <2>6
<1> QED BY <1>1, <1>2

\* An added approval row.
LEMMA Appended ==
    ASSUME NEW s \in Seq(Entry), NEW e \in Entry
    PROVE  /\ Append(s, e) # <<>>
           /\ DOMAIN Append(s, e) = DOMAIN s \cup {Len(s) + 1}
           /\ \A i \in DOMAIN s : Append(s, e)[i] = s[i]
           /\ Append(s, e)[Len(s) + 1] = e
           /\ s = <<>> => Append(s, e)[1] = e
           /\ s # <<>> => 1 \in DOMAIN s
BY DEF Entry

LEMMA NextDecision == TypeInv /\ DecisionInv /\ [Next]_vars => DecisionInv'
<1> SUFFICES ASSUME TypeInv, DecisionInv, [Next]_vars PROVE DecisionInv'
    OBVIOUS
<1>1. CASE UNCHANGED vars \/ Midnight
    <2>1. UNCHANGED <<req, log, task>>
        BY <1>1 DEF vars, Midnight
    <2> QED BY <2>1 DEF DecisionInv, JobOK, Known, NobodyDecidesOwnLeave
<1>2. ASSUME NEW w \in Workers, Call(w) \/ Step(w) \/ Fail(w) PROVE DecisionInv'
    <2>1. RowsKept /\ \A v \in Workers : JobOK(task'[v]) /\ Known(task[v])'
        BY <1>2, JobsKept
    <2>2. \A r \in Requests : log[r] # <<>> => req[r].status # "NONE"
        BY DEF DecisionInv
    <2>3. CASE UNCHANGED log
        <3>1. \A r \in Requests : req'[r].status = "NONE" => log'[r] = <<>>
            BY <2>1, <2>2, <2>3 DEF RowsKept
        <3>2. NobodyDecidesOwnLeave'
            <4> SUFFICES ASSUME NEW r \in Requests, NEW i \in DOMAIN log[r]
                         PROVE  log[r][i].by # req'[r].owner
                BY <2>3 DEF NobodyDecidesOwnLeave
            <4>1. log[r] # <<>>
                OBVIOUS
            <4> QED BY <2>1, <2>2, <4>1 DEF RowsKept, DecisionInv, NobodyDecidesOwnLeave
        <3> QED BY <2>1, <3>1, <3>2 DEF DecisionInv
    <2>4. CASE ~UNCHANGED log
        <3> DEFINE t == task[w]
        <3>1. Step(w) \/ Fail(w)
            BY <1>2, <2>4, CallShape
        <3>2. PICK status \in Statuses :
                  /\ t.op \in Deciders
                  /\ log' = [log EXCEPT ![t.r] = Append(@, [by |-> t.user, status |-> status])]
            BY <3>1, <2>4, StepLogs
        <3>3. t.op \in RowOps /\ t.r \in Requests /\ t.user \in Users /\ JobOK(t) /\ Known(t)
            BY <3>2 DEF Deciders, RowOps, OpNames, TypeInv, Ready, DecisionInv
        <3>4. log \in [Requests -> Seq(Entry)]
            BY DEF TypeInv, TypeOK
        <3> DEFINE entry == [by |-> t.user, status |-> status]
        <3>5. entry \in Entry
            BY <3>3 DEF Entry
        <3>6. /\ log'[t.r] = Append(log[t.r], entry)
              /\ \A r \in Requests \ {t.r} : log'[r] = log[r]
            BY <3>2, <3>3, <3>4
        <3>7. req[t.r].status # "NONE" /\ req[t.r].owner # t.user
            BY <3>2, <3>3 DEF Known, JobOK
        <3>8. \A r \in Requests : req'[r].status = "NONE" => log'[r] = <<>>
            BY <2>1, <2>2, <3>6, <3>7 DEF RowsKept
        <3>9. ASSUME NEW r \in Requests, NEW i \in DOMAIN log'[r]
              PROVE  log'[r][i].by # req'[r].owner
            <4>1. ASSUME i \in DOMAIN log[r], log'[r][i] = log[r][i]
                  PROVE  log'[r][i].by # req'[r].owner
                <5>1. log[r] # <<>>
                    BY <4>1
                <5> QED BY <2>1, <2>2, <4>1, <5>1 DEF RowsKept, DecisionInv, NobodyDecidesOwnLeave
            <4>2. CASE r # t.r
                BY <3>6, <3>9, <4>1, <4>2
            <4>3. CASE r = t.r /\ i \in DOMAIN log[r]
                BY <3>4, <3>5, <3>6, <4>1, <4>3, Appended
            <4>4. CASE r = t.r /\ i \notin DOMAIN log[r]
                <5>1. log'[r][i] = entry
                    BY <3>4, <3>5, <3>6, <3>9, <4>4, Appended
                <5> QED BY <2>1, <3>7, <4>4, <5>1 DEF RowsKept
            <4> QED BY <4>2, <4>3, <4>4
        <3> QED BY <2>1, <3>8, <3>9 DEF DecisionInv, NobodyDecidesOwnLeave
    <2> QED BY <2>3, <2>4
<1> QED BY <1>1, <1>2 DEF Next

LEMMA InitDecision == Init => DecisionInv
<1> SUFFICES ASSUME Init PROVE DecisionInv
    OBVIOUS
<1>1. \A w \in Workers : task[w] = Idle
    BY DEF Init, StoreInit
<1>2. \A r \in Requests : log[r] = <<>>
    BY DEF Init, StoreInit
<1>3. \A w \in Workers : JobOK(task[w]) /\ Known(task[w])
    BY <1>1 DEF JobOK, Known, Idle, Deciders, RowOps, OpNames
<1> QED BY <1>2, <1>3 DEF DecisionInv, NobodyDecidesOwnLeave

\* However handlers overlap, and whatever they edit, no approval row of a
\* request is written by its owner: the self checks of HR, department head and
\* CEO, made when the request is read, still hold when the row is written.
THEOREM OwnLeaveHolds == Spec => []NobodyDecidesOwnLeave
<1>1. DecisionInv => NobodyDecidesOwnLeave
    BY DEF DecisionInv
<1> QED BY <1>1, InitType, NextType, InitDecision, NextDecision, PTL DEF Spec

-----------------------------------------------------------------------------
(* No granted leave has skipped a stage. *)

\* Somebody entitled to it has approved the request.
Approved(row, entries) ==
    \E user \in Users :
        /\ \E i \in DOMAIN entries : entries[i] = [by |-> user, status |-> "APPROVED"]
        /\ FinalApprover(user, row)

\* A row whose status and type no edit form named.
Plain(r) == Untouched(r, {"status", "type"})

\* What the approval rows showed when a handler read its request they still show.
Remembered(t) ==
    t.op \in RowOps /\ Plain(t.r) =>
        /\ t.seen.status \notin {"NONE", "PENDING_VERIFY", "REVIEWING_HR"} => log[t.r] # <<>>
        /\ t.seen.status \in Granted => Approved(req[t.r], log[t.r])
        /\ t.seen.status = "PENDING_SUPERVISOR" => ~IsHead(t.seen.owner)

\* The inductive invariant: a cancellation or a second stage under way rests on
\* the approval that was there when it began.
AuditInv ==
    /\ AuditTrail
    /\ \A r \in Requests :
          Plain(r) /\ req[r].status = "PENDING_SUPERVISOR" => ~IsHead(req[r].owner)
    /\ \A w \in Workers : Remembered(task[w])

\* Approval rows stay where they are.
LogsKept ==
    \A r \in Requests :
        /\ log[r] # <<>> => log'[r] # <<>> /\ log'[r][1] = log[r][1]
        /\ \A i \in DOMAIN log[r] : i \in DOMAIN log'[r] /\ log'[r][i] = log[r][i]

\* The status a handler's step leaves a request in, unless it leaves it alone
\* or with HR.
Settles(w, r) ==
    /\ r = task[w].r
    /\ \/ CancelWrite(w) /\ req'[r].status = "PENDING_CANCELLATION"
       \/ HrDecide(w) /\ req'[r].status = Verdict(task[w])
       \/ HrCancelCommit(w)
       \/ Commit(w) /\ req'[r].status = Outcome(task[w])

LEMMA StepStatus ==
    ASSUME TypeInv, NEW w \in Workers, Step(w) \/ Fail(w), NEW r \in Requests
    PROVE  \/ req'[r].status \in {req[r].status, "PENDING_VERIFY", "REVIEWING_HR"}
           \/ Settles(w, r)
           \/ "status" \in req'[r].sent
<1> DEFINE t == task[w]
<1>0. req \in [Requests -> Row] /\ \A q \in Requests : req[q] \in Row
    BY DEF TypeInv, TypeOK
<1>1. ASSUME NEW status, NEW reviewer,
             \/ req' = [req EXCEPT ![t.r].status = status]
             \/ req' = [req EXCEPT ![t.r].status = status, ![t.r].reviewer = reviewer]
      PROVE  /\ r # t.r => req'[r].status = req[r].status
             /\ r = t.r => req'[r].status = status
    BY <1>0, <1>1 DEF Row
<1>2. CASE CreateInsert(w)
    <2> DEFINE fresh == CHOOSE q \in Requests : req[q].status = "NONE"
    <2>1. req' = [req EXCEPT ![fresh] = Inserted(t)] \/ UNCHANGED req
        BY <1>2 DEF CreateInsert
    <2>2. Inserted(t).status = "PENDING_VERIFY"
        <3>1. t.draft \in Row
            BY DEF TypeInv, TypeOK, Task
        <3> QED BY <3>1 DEF Inserted, Row
    <2> HIDE DEF fresh
    <2> QED BY <1>0, <2>1, <2>2
<1>3. CASE EditWrite(w)
    <2>1. req' = [req EXCEPT ![t.r] = Requeued(t, Rewritten(t, req[t.r]))]
        BY <1>3 DEF EditWrite
    <2>2. ASSUME NEW row \in Row
          PROVE  LET new == Requeued(t, Rewritten(t, row))
                 IN  \/ new.status \in {row.status, "PENDING_VERIFY"}
                     \/ "status" \in new.sent
        <3>1. t \in Task
            BY DEF TypeInv, TypeOK
        <3> QED BY <3>1, RewrittenType
    <2> QED BY <1>0, <2>1, <2>2
<1>4. CASE CancelWrite(w)
    BY <1>1, <1>4 DEF CancelWrite, Settles
<1>5. CASE ViewAcquire(w) \/ HrAcquire(w)
    <2>1. UNCHANGED req \/ req' = Acquired(t.r, t.user)
        BY <1>5 DEF ViewAcquire, HrAcquire
    <2> QED BY <1>1, <2>1 DEF Acquired
<1>6. CASE HrDecide(w)
    BY <1>1, <1>6 DEF HrDecide, Settles
<1>7. CASE HrCancelCommit(w)
    <2>1. PICK status : req' = [req EXCEPT ![t.r].status = status]
        BY <1>7 DEF HrCancelCommit
    <2> QED BY <1>1, <1>7, <2>1 DEF Settles
<1>8. CASE Commit(w)
    BY <1>1, <1>8 DEF Commit, Settles
<1>9. CASE CreatePlan(w) \/ CreateCode(w) \/ EditPlan(w) \/ HrCancelBegin(w) \/ Claim(w)
           \/ Rollback(w) \/ Fail(w)
    BY <1>9 DEF CreatePlan, CreateCode, EditPlan, HrCancelBegin, Claim, Rollback, Fail
<1> QED BY <1>2, <1>3, <1>4, <1>5, <1>6, <1>7, <1>8, <1>9
        DEF Step, EmployeeStep, HrStep, ApproverStep

LEMMA LogsGrow ==
    ASSUME TypeInv, NEW w \in Workers, Call(w) \/ Step(w) \/ Fail(w)
    PROVE  LogsKept
<1>0. log \in [Requests -> Seq(Entry)]
    BY DEF TypeInv, TypeOK
<1>1. CASE UNCHANGED log
    BY <1>1 DEF LogsKept
<1>2. CASE ~UNCHANGED log
    <2> DEFINE t == task[w]
    <2>1. PICK status \in Statuses :
              /\ t.op \in Deciders
              /\ log' = [log EXCEPT ![t.r] = Append(@, [by |-> t.user, status |-> status])]
        BY <1>2, CallShape, StepLogs
    <2> DEFINE entry == [by |-> t.user, status |-> status]
    <2>2. entry \in Entry /\ t.r \in Requests
        BY <2>1 DEF Entry, Deciders, RowOps, OpNames, TypeInv, Ready
    <2> HIDE DEF entry
    <2>3. /\ log'[t.r] = Append(log[t.r], entry)
          /\ \A r \in Requests \ {t.r} : log'[r] = log[r]
        BY <1>0, <2>1, <2>2 DEF entry
    <2>4. log[t.r] \in Seq(Entry)
        BY <1>0, <2>2
    <2>5. /\ log'[t.r] # <<>>
          /\ \A i \in DOMAIN log[t.r] : i \in DOMAIN log'[t.r] /\ log'[t.r][i] = log[t.r][i]
          /\ log[t.r] # <<>> => 1 \in DOMAIN log[t.r]
        BY <2>2, <2>3, <2>4, Appended
    <2> QED BY <2>3, <2>5 DEF LogsKept
<1> QED BY <1>1, <1>2

\* What no form has named after a step, none had named before it.
LEMMA PlainBefore ==
    ASSUME RowsKept, NEW r \in Requests, req[r].status # "NONE", Plain(r)'
    PROVE  Plain(r)
BY DEF Plain, Untouched, RowsKept

\* An approval that was given stays given.
LEMMA ApprovedKept ==
    ASSUME RowsKept, LogsKept, NEW r \in Requests, Plain(r)',
           req[r].status # "NONE", Approved(req[r], log[r])
    PROVE  Approved(req'[r], log'[r])
<1>1. PICK user \in Users : /\ \E i \in DOMAIN log[r] :
                                   log[r][i] = [by |-> user, status |-> "APPROVED"]
                            /\ FinalApprover(user, req[r])
    BY DEF Approved
<1>2. \E i \in DOMAIN log'[r] : log'[r][i] = [by |-> user, status |-> "APPROVED"]
    BY <1>1 DEF LogsKept
<1>3. FinalApprover(user, req'[r])
    BY <1>1 DEF FinalApprover, RowsKept, Plain, Untouched
<1> QED BY <1>2, <1>3 DEF Approved

\* The invariant of one request.
Audited(r) ==
  Plain(r) =>
    /\ req[r].status \in Granted => Approved(req[r], log[r])
    /\ req[r].status \notin {"NONE", "PENDING_VERIFY", "REVIEWING_HR"} => log[r] # <<>>
    /\ log[r] # <<>> => RoleOf[log[r][1].by] = "HR" /\ log[r][1].status # "APPROVED"
    /\ req[r].status = "PENDING_SUPERVISOR" => ~IsHead(req[r].owner)

LEMMA AuditedInv ==
    AuditInv <=> /\ \A r \in Requests : Audited(r)
                 /\ \A w \in Workers : Remembered(task[w])
BY DEF AuditInv, AuditTrail, Audited, Approved, ApprovedBy, Plain

\* A call remembers what the approval rows show now.
LEMMA CallRemembers ==
    ASSUME TypeInv, AuditInv, NEW w \in Workers, Call(w), NEW v \in Workers
    PROVE  Remembered(task[v])'
<1>1. PICK t : /\ task' = [task EXCEPT ![w] = t] /\ UNCHANGED <<req, log>>
               /\ t.op \in RowOps => t.r \in Requests /\ t.seen = req[t.r]
    BY CallShape
<1>2. task'[w] = t /\ (v # w => task'[v] = task[v])
    BY <1>1 DEF TypeInv, TypeOK
<1>3. CASE v = w
    <2>1. t.op \in RowOps => Audited(t.r)
        BY <1>1, AuditedInv
    <2> QED BY <1>1, <1>2, <1>3, <2>1 DEF Remembered, Audited, Plain, Untouched
<1>4. CASE v # w
    BY <1>1, <1>2, <1>4 DEF AuditInv, Remembered, Plain, Untouched
<1> QED BY <1>3, <1>4

\* What was remembered is still so after a handler's step.
LEMMA StepRemembers ==
    ASSUME TypeInv, DecisionInv, AuditInv, RowsKept, LogsKept,
           NEW w \in Workers, Step(w) \/ Fail(w), NEW v \in Workers
    PROVE  Remembered(task[v])'
<1>1. PICK t : task' = [task EXCEPT ![w] = t] /\ (t = Idle \/ SameJob(t, task[w]))
    BY StepShape
<1>2. task'[w] = t /\ (v # w => task'[v] = task[v])
    BY <1>1 DEF TypeInv, TypeOK
<1>3. ASSUME NEW u \in Workers, task[u].op \in RowOps,
             NEW r \in Requests, r = task[u].r, Plain(r)'
      PROVE  /\ Plain(r)
             /\ log[r] # <<>> => log'[r] # <<>>
             /\ Approved(req[r], log[r]) => Approved(req'[r], log'[r])
    <2>1. req[r].status # "NONE"
        BY <1>3 DEF DecisionInv, Known
    <2> QED BY <1>3, <2>1, PlainBefore, ApprovedKept DEF LogsKept
<1>4. ASSUME task'[v] = Idle PROVE Remembered(task[v])'
    BY <1>4 DEF Remembered, Idle, RowOps, OpNames
<1>5. ASSUME NEW u \in Workers, SameJob(task'[v], task[u]) PROVE Remembered(task[v])'
    <2>1. Remembered(task[u])
        BY DEF AuditInv
    <2>2. task[u].op \in RowOps => task[u].r \in Requests
        BY DEF TypeInv, Ready
    <2> SUFFICES ASSUME task[u].op \in RowOps, NEW r \in Requests, r = task[u].r, Plain(r)'
                 PROVE  /\ task[u].seen.status \notin {"NONE", "PENDING_VERIFY", "REVIEWING_HR"} =>
                              log'[r] # <<>>
                        /\ task[u].seen.status \in Granted => Approved(req'[r], log'[r])
                        /\ task[u].seen.status = "PENDING_SUPERVISOR" =>
                              ~IsHead(task[u].seen.owner)
        BY <1>5, <2>2 DEF Remembered, SameJob, Plain, Untouched
    <2> QED BY <1>3, <2>1 DEF Remembered
<1>6. \A u : SameJob(u, u)
    BY DEF SameJob
<1> QED BY <1>1, <1>2, <1>4, <1>5, <1>6

\* The rows a decision adds.
LEMMA DecisionRows ==
    ASSUME TypeInv, NEW w \in Workers
    PROVE  /\ HrDecide(w) => log'[task[w].r] =
                 Append(log[task[w].r], [by |-> task[w].user, status |-> Verdict(task[w])])
           /\ Commit(w) => log'[task[w].r] =
                 Append(log[task[w].r], [by |-> task[w].user, status |-> Outcome(task[w])])
<1>1. HrDecide(w) \/ Commit(w) => task[w].r \in Requests
    BY DEF HrDecide, Commit, TypeInv, Ready, RowOps, OpNames
<1>2. log \in [Requests -> Seq(Entry)]
    BY DEF TypeInv, TypeOK
<1> QED BY <1>1, <1>2 DEF HrDecide, Commit

\* The approval of the second or third stage comes from the person entitled to it.
LEMMA CommitApproves ==
    ASSUME TypeInv, DecisionInv, AuditInv, NEW w \in Workers, Commit(w), RowsKept,
           Outcome(task[w]) = "APPROVED", "type" \notin req'[task[w].r].sent, Plain(task[w].r)
    PROVE  Approved(req'[task[w].r], log'[task[w].r])
<1> DEFINE t == task[w]
           entry == [by |-> t.user, status |-> "APPROVED"]
<1>1. /\ t.op \in {"manager", "ceo"} /\ t.op \in RowOps
      /\ t.r \in Requests /\ t.user \in Users
    BY DEF Commit, TypeInv, Ready, RowOps, OpNames
<1>2. JobOK(t) /\ Known(t) /\ Remembered(t)
    BY DEF DecisionInv, AuditInv
<1>3. FinalApprover(t.user, t.seen)
    <2>1. CASE t.op = "ceo"
        BY <1>2, <2>1 DEF JobOK, FinalApprover
    <2>2. CASE t.op = "manager"
        <3>1. t.seen.type \notin SpecialTypes
            BY <2>2 DEF Outcome
        <3>2. ~IsHead(t.seen.owner)
            BY <1>1, <1>2, <2>2 DEF JobOK, Remembered
        <3> QED BY <1>2, <2>2, <3>1, <3>2 DEF JobOK, FinalApprover
    <2> QED BY <1>1, <2>1, <2>2
<1>4. FinalApprover(t.user, req'[t.r])
    <2>1. req'[t.r].owner = t.seen.owner /\ req'[t.r].type = t.seen.type
        BY <1>1, <1>2 DEF Known, RowsKept
    <2> QED BY <1>3, <2>1 DEF FinalApprover
<1>5. \E i \in DOMAIN log'[t.r] : log'[t.r][i] = entry
    <2>1. log'[t.r] = Append(log[t.r], entry)
        BY DecisionRows
    <2>2. entry \in Entry /\ log[t.r] \in Seq(Entry)
        BY <1>1 DEF Entry, Statuses, LiveStatuses, TypeInv, TypeOK
    <2> QED BY <2>1, <2>2, Appended
<1> QED BY <1>1, <1>4, <1>5 DEF Approved

LEMMA StepAudits ==
    ASSUME TypeInv, DecisionInv, AuditInv, RowsKept, LogsKept,
           NEW w \in Workers, Step(w) \/ Fail(w), NEW r \in Requests
    PROVE  Audited(r)'
<1> DEFINE t == task[w]
<1> SUFFICES ASSUME Plain(r)' PROVE Audited(r)'
    BY DEF Audited
<1>0. (req[r].status # "NONE" => Plain(r)) /\ req'[r].sent \cap {"status", "type"} = {}
    BY PlainBefore DEF Plain, Untouched
<1>1. Audited(r) /\ (log[r] # <<>> => req[r].status # "NONE")
    BY AuditedInv DEF DecisionInv
<1>2. JobOK(t) /\ Known(t) /\ Remembered(t)
    BY DEF DecisionInv, AuditInv
<1>3. (HrCancelCommit(w) \/ Commit(w) \/ CancelWrite(w)) =>
        t.op \in RowOps /\ (t.r = r => log[r] # <<>>)
    <2>1. (HrCancelCommit(w) \/ Commit(w) \/ CancelWrite(w)) => t.op \in RowOps
        BY DEF HrCancelCommit, Commit, CancelWrite, RowOps, OpNames
    <2>2. (HrCancelCommit(w) \/ Commit(w) \/ CancelWrite(w)) =>
            t.seen.status \notin {"NONE", "PENDING_VERIFY", "REVIEWING_HR"}
        BY <1>2 DEF HrCancelCommit, Commit, CancelWrite, JobOK
    <2>3. t.op \in RowOps /\ t.r = r => Plain(t.r)
        BY <1>0, <1>2 DEF Known
    <2> QED BY <1>2, <2>1, <2>2, <2>3 DEF Remembered
<1>4. HrDecide(w) => t.op = "hr" /\ t.op \in RowOps /\ t.r \in Requests /\ t.user \in Users
    BY DEF HrDecide, RowOps, OpNames, TypeInv, Ready
<1>5. log'[r] # <<>> => RoleOf[log'[r][1].by] = "HR" /\ log'[r][1].status # "APPROVED"
    <2>1. CASE log[r] # <<>>
        BY <1>0, <1>1, <2>1 DEF LogsKept, Audited
    <2>2. CASE log[r] = <<>> /\ log'[r] # <<>>
        <3>1. r = t.r /\ t.op \in Deciders
            BY <2>2, StepLogs DEF TypeInv, TypeOK
        <3>2. HrDecide(w)
            <4>1. ~(HrCancelCommit(w) \/ Commit(w))
                BY <1>3, <2>2, <3>1
            <4>2. ~UNCHANGED log
                BY <2>2
            <4> QED BY <4>1, <4>2
                    DEF Step, EmployeeStep, HrStep, ApproverStep, CreatePlan, CreateCode,
                        CreateInsert, EditPlan, EditWrite, CancelWrite, ViewAcquire, HrAcquire,
                        HrCancelBegin, Claim, Rollback, Fail
        <3> DEFINE entry == [by |-> t.user, status |-> Verdict(t)]
        <3>3. Verdict(t) # "APPROVED" /\ Verdict(t) \in Statuses
            BY DEF Verdict, Statuses, LiveStatuses, PendingStatuses, DeadStatuses
        <3>4. entry \in Entry /\ log[r] \in Seq(Entry)
            BY <1>4, <3>2, <3>3 DEF Entry, TypeInv, TypeOK
        <3>5. log'[r] = Append(log[r], entry)
            BY <3>1, <3>2, DecisionRows
        <3>6. log'[r][1] = entry
            BY <2>2, <3>4, <3>5, Appended
        <3> QED BY <1>2, <1>4, <3>2, <3>3, <3>6 DEF JobOK
    <2> QED BY <2>1, <2>2
<1>6. CASE req'[r].status \in {"PENDING_VERIFY", "REVIEWING_HR"}
    BY <1>5, <1>6 DEF Audited, Granted
<1>7. CASE req'[r].status = req[r].status
    <2>1. req[r].status \in Granted => Approved(req'[r], log'[r])
        <3>1. SUFFICES ASSUME req[r].status \in Granted PROVE Approved(req'[r], log'[r])
            OBVIOUS
        <3>2. req[r].status # "NONE" /\ Approved(req[r], log[r])
            BY <1>0, <1>1, <3>1 DEF Audited, Granted
        <3> QED BY <3>2, ApprovedKept
    <2>2. req[r].status \notin {"NONE", "PENDING_VERIFY", "REVIEWING_HR"} => log'[r] # <<>>
        BY <1>0, <1>1 DEF Audited, LogsKept
    <2>3. req[r].status = "PENDING_SUPERVISOR" => ~IsHead(req'[r].owner)
        BY <1>0, <1>1 DEF Audited, RowsKept
    <2> QED BY <1>5, <1>7, <2>1, <2>2, <2>3 DEF Audited
<1>8. CASE Settles(w, r)
    <2>1. r = t.r /\ req[r].status # "NONE" /\ req'[r].owner = t.seen.owner /\ Plain(r)
        <3>1. t.op \in RowOps
            BY <1>3, <1>4, <1>8 DEF Settles
        <3> QED BY <1>0, <1>2, <1>8, <3>1 DEF Settles, Known, RowsKept
    <2>2. log'[r] # <<>>
        <3>1. CASE HrDecide(w)
            <4> DEFINE entry == [by |-> t.user, status |-> Verdict(t)]
            <4>1. entry \in Entry /\ log[r] \in Seq(Entry)
                BY <1>4, <3>1 DEF Verdict, Entry, Statuses, LiveStatuses, PendingStatuses,
                                  DeadStatuses, TypeInv, TypeOK
            <4>2. log'[r] = Append(log[r], entry)
                BY <2>1, <3>1, DecisionRows
            <4> HIDE DEF entry
            <4> QED BY <4>1, <4>2, Appended
        <3>2. CASE ~HrDecide(w)
            BY <1>3, <1>8, <2>1, <3>2 DEF Settles, LogsKept
        <3> QED BY <3>1, <3>2
    <2>3. CASE CancelWrite(w) \/ HrCancelCommit(w)
        <3>1. t.seen.status \in Granted
            BY <1>2, <2>3 DEF CancelWrite, HrCancelCommit, JobOK, Granted
        <3>2. Approved(req[r], log[r])
            BY <1>2, <1>3, <2>1, <2>3, <3>1 DEF Remembered
        <3>3. Approved(req'[r], log'[r])
            BY <2>1, <3>2, ApprovedKept
        <3>4. req'[r].status # "PENDING_SUPERVISOR"
            <4>1. req[r] \in Row /\ req \in [Requests -> Row]
                BY DEF TypeInv, TypeOK
            <4> QED BY <2>1, <2>3, <4>1 DEF CancelWrite, HrCancelCommit, Row
        <3> QED BY <1>5, <2>2, <3>3, <3>4 DEF Audited
    <2>4. CASE HrDecide(w) /\ req'[r].status = Verdict(t)
        <3>1. Verdict(t) \notin Granted
            BY DEF Verdict, Granted
        <3>2. Verdict(t) = "PENDING_SUPERVISOR" => ~IsHead(t.seen.owner)
            BY DEF Verdict
        <3> QED BY <1>5, <2>1, <2>2, <2>4, <3>1, <3>2 DEF Audited
    <2>5. CASE Commit(w) /\ req'[r].status = Outcome(t)
        <3>1. Outcome(t) \in {"REJECTED", "PENDING_EXECUTIVE", "APPROVED"}
            BY DEF Outcome
        <3>2. Outcome(t) = "APPROVED" => Approved(req'[r], log'[r])
            BY <1>0, <2>1, <2>5, CommitApproves
        <3> QED BY <1>5, <2>2, <2>5, <3>1, <3>2 DEF Audited, Granted
    <2> QED BY <1>8, <2>3, <2>4, <2>5 DEF Settles
<1> QED BY <1>0, <1>6, <1>7, <1>8, StepStatus

LEMMA NextAudit ==
    TypeInv /\ DecisionInv /\ AuditInv /\ [Next]_vars => AuditInv'
<1> SUFFICES ASSUME TypeInv, DecisionInv, AuditInv, [Next]_vars PROVE AuditInv'
    OBVIOUS
<1>1. CASE UNCHANGED vars \/ Midnight
    <2>1. UNCHANGED <<req, log, task>>
        BY <1>1 DEF vars, Midnight
    <2> QED BY <2>1 DEF AuditInv, AuditTrail, ApprovedBy, Remembered, Plain, Untouched
<1>2. ASSUME NEW w \in Workers, Call(w) PROVE AuditInv'
    <2>1. UNCHANGED <<req, log>>
        BY <1>2, CallShape
    <2>2. \A v \in Workers : Remembered(task[v])'
        BY <1>2, CallRemembers
    <2> QED BY <2>1, <2>2 DEF AuditInv, AuditTrail, ApprovedBy, Plain, Untouched
<1>3. ASSUME NEW w \in Workers, Step(w) \/ Fail(w) PROVE AuditInv'
    <2>1. RowsKept /\ LogsKept
        BY <1>3, JobsKept, LogsGrow
    <2>2. \A r \in Requests : Audited(r)'
        BY <1>3, <2>1, StepAudits
    <2>3. \A v \in Workers : Remembered(task[v])'
        BY <1>3, <2>1, StepRemembers
    <2> QED BY <2>2, <2>3 DEF AuditInv, AuditTrail, ApprovedBy, Audited, Approved, Plain,
                              Untouched
<1> QED BY <1>1, <1>2, <1>3 DEF Next

LEMMA InitAudit == Init => AuditInv
<1> SUFFICES ASSUME Init PROVE AuditInv
    OBVIOUS
<1>1. \A r \in Requests : log[r] = <<>> /\ req[r].status = "NONE"
    BY DEF Init, StoreInit, NoRow
<1>2. \A w \in Workers : Remembered(task[w])
    BY DEF Init, StoreInit, Remembered, Idle, RowOps, OpNames
<1> QED BY <1>1, <1>2 DEF AuditInv, AuditTrail, Granted

\* No interleaving of handlers grants a leave that HR has not verified, or that the
\* person entitled to the final word (department head or CEO) has not approved, unless
\* an edit form named its status or its type.
THEOREM AuditTrailHolds == Spec => []AuditTrail
<1>1. AuditInv => AuditTrail
    BY DEF AuditInv
<1> QED BY <1>1, InitType, NextType, InitDecision, NextDecision, InitAudit, NextAudit, PTL
        DEF Spec
=============================================================================
