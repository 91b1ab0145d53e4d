---------------------------- MODULE LeaveSystem ----------------------------
(***************************************************************************)
(* The leave workflow: every handler that changes a leave request, racing  *)
(* over one database.  HTTP calls start handlers at any time; a handler    *)
(* runs one step at a time, or dies; midnight passes.                      *)
(***************************************************************************)
EXTENDS EmployeeMutation, HrVerification, ApproverDecision

Call(w) == EmployeeCall(w) \/ HrCall(w) \/ ApproverCall(w)

Step(w) == EmployeeStep(w) \/ HrStep(w) \/ ApproverStep(w)

Init == StoreInit

Next == (\E w \in Workers : Call(w) \/ Step(w) \/ Fail(w)) \/ Midnight

Spec == Init /\ [][Next]_vars

\* A handler that has started runs on: the event loop resumes it after every
\* await, and InnoDB grants a contended row lock in the order it was asked for,
\* so a step that is enabled again and again is not passed over for ever.
FairSpec == Spec /\ \A w \in Workers : SF_vars(Step(w))

-----------------------------------------------------------------------------
(* Types. *)

\* Every variable has the shape the schema and the handlers give it.
TypeOK ==
    /\ req \in [Requests -> Row]
    /\ bal \in [Accounts -> Balance]
    /\ log \in [Requests -> Seq(Entry)]
    /\ task \in [Workers -> Task]
    /\ today \in Days

-----------------------------------------------------------------------------
(* Who decides.  These hold whatever handlers overlap. *)

\* Nobody takes a decision on their own leave: no approval row of a request
\* was written by its owner (the self checks of HR, department head and CEO).
NobodyDecidesOwnLeave ==
    \A r \in Requests : \A i \in DOMAIN log[r] : log[r][i].by # req[r].owner

\* Who the final word on a leave belongs to: the CEO for special types and for
\* the leave of department heads, the head of the owner's department otherwise.
FinalApprover(user, row) ==
    IF row.type \in SpecialTypes \/ IsHead(row.owner)
    THEN RoleOf[user] = "CEO"
    ELSE \/ RoleOf[user] = "CEO"
         \/ MayHead(user) /\ DeptOf[user] = DeptOf[row.owner]

Granted == {"APPROVED", "PENDING_CANCELLATION", "CANCELLED"}

ApprovedBy(user, r) ==
    \E i \in DOMAIN log[r] : log[r][i] = [by |-> user, status |-> "APPROVED"]

\* A row whose named columns an edit form never wrote by itself.
Untouched(r, columns) == req[r].sent \cap columns = {}

\* A leave that was granted has, in its approval rows, first HR's verification
\* and then the approval of the person entitled to give it: no interleaving
\* of decisions lets a request skip a stage of the documented flow.  What can is
\* a form that sends the status, or a type with other approvers: such rows are
\* left out here, and EveryGrantDecided shows what becomes of them.
AuditTrail ==
    \A r \in {s \in Requests : Untouched(s, {"status", "type"})} :
        /\ req[r].status \in Granted =>
             \E user \in Users : ApprovedBy(user, r) /\ FinalApprover(user, req[r])
        /\ req[r].status \notin {"NONE", "PENDING_VERIFY", "REVIEWING_HR"} => log[r] # <<>>
        /\ log[r] # <<>> => /\ RoleOf[log[r][1].by] = "HR"
                            /\ log[r][1].status # "APPROVED"

\* A granted leave was approved by somebody, whatever forms were sent before.
EveryGrantDecided ==
    \A r \in Requests :
        req[r].status \in Granted => \E user \in Users : ApprovedBy(user, r)

-----------------------------------------------------------------------------
(* The calendar and the review lock. *)

Live(r) == req[r].status \in LiveStatuses

\* No employee holds the same half-day twice: the slots of two live requests
\* of one owner are disjoint (the portion planner and its re-run on insert).
NoDoubleBooking ==
    \A r, s \in Requests :
        r # s /\ Live(r) /\ Live(s) /\ req[r].owner = req[s].owner =>
            SlotsOf(req[r]) \cap SlotsOf(req[s]) = {}

\* A lock never outlives the review: a request with a reviewer is under review.
\* And no review goes on without a lock, but for a request that an edit form put
\* under review by naming the status itself; nobody can decide that one.
LockDiscipline ==
    \A r \in Requests :
        /\ req[r].reviewer # None => req[r].status = "REVIEWING_HR"
        /\ req[r].status = "REVIEWING_HR" /\ Untouched(r, {"status"}) => req[r].reviewer # None

\* One HR user holds at most one request (markAsViewed: finish the one you
\* have before you take another).
OneLockPerHr ==
    \A r, s \in Requests :
        req[r].reviewer # None /\ req[r].reviewer = req[s].reviewer => r = s

-----------------------------------------------------------------------------
(* Balances. *)

\* The granted requests that weigh on an account.
ChargedTo(a) ==
    {r \in Requests : req[r].status \in {"APPROVED", "PENDING_CANCELLATION"}
                      /\ AccountOf(req[r]) = a}

\* No edit form wrote the named columns of a request of the employee.
NoneTouched(user, columns) == \A r \in OwnedBy(user) : Untouched(r, columns)

\* Every granted leave is charged exactly once and every cancelled one given
\* back exactly once: a balance row is its total less the leaves granted on it.
\* (HR's corrections by hand are in BalanceAdmin.  A status that an edit form
\* sends grants and cancels without any charge: employees with one are left out.)
Ledger ==
    \A a \in {b \in Accounts : NoneTouched(b[1], {"status"})} :
        /\ bal[a].remaining = bal[a].total - MapThenSumSet(LAMBDA r : req[r].total, ChargedTo(a))
        /\ bal[a].used = bal[a].total - bal[a].remaining

\* A granted leave has a balance row to be charged to.
EveryGrantCharged ==
    \A r \in Requests : req[r].status = "APPROVED" => AccountOf(req[r]) \in Accounts

\* Pending requests reserve the balance: what waits for a decision never
\* exceeds what remains.  So a final approval finds the balance short only after
\* a correction by HR's hand, or when an edit form sent the hours or the type.
Reserved ==
    \A a \in {b \in Accounts : NoneTouched(b[1], {"total", "type"})} :
        a[3] = ThisYear => PendingHours(a[1], a[2], {}) <= bal[a].remaining

\* The hours a day-based leave is charged are the hours of its stored days,
\* unless an edit form named the hours itself.
HoursMatchDays ==
    \A r \in {s \in Requests : Untouched(s, {"total"})} :
        Live(r) /\ ~IsHourly(req[r].ask) => req[r].total = PlanHours(req[r].days)

\* No more hours of a capped type are paid in a year than the cap, as long as no
\* edit form turned a request planned for one type into a request of another.
PaidWithinCap ==
    \A user \in {u \in Users : NoneTouched(u, {"type"})}, type \in LeaveTypes :
        PaidCap[type] # None => PaidUsed(user, type, {}) <= PaidCap[type]

-----------------------------------------------------------------------------
(* What a step may never do. *)

Settled == {"PENDING_SUPERVISOR", "PENDING_EXECUTIVE"} \cup Granted \cup {"REJECTED"}

Content(row) == <<row.type, row.ask, row.days, row.total, row.paid>>

\* Once HR has decided, what a request asks for never changes again (edits are
\* for requests HR has not verified yet).
VerifiedIsFrozen ==
    [][\A r \in Requests :
          req[r].status \in Settled => Content(req[r])' = Content(req[r])]_vars

\* A rejected or cancelled request stays so, and a granted one never goes back
\* into the approval process.
DecisionsStand ==
    [][\A r \in Requests :
          /\ req[r].status \in DeadStatuses => req'[r].status = req[r].status
          /\ req[r].status \in Granted => req'[r].status \in Granted]_vars

\* Only a leave whose cancellation was asked for is cancelled, and never on or
\* after its first day; or an edit form names that status for a request HR has
\* not taken up yet.
CancelledBeforeStart ==
    [][\A r \in Requests :
          req'[r].status = "CANCELLED" /\ req[r].status # "CANCELLED" =>
              \/ req[r].status = "PENDING_CANCELLATION" /\ req[r].ask.first > today
              \/ req[r].status = "PENDING_VERIFY" /\ "status" \in req'[r].sent]_vars

-----------------------------------------------------------------------------
(* What must happen. *)

\* Every handler comes to an end: waiting for row locks never becomes a
\* deadlock, and a transaction is always committed or rolled back.
HandlersEnd == \A w \in Workers : Busy(w) ~> ~Busy(w)

-----------------------------------------------------------------------------
(* The promised flow. *)

StageOf(status) ==
    CASE status = "NONE" -> "unfiled"
      [] status \in {"PENDING_VERIFY", "REVIEWING_HR"} -> "hr"
      [] status = "PENDING_SUPERVISOR" -> "supervisor"
      [] status = "PENDING_EXECUTIVE" -> "executive"
      [] status = "APPROVED" -> "granted"
      [] status = "PENDING_CANCELLATION" -> "withdrawing"
      [] status = "CANCELLED" -> "withdrawn"
      [] status = "REJECTED" -> "refused"
      [] status = "OTHER" -> "other"

ClaimOf(row) ==
    [account |-> IF row.status = "NONE" THEN None ELSE AccountOf(row), hours |-> row.total]

Flow == INSTANCE LeaveFlow WITH
    stage <- [r \in Requests |-> StageOf(req[r].status)],
    claim <- [r \in Requests |-> ClaimOf(req[r])],
    forced <- {r \in Requests : ~Untouched(r, {"status"})},
    left  <- [a \in Accounts |-> bal[a].remaining]

\* The handlers implement the promised flow: stages in order, quota charged
\* with the grant and given back with the cancellation; an edit form that sends
\* a status is the one way around it, and only out of HR's stage.
FollowsFlow == Flow!Spec
=============================================================================
