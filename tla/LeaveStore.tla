---------------------------- MODULE LeaveStore ----------------------------
(***************************************************************************)
(* The database of the leave back end (prisma/schema.prisma) as the        *)
(* handlers see it, and the handlers in flight.  The server is one Node    *)
(* process: handlers interleave at every await of a database call, so a    *)
(* handler is a task that takes one step per call whose order matters.     *)
(* A single SQL statement is atomic.  A transaction is one step when its   *)
(* first statement locks the rows it decides on and it reads nothing       *)
(* without a lock; otherwise it is a begin step (row locked, balance       *)
(* read) and a commit step (everything it wrote becomes visible).          *)
(***************************************************************************)
EXTENDS LeavePortion, Sequences, FiniteSetsExt

CONSTANTS
    Workers,        \* handlers that can be in flight at once
    Requests,       \* identities of leaverequest rows
    Users,          \* employees with an account
    RoleOf,         \* role of each user
    DeptOf,         \* department of each user
    Leaders,        \* users whose position is a department head's
    LeaveTypes,
    SpecialTypes,   \* types whose leave needs the CEO (isSpecial)
    Notice,         \* advanceNoticeDays of each type
    PaidCap,        \* yearly paid hours of each type, None when all are paid
    WholeCalendar,  \* <<user, type>> pairs sized by calendar days (maternity)
    YearOf,         \* the year of each day
    Asks,           \* the forms users submit
    Quota,          \* the leavebalance rows and the hours they start with
    Ops,            \* the operations users call
    Exclusive,      \* operations never in flight with another on one employee
    Extras,         \* what an edit may carry beside its dates
    MaxLog,         \* bound on the decisions asked for on one request
    None

OpNames == {"create", "edit", "cancel", "view", "hr", "manager", "ceo"}
Years == {YearOf[day] : day \in Days}
Accounts == DOMAIN Quota

PendingStatuses ==
    {"PENDING_VERIFY", "REVIEWING_HR", "PENDING_SUPERVISOR", "PENDING_EXECUTIVE"}

DeadStatuses == {"REJECTED", "CANCELLED"}

\* The column is a plain string: OTHER is any string the code never writes itself.
LiveStatuses == PendingStatuses \cup {"APPROVED", "PENDING_CANCELLATION", "OTHER"}

Statuses == {"NONE"} \cup LiveStatuses \cup DeadStatuses

\* The columns an edit form may name itself (UpdateLeaveRequestDto): the type,
\* the status and the hours, which are at least half a day (@Min(0.5)).
Extra == [type : LeaveTypes \cup {None},
          status : (Statuses \ {"NONE"}) \cup {None},
          total : {hours \in Nat : hours >= HoursPerHalf} \cup {None}]

NoExtra == [type |-> None, status |-> None, total |-> None]

\* A leavebalance row.
Balance == [total : Int, used : Int, remaining : Int]

ASSUME StoreAssumption ==
    /\ RoleOf \in [Users -> {"Employee", "Manager", "HR", "CEO"}]
    /\ Leaders \subseteq Users /\ DOMAIN DeptOf = Users
    /\ SpecialTypes \subseteq LeaveTypes
    /\ Notice \in [LeaveTypes -> Nat]
    /\ PaidCap \in [LeaveTypes -> Nat \cup {None}]
    /\ WholeCalendar \subseteq Users \X LeaveTypes
    /\ YearOf \in [Days -> Int]
    /\ \A day, later \in Days : day <= later => YearOf[day] <= YearOf[later]
    /\ Asks \subseteq Ask
    /\ \A ask \in Asks : /\ ask.first <= ask.last
                         /\ IsHourly(ask) => ask.first = ask.last /\ ask.from < ask.to
    /\ Accounts \subseteq Users \X LeaveTypes \X Years
    /\ Quota \in [Accounts -> Nat]
    /\ Ops \subseteq OpNames /\ Exclusive \subseteq OpNames
    /\ Extras \subseteq Extra
    /\ MaxLog \in Nat
    /\ IsFiniteSet(Requests)
    /\ None \notin Users \cup LeaveTypes \cup Requests \cup Ask \cup Nat \cup Balance \cup Statuses

VARIABLES
    req,    \* the leaverequest rows with their leaverequestday rows
    bal,    \* the leavebalance rows
    log,    \* the leaveapproval rows of each request, in order
    task,   \* the handler each worker runs
    today   \* the calendar

vars == <<req, bal, log, task, today>>

-----------------------------------------------------------------------------
(* Rows. *)

\* sent is no column: it remembers which columns an edit form wrote by itself.
Row == [status : Statuses, code : (LeaveTypes \X Nat \X Int) \cup {None},
        owner : Users \cup {None}, type : LeaveTypes \cup {None},
        ask : Ask \cup {None}, days : SUBSET DayPortion,
        total : Int, paid : Int, reviewer : Users \cup {None},
        sent : SUBSET DOMAIN NoExtra]

NoRow == [status |-> "NONE", code |-> None, owner |-> None, type |-> None,
          ask |-> None, days |-> {}, total |-> 0, paid |-> 0, reviewer |-> None,
          sent |-> {}]

Entry == [by : Users, status : Statuses]

-----------------------------------------------------------------------------
(* Handlers in flight. *)

Phases == {"plan", "code", "insert", "write", "acquire", "decide", "claim", "tx"}

Task == [op : OpNames \cup {"idle"}, phase : Phases \cup {"idle"},
         user : Users \cup {None}, r : Requests \cup {None},
         action : {"Approve", "Reject", "-"}, ask : Ask \cup {None},
         extra : Extra, seen : Row, draft : Row, balance : Balance \cup {None}]

Idle == [op |-> "idle", phase |-> "idle", user |-> None, r |-> None,
         action |-> "-", ask |-> None, extra |-> NoExtra, seen |-> NoRow, draft |-> NoRow,
         balance |-> None]

Busy(w) == task[w].op # "idle"

Finish(w) == task' = [task EXCEPT ![w] = Idle]

\* The employee whose leave a handler works on.
Subject(t) == IF t.op = "create" THEN t.user ELSE t.seen.owner

\* A user calls op on a leave of owner, on a worker that is free for it.
MayStart(w, op, owner) ==
    /\ ~Busy(w)
    /\ op \in Ops
    /\ \A v \in Workers : Busy(v) /\ Subject(task[v]) = owner =>
            {op, task[v].op} \cap Exclusive = {}

\* Bound: no further decision is asked for once a request has MaxLog of them.
LogRoom(r) == Len(log[r]) < MaxLog

\* The leave has not begun (deleteLeaveRequest and the cancellation decision
\* both refuse on the first day); the variant lets the first day through.
NotBegun_OnFirstDay(row) == row.ask.first >= today

NotBegun(row) == row.ask.first > today

\* The row is not locked by another handler's open transaction.
RowFree(w, r) == \A v \in Workers \ {w} : ~(task[v].phase = "tx" /\ task[v].r = r)

-----------------------------------------------------------------------------
(* Queries. *)

OwnedBy(owner) == {r \in Requests : req[r].owner = owner}

\* The slots the employee's other leaves hold (BLOCKING_EXCLUDED_STATUSES do not).
SlotsOf(row) == IF row.days = {} THEN Desired(row.ask) ELSE Expand(row.days)

Occupied(owner, except) ==
    UNION {SlotsOf(req[r]) : r \in
            {s \in OwnedBy(owner) \ except : req[s].status \in LiveStatuses}}

StartYear(row) == YearOf[row.ask.first]

ThisYear == YearOf[today]

\* The hours of the employee's other unfinished requests of the type that
\* start in the current year or later.
PendingHours(owner, type, except) ==
    MapThenSumSet(LAMBDA r : req[r].total,
        {r \in OwnedBy(owner) \ except :
            /\ req[r].type = type
            /\ req[r].status \in PendingStatuses
            /\ StartYear(req[r]) >= ThisYear})

\* The hours of the type already paid for since the year began.
PaidUsed(owner, type, except) ==
    MapThenSumSet(LAMBDA r : req[r].paid,
        {r \in OwnedBy(owner) \ except :
            /\ req[r].type = type
            /\ req[r].status \in LiveStatuses
            /\ StartYear(req[r]) >= ThisYear})

\* As many of the hours as there is room for.
Fitting(hours, room) ==
    IF room \in 0 .. hours THEN room ELSE IF room > hours THEN hours ELSE 0

\* Variant: what is paid already is not counted.
PaidHours_IgnoresUsed(owner, type, hours, except) ==
    IF PaidCap[type] = None THEN hours ELSE Fitting(hours, PaidCap[type])

\* computeAccrual: sick and military leave are paid up to a yearly cap.
PaidHours(owner, type, hours, except) ==
    IF PaidCap[type] = None THEN hours
    ELSE Fitting(hours, PaidCap[type] - PaidUsed(owner, type, except))

\* The highest sequence number used in the current year's codes, plus one.
NextSeq ==
    1 + Max({0} \cup {req[r].code[2] : r \in
                {s \in Requests : req[s].status # "NONE" /\ req[s].code[3] = ThisYear}})

\* Bound: there are no more numbers than requests.
MaxSeq == Cardinality(Requests)

\* The balance row a final decision reads: that of the year the leave starts in.
AccountOf(row) == <<row.owner, row.type, StartYear(row)>>

BalanceOf(row) == IF AccountOf(row) \in Accounts THEN bal[AccountOf(row)] ELSE None

-----------------------------------------------------------------------------
StoreInit ==
    /\ req = [r \in Requests |-> NoRow]
    /\ bal = [a \in Accounts |-> [total |-> Quota[a], used |-> 0, remaining |-> Quota[a]]]
    /\ log = [r \in Requests |-> <<>>]
    /\ task = [w \in Workers |-> Idle]
    /\ today \in Days /\ \A day \in Days : today <= day

\* The handler dies: a database error, or the process restarts (PM2 autorestart).
\* An open transaction rolls back; what was committed stays.
Fail(w) ==
    /\ Busy(w)
    /\ Finish(w)
    /\ UNCHANGED <<req, bal, log, today>>

\* Midnight passes, while no handler runs.
Midnight ==
    /\ today + 1 \in Days
    /\ \A w \in Workers : ~Busy(w)
    /\ today' = today + 1
    /\ UNCHANGED <<req, bal, log, task>>
=============================================================================
