# Leave management back end: verification

This directory holds TLA+ models of this repository (a NestJS server over MySQL through
Prisma): the leave workflow, the accounts of its users, the leave balances, the
reminders and the reports. With them come TLC configurations that check the models on
small instances, and TLAPS proofs of what holds for every instance.

Paths below are relative to the repository; the service files are under `src/modules/`.

## 1. The system

### Parts, their state and their operations

| Part | Code | State | Operations that change it |
|---|---|---|---|
| Day-portion planner | `employee/leave-portion.util.ts` | none | expand a leave into half-days, find what is occupied, plan portions |
| Filing, editing, cancelling | `employee/services/employee-mutation.service.ts` | `leaverequest`, `leaverequestday` | create, update, ask for cancellation |
| HR verification | `hr/services/hr-leave-verification.service.ts` | the same, `leaveapproval`, `leavebalance` | take the review lock, verify or reject, decide a cancellation |
| Department head | `manager/manager.service.ts` | the same | decide a verified request, charge the balance |
| CEO | `ceo/ceo.service.ts` | the same | decide special leave and the leave of heads, charge the balance |
| HR employee administration | `hr/services/hr-employee.service.ts` | `employee`, `user` | hire, change role, position and department, (de)activate, delete |
| HR balance administration | `hr/services/hr-employee.service.ts` | `leavebalance` | initialise a year, reset, correct |
| Organisation | `hr/services/hr-org.service.ts` | `department`, `position`, `leavetype`, `holiday` | CRUD, cascade of positions to roles |
| Admin area | `admin/admin.service.ts` | `user`, `captcha` | suspend, activate, change role, force out, temporary password, keep one active Admin |
| Authentication and sessions | `auth/` | `user` (token version, lockout), cookies, `captcha` | login, refresh, logout, reset and change password |
| Notifications and reminders | `notification/` | `notification` rows, e-mail | after each decision; a daily reminder |
| Attachments | `upload/` | `leaveattachment` rows | upload, replace (one transaction) |
| Queries, dashboards, reports, export | several | none | reads |
| Announcements, audit log | `announcement/`, `common/interceptors/` | their own tables | CRUD, one row per response |

### How they interact

The parts never call each other; they meet in the database. A leave request is a
row that four kinds of callers change, each through its own service:

```
             create                 HR verifies            head approves         CEO approves
  (nothing) -------> PENDING_VERIFY ------------> PENDING_SUPERVISOR ---------> PENDING_EXECUTIVE
                      |        ^                    |    (special leave)            |
                 HR opens it   | edited             | ordinary leave                |
                      v        |                    v                               v
                     REVIEWING_HR                APPROVED  <------------------------+
                                                  |    ^
                                     owner cancels|    | HR refuses
                                                  v    |
                                     PENDING_CANCELLATION ----> CANCELLED (HR confirms, hours go back)
```

Any decision may instead end in `REJECTED`. The leave of a department head goes from
HR straight to `PENDING_EXECUTIVE`. A final approval takes the hours off
`leavebalance`; a confirmed cancellation gives them back.

`leavebalance` is also HR's: a year's rows are initialised from the leave types (annual
leave carries over from the year before), reset, and corrected by hand. `user` is
written by three services. A session is a pair of tokens made for a role and a
`tokenVersion`, so whoever changes either (Admin area, HR's moves, a position whose
role changes, a password) signs the account out by a new version. Every morning the
reminder job asks the same tables who may decide what is waiting.

### What is hard here

The server is one Node process, so two handlers interleave at every `await` of a
database call, and a handler that checks a row and then writes it may find another
row than the one it checked. The code protects some of these gaps (conditional
`updateMany` by the department head, the CEO and the review lock; `SELECT ... FOR
UPDATE` and a second plan when a leave is filed) and leaves others open. Besides:
a failed call or a restart between two steps (PM2 restarts the process), a request
code that two creates may compute alike, rollback of a transaction that has
already claimed its row, three notions of a leave's size (hours, day rows, half-day
slots), two notions of its year (current year, year of its first day), clock
hours written on the server's clock and read in UTC, and an edit form whose status,
hours and type go into the row as they are sent.

Correctness, per part:

- planner: a plan is exactly the wanted half-days that are free; no half-day is given twice;
- filing: no double booking, no more hours asked for than remain, hours match days, paid
  hours within the cap;
- editing: never after HR has decided, and never a decision; cancelling: never a leave
  that has begun;
- review lock: held exactly while under review, one per HR user;
- decisions: never one's own leave, no stage skipped, never undone, charged exactly once;
- all handlers: each ends;
- balances: used and remaining days add up to the total; each change is one whole
  operation on the row as it is; an initialisation leaves no type out;
- sessions: no session survives a sign-out, none carries a role its owner lost, a reset
  link works once, a captcha serves one login, wrong passwords lock the account;
- accounts: an active Admin is left, HR never touches or makes an Admin, whoever holds a
  position has its role, a department has one head's position;
- reminders: nobody who could decide all along is left out;
- reports: the screen shows as free what filing accepts, adjoining periods add up, the
  dashboards tell of the same people.

`PROJECT.json` lists every hazard with its line and the properties that watch it. A
hazard with no property has a note: mostly it is an overlap which the code lets happen
and under which the property fails, so that the passing run has to leave it out.

## 2. The modules

```
LeavePortion ---- LeaveCalendar ---- LeaveReport ---- MCLeaveCalendar
     |
LeaveStore ---+-- EmployeeMutation --+
              +-- HrVerification ----+-- LeaveSystem ---- MCLeaveSystem
              +-- ApproverDecision --+        |
                                     LeaveFlow (abstract, by INSTANCE)

AccountStore -+-- Sessions -------+
              +-- AdminAccounts --+-- AccountSystem -+-- MCAccountSystem
              +-- StaffAccounts --+                  +-- Reminders ---- MCReminders

LeaveLedger (abstract) ---- BalanceAdmin ---- MCBalanceAdmin

LeavePortionProofs -+-- LeaveCalendarProofs (LeaveReport)      AccountSystemProofs
SumProofs ----------|                                               |
     |              +-- LeaveSystemProofs (LeaveSystem)        AdminProofs (Reminders)
     |                       |
     +---------------- LeaveExclusionProofs                    BalanceAdminProofs
```

The modules of a line EXTEND the one to their left. There are three stores (requests
and balances, accounts, balances and types). They are separate models of one database:
no handler of the workflow writes an account, no handler of HR's balance screen looks at
a request, so what crosses is modelled where it matters. `BalanceAdmin` has charges and
refunds as the workflow makes them; `Reminders` composes all of `AccountSystem` with the
stages of requests.

**LeavePortion** is the planner as operators: `Desired` and `Expand` are
`expandLeaveHalves` without and with stored days, `PlanDays`, `PlanOk` and `PlanHours` are
the three results of `planDayPortions` (entries, conflicts, total), `HourlyHours` is what
`calculateWorkingDays` says of a leave by the hour. Days are integers and `UtcOffset` is
the server's time zone, so `UtcHour` and `UtcDay` are what `getUTCHours` and the UTC day
key make of a local clock time. `Counted` is the rule for weekends and holidays: holidays
lie at midnight in UTC and are looked up between the two instants of the form, so leave by
the clock finds one only if that instant is inside. Leave is measured in hours, eight to
the day, where the code has decimals of a day.

**LeaveCalendar** is one employee's calendar under the planner alone: accept a form
that plans without conflict and counts some hours, drop a leave. Nothing races here;
it is where the planner's own correctness is stated.

**LeaveStore** is the database (`req`: `leaverequest` with its day rows; `bal`:
`leavebalance`; `log`: `leaveapproval`), the clock (`today`) and the handlers in
flight (`task`, one per worker): who called what, on which request, what the handler
has read (`seen`, `balance`), worked out (`draft`) and been sent beside its dates
(`extra`). It also holds the queries several handlers make, the death of a handler
(`Fail`) and `Midnight`. `sent` in a row is no column: it remembers which columns an edit
form wrote by itself. The status column is a plain string; `OTHER` is any string the
code never writes.

**EmployeeMutation**, **HrVerification**, **ApproverDecision** hold the handlers.
Each handler is a call action, which makes the checks of the handler's reads and
starts a task, and step actions, which end it:

| Handler | Actions |
|---|---|
| `createLeaveRequest` | `CreateRead`, `CreatePlan`, `CreateCode`, `CreateInsert` |
| `updateLeaveRequest` | `EditRead` or `EditReadPlain` (no dates in the form), `EditPlan`, `EditWrite`; `Supplied` and `Rewritten` are the columns of the form that reach the row: the type, the hours of a form without dates, the status unless the request goes back to the queue |
| `deleteLeaveRequest` | `CancelRead`, `CancelWrite` |
| `markAsViewed` | `ViewRead`, `ViewAcquire` |
| `processLeaveRequest` (HR) | `HrRead`, `HrAcquire`, `HrDecide`; for a cancellation `HrCancelBegin`, `HrCancelCommit` |
| `processRequest` (head) | `ManagerRead`, `Claim`, `Commit` or `Rollback` |
| `approveSpecialLeave` (CEO) | `CeoRead`, `Claim`, `Commit` or `Rollback` |

**LeaveSystem** composes them and states the properties. **LeaveFlow** is the abstract
specification: a request moves through its stages in order, the quota is charged in the
step that grants, given back in the step that withdraws, and nothing else moves it; but a
request in HR's stage may be put at any stage at once, with nothing charged, and is then
`forced` (`Override`: what a sent status does). The mapping is `StageOf` and `ClaimOf` of
each row, and the remaining hours of each balance row.

A handler call that the code refuses leaves no trace, so the refusals are the
negations of the call actions' guards. Calls come from anyone at any time: a call
action has no fairness.

**LeaveReport** reads the leaves of `LeaveCalendar`: `TakenHalves` and `DayStatus` are
`getDayAvailability`, `HoursWithin` and `Reported` are `daysWithinRange` and the rows of
`getLeaveSummary`, `CeoToday`, `HeadToday`, `InMonth` and `TrendDays` are the counts of
the two dashboards. What is compared are instants: a date is its midnight in UTC, leave
by the clock begins and ends at its hours on the server's clock (`Begin`, `End`),
midnights are those of the server's clock.

**AccountStore** is the database of accounts (`user`, `emp`, `post`, `captcha`), what was
handed out and can come back (`tokens`, `links`), the clock and the handlers in flight.
`misses`, `byHand` and `spent` only remember what happened, for the properties. A
password is not a value of the model: whether a typed one matches is left open.

| Handler | Actions |
|---|---|
| `generateCaptcha`; purge of captchas | `GenerateCaptcha`; `PurgeCaptcha` |
| `login` | `LoginCall`, `LoginClaim`, `LoginUnlock`, then `WrongPassword`, `LoginSuspended`, `LoginUnknown` or `RightPassword`, `StoreTokens` |
| `logout`, `refreshTokens` | `Logout`; `RefreshCall`, `StoreTokens` |
| `forgotPassword`, `resetPassword`, `updateProfile` with a password | `ForgotPassword`; `ResetPassword`; `ProfileCall`, `ProfileWrite` |
| Admin: `forceLogout`, `toggleStatus`, `resetPassword`, `updateRole` | `ForceLogout`; `SuspendCall`, `ReadTarget`, `CountAdmins`, `SuspendWrite` or `Activate`; `TempPassword`; `RoleCall`, `ReadTarget`, `CountAdmins`, `RoleWrite` |
| HR: `updateEmployeeStatus`, `updateEmployee`, `createEmployee`, `deleteEmployee` | `StatusCall`, `StatusWrite`; `EmployeeBegin`, `EmployeeCommit`; `HireCall`, `HireCommit`; `FireCall`, `FireCommit` |
| `createPosition`, `updatePosition` | `NewPostCall`, `NewPostWrite`; `PositionBegin`, `PositionCommit` |

**Sessions**, **AdminAccounts** and **StaffAccounts** hold them by service,
**AccountSystem** composes them and states the properties. Two details of the code show:
`SameHash`, that the stored hash of a refresh token covers the first 72 bytes only, which
tell users apart and not tokens (the version and the role of the stored row decide what
a refresh hands out); and `LoginTask`, that a login carries the row it read first through
four awaits.

**LeaveLedger** is the abstract specification of one employee's balance rows: they
change one at a time, each by a whole operation (open, resize, clear, charge, refund,
correct) applied to what the row is now. **BalanceAdmin** is the code: a handler reads
rows, checks, and writes them back one statement at a time, with charges, refunds and
changes of the leave types beside it. `seen` holds what a handler has read and has still
to write.

| Handler | Actions |
|---|---|
| `initializeLeaveBalances` | `InitialiseCall` (rows), `InitialiseTypes`, `InitialiseWrite` per type |
| `resetLeaveBalances` | `ResetCall`, `ResetWrite` per row |
| `updateLeaveBalance` | `CorrectCall`, `CorrectWrite` |
| charge of a final approval, refund of a cancellation | `ChargeCall`, `ChargeWrite` |
| `createLeaveType`, `updateLeaveType`; `deleteLeaveType` | `TypeWrite`; `TypeDelete` |

**Reminders** is `sendPendingReminders` (`ReadPending`, `ReadHr` and `ReadCeo` in either
order, `ReadHeads`, `Send`, `MailFail`, `NextRun`) beside every action of
`AccountSystem` and `Decide`, which moves a request on by the rules of the deciding
handlers. `watch` collects who could decide which request, at which stage and in which
department, ever since the job began.

### The grain of a step, and what is assumed of MySQL

- A single SQL statement is atomic, conditional `updateMany` included; it waits for
  the row lock of an open transaction (`RowFree`).
- Reads between two awaits that lead to one decision are merged into one step, unless
  a property depends on what changes between them: the balance, the overlap plan and
  the request code of a create are read in three different steps. A Prisma query with
  `include` is one step too, although Prisma reads the included rows by statements of
  their own; for the reminder's query of the heads (`ReadHeads`), which includes their
  employee, position and department, this is finer in the code than in the model.
- A transaction that only locks, reads under the lock and writes is one step
  (`CreateInsert`, `HrDecide`). One that locks a row and then reads a balance without
  a lock is two: begin (row locked, balance read) and commit (all writes visible).
  Prisma's default isolation is MySQL's REPEATABLE READ, so a plain read inside does
  not see or block later commits; the balance is written as absolute numbers.
- The unique index on `requestCode` makes the second insert of a code fail
  (`CodeTaken`); the handler ends with an error.
- `SELECT ... FOR UPDATE` in a create locks the employee's rows. For an employee
  with no row at all, two creates take compatible gap locks and InnoDB aborts one of
  the inserts; the model's insert-after-insert has the same outcomes, one of them
  refused by `StillFree` or by `Fail`.
- `Fail(w)` is a database error or a restart of the process at any step: an open
  transaction rolls back and what was committed stays.

### Constants

`Ops` are the operations called in a run. `Exclusive` are the operations that never
overlap another one on leave of the same employee: `{}` is the system as it is,
the other values tell which overlaps a property needs to be absent. It is an
assumption about callers, not something the code enforces. `Extras` is what edit forms
may carry beside their dates: a type, a status, hours, each or none; the DTO lets every
such form through. `MaxLog` bounds the decisions asked for on one request and makes the
state space finite; `MaxSeq` bounds request codes by the number of requests, which
suffices because a code is one more than a used one. `Leaders`, `RoleOf` and
`DeptOf` are fixed in the workflow: changes of role and department are in `AccountSystem`,
and what they do to pending requests in `Reminders`.

In `AccountSystem`, `Exclusive` are the operations that overlap no other one on the same
account, and `Apart` lists groups of which one at a time is past its guards, on any
account. `Subjects` are the accounts that operations work on, `MaxVersion` and `MaxTime`
bound the token versions and the clock. In `BalanceAdmin`, `Apart` is TRUE when no two
handlers hold the same row. All of these are assumptions about callers which the code
does not enforce; empty values and FALSE are the system as it is.

## 3. Properties

On the calendar (`LeaveCalendar`): `NoHalfTwice`, that no half-day is held by two
leaves; `PlanIsExact`, that for every form by days the planner's day-by-day cases
agree with one interval of half-days, minus what is taken, and that it refuses
exactly when a counted day has nothing left; `ClockSlotsHeld`, that a leave by the clock
holds some of the half-days its hours reach into on the UTC clock and none beside;
`NoDayOverfull`, that a day never holds more than eight hours of leave.

On the reports (`LeaveReport`): `AvailabilityTruthful`, that the request screen shows a
half free, whatever range it asks for, exactly when filing would accept it;
`RangesAddUp`, that what HR's summary reports of a leave for two adjoining periods adds
up to the whole and never exceeds what was charged, and that a row from before the
stored portions is reported like one with them; `CountsAgree`, how far the dashboards
may be from who is away on a day: the head's count misses nobody and has beside them
only leave that begins with the next midnight (its query reaches to it inclusive), the
CEO's has nobody beside and misses only who begins that day, the CEO's trend is exact but
for the last day of the month, where it has nobody beside. `AvailabilityTruthful` is about
leave that counts workdays only: the screen shows a weekend as closed to maternity leave,
which the planner lets in.

On the workflow (`LeaveSystem`). An edit form can send a status, hours or a type, which
nothing checks; the properties speak of the rows whose columns no form sent
(`Untouched`), or of the employees with no other row (`NoneTouched`), and that is as much
as the code keeps. What a sent status does is in `FollowsFlow` and `status_sent`.

| Property | Says | Checked when these overlap nothing |
|---|---|---|
| `NobodyDecidesOwnLeave` | no approval row is written by the owner of the request | (anything overlaps) |
| `AuditTrail` | granted leave whose status and type no form sent has HR's verification first and the approval of whoever owns the final word | (anything overlaps) |
| `NoDoubleBooking` | live requests of one employee hold disjoint half-days | edits, HR decisions |
| `LockDiscipline` | a request with a reviewer is under review, and one under review has a reviewer unless a form sent that status | edits, HR decisions |
| `VerifiedIsFrozen` | after HR's decision the content never changes | edits, HR decisions |
| `DecisionsStand` | rejected and cancelled are final, granted never returns to the process | edits, HR decisions |
| `CancelledBeforeStart` | only a requested cancellation is confirmed, before the first day; or a form cancels a request HR has not taken up | edits, HR decisions |
| `Ledger` | each balance row is its total less the leaves granted on it, for employees none of whose statuses was sent | all operations |
| `Reserved` | hours waiting never exceed hours remaining, for employees none of whose hours or types was sent | all operations |
| `HoursMatchDays` | charged hours are the hours of the stored days, unless a form sent them | all operations |
| `PaidWithinCap` | paid hours of a capped type stay within the yearly cap, for employees none of whose types was sent | all operations |
| `FollowsFlow` | the handlers implement `LeaveFlow`, sent statuses and hours included | all operations |
| `HandlersEnd` | every handler that starts ends | (anything overlaps) |
| `EveryGrantDecided`, `EveryGrantCharged`, `OneLockPerHr` | see the findings | (violated) |

With HR decisions overlapping, TLC refutes `NoDoubleBooking` (a second decision revives a
rejected leave whose half-day is taken by now), `DecisionsStand` and
`CancelledBeforeStart`; with edits overlapping, `NoDoubleBooking`, and with both
overlapping `VerifiedIsFrozen`. Those two operations are the ones that write by id what
they decided on an earlier read; the others may overlap one another. A cancellation writes
by id too, but only a cancellation decision or another cancellation can get in its way.

On the accounts (`AccountSystem`):

| Property | Says | Checked when these overlap nothing |
|---|---|---|
| `AcceptedRoleIsCurrent` | a token that is let in carries the role its owner has | logins, refreshes, password changes, on one account |
| `StoredSessionIsCurrent` | the stored refresh token belongs to the present version | the same |
| `NoRevival` | a token of another version never becomes valid again | the same |
| `LinkOnce` | a reset link that changed a password never does again | the same |
| `LockAfterMisses` | `MaxAttempts` wrong passwords in a row lock the account | the same |
| `LockHolds` | no login ends a lock before its time | the same |
| `CaptchaOnce` | no two logins past the captcha show the same one | (logins overlap) |
| `LastAdmin` | an active Admin is left | role changes and deletions, past their guards |
| `HoldersHaveTheRole` | whoever holds a position has its role, unless it was chosen by hand since | employees' moves, hirings and changes of positions |
| `OneHeadPost` | a department has at most one head's position | creations and changes of positions |
| `HrLeavesAdminsAlone` | HR changes no Admin's account and makes nobody an Admin, even when the account becomes an Admin's under its hands | HR's moves and deletions with role changes |

The last four are checked in one run, with the groups
`{role, fire, employee, position}`, `{employee, hire, position}`, `{newpost, position}`;
a handler that has not yet read its target (`target`) overlaps everything.

On the balances: `Balanced` (used and remaining add up to the total, used is never
negative), `NoGaps` (an initialisation that goes on has left a row behind it for every
type it is done with) and `LedgerSpec` (`BalanceAdmin` implements `LeaveLedger`: each row
changes by one whole operation on what it is at that moment), with `Apart = TRUE`. On
the reminders: `RemindsStandingApprovers` (whoever could decide a request where it
waited when the job began, all the time the job ran, gets its mail), while anything
overlaps. Of people who may decide first at one stage and then at another nothing is
promised: an HR user who becomes the owner's Manager while the request moves from HR to
the supervisor is missed by the query for HR users, and the request was not read as one
of the supervisor's.

Each module has one type invariant: `TypeOK`, `AccountTypeOK`, `BalanceTypeOK`.

## 4. Runs

Two workers in every run of handlers that may overlap, and one beside the job in
`reminders`: each race found needs two handlers, and with three the third only repeats
what one of the two does. `one_at_a_time` has one worker, since its operations exclude
each other. Workers are alike, so most runs without liveness take them as symmetric. The
calendars are two to six days, so that there is a day before a leave, its first day and a
second leave on the same or another day.

| Run | Instance | Shows |
|---|---|---|
| `calendar` | a server in Bangkok; six days with a weekend inside and a holiday at the end; 17 forms by days, and 5 by the clock that lie on both sides of the UTC noon, across it, and on the holiday; three leaves | the planner is exact and gives nothing out twice; screen, summary and dashboards agree with it for every range of days |
| `overlap_any` | one request, an ordinary and a special type, an employee, a head, an HR user who may also file, the CEO; anything overlaps, edit forms may send APPROVED; 3 decisions | nobody decides their own leave, no stage is skipped but by a form |
| `overlap_guarded` | two requests that compete for a morning, an HR user and another who also heads the department; edit forms may send CANCELLED or REVIEWING_HR | creates, views, cancellations and final decisions overlap: calendar, lock and decisions are safe once edits and HR decisions are alone |
| `one_at_a_time` | two requests, a two-day leave and a half-day on its second day, two types, one with 12 hours of quota (the two leaves do not both fit) and one with 16 (they do, and exceed the cap of 8 paid hours), 4 decisions, handlers may die at any step, edit forms may send PENDING_CANCELLATION and 12 hours | balances and hours are exact where nothing was sent and the promised flow is implemented |
| `sessions` | an Admin and the employee all operations are about, one captcha, 2 attempts, versions up to 2, one tick of the clock; logins, refreshes and password changes of the account overlap no other operation on it, but logins with a name nobody has and the Admin's statements come at any time | sessions end, links and captchas serve once, locks hold |
| `staff` | two Admins and a new employee, a head's position to be created, two departments (one is HR's) | the last Admin, HR's limits, roles follow positions |
| `balances` | annual and sick leave, the year before and this year, a carry-over that meets its cap of 3, correction, reset, initialisation, charge and refund, handlers that die | HR's handlers implement the ledger when they do not share a row |
| `reminders` | an HR user who may become the leader, the Admin who may make them Manager or CEO, a manager, an employee; a request at HR and the manager's own at the CEO | the order of the job's queries loses no standing approver |
| `handlers_end` | two requests on 4 hours of quota so that a charge can fall short, everything overlaps, fair handlers | no handler waits for ever |

One request suffices for `overlap_any`, because both properties speak of one request
at a time and the handlers couple requests only through the review lock and the
calendar, which neither property mentions. Four decisions on a request cover HR,
head, CEO and a cancellation decision. In `handlers_end` two requests, two handlers
and two decisions are enough for a row wait, a short balance and a rollback.
The statuses forms send are, one per run, those each run's properties could break on: a
grant without approval, a cancellation or a review that did not happen, and a withdrawal,
which HR can confirm so that hours come back that were never taken; 12 hours are the
size of neither form there, and a request under review takes them without the status. A
sent type is in no run: which rows the properties then leave out is part of the theorems.
Version 2 is the first that a lost update can fall behind, and the first tick ends a
lock; the attempts before a lock are 2 for `MAX_FAILED_LOGINS`. Two Admins are the
fewest that can take each other away. A cap of 3 is passed by a default of 2 with
anything left over and not by it alone. Five states of the job and one handler suffice
for `reminders`, whose property compares two moments of one account and one request.
The requests of the workflow's runs are by days; leave by the clock is in the
calendar's runs, where the planner treats it. The forms of `overlap_guarded` are a day
and its morning, because those are the smallest two that overlap without being equal.

`CHECK_DEADLOCK FALSE` on the workflow: the model stops when request identities, days
and `MaxLog` are used up; on the accounts when versions and time are; on the balances and
reminders nothing obliges HR or the job to go on. The calendar never stops, and its
deadlock is checked.

### Fairness

`FairSpec` gives each handler strong fairness of its next step: Node resumes a
handler after the await it waits for, and InnoDB grants a contended row lock in the
order of requests, so a step that becomes possible again and again is not passed
over for ever. Calls, `Fail` and `Midnight` have none: nobody has to call, and
nothing has to fail. `HandlersEnd` therefore does not rest on a handler's death.

### Findings

Three have a run in which TLC finds the violation; the quotes are in `PROJECT.json`.

- `lost_charge`: two final approvals of two leaves of one employee overlap. Both read
  the balance before either commits, both write absolute numbers, one charge is lost.
- `next_year_free`: filing checks the current year's balance row, granting charges the
  row of the year the leave starts in and charges nothing when there is none.
- `status_sent`: the owner edits a request that waits for HR with a form that names the
  status APPROVED. The form is spread into the update as a whole, so the leave is granted
  with no decision, no approval row and no charge, and no other handler is needed.

The others show when a passing run is changed as the table says, and asked for the one
property; the counterexample is then TLC's. Those of the workflow are with
`Extras <- DatesOnly`.

| Run and change | Refuted | What happens |
|---|---|---|
| `overlap_guarded`, `Ops = {"create", "edit"}`, `Exclusive = {}`, `Asks <- Mornings` | `NoDoubleBooking` | an edit plans outside any transaction, so it takes a half-day another leave got in between |
| `overlap_guarded`, `Ops = {"create", "edit", "hr"}`, `Exclusive = {"create"}` | `VerifiedIsFrozen` | an edit that read the request before HR's verdict writes after it |
| `overlap_guarded`, `Ops = {"create", "hr"}`, `Exclusive = {"create"}` | `DecisionsStand` | HR's verdict is an update by id without a condition on the status: the second of two decisions of the reviewer undoes the first |
| `overlap_guarded`, `Ops = {"create", "view"}`, `Exclusive = {"create"}`, `Asks <- Mornings` | `OneLockPerHr` | the check for another locked request is not part of the conditional update, so two views lock two requests for one HR user |
| `one_at_a_time`, two workers, `Ops = {"create"}`, `Exclusive = {}`, `Asks <- Mornings`, `Quota <- HalfDay`, one type, `PaidCap <- AllPaid` | `Reserved` | two creates sum the waiting hours before either inserts, and together ask for more than remains |
| `staff`, `Ops = {"role"}`, `Apart = {}` | `LastAdmin` | two Admins demote each other: both count two (`admin.service.ts:175` promises one stays) |
| `staff`, `Apart = {}` | `HrLeavesAdminsAlone`, `HoldersHaveTheRole` | HR checks whose account it is, then writes or deletes; a move decides the role from a position that changes meanwhile |
| `staff`, `Ops = {"position", "newpost"}`, `Apart = {}` | `OneHeadPost` | two head's positions of one department are written between each other's check and write |
| `staff` with `[dept: d2, role: Manager]` and `[dept: d1]` among `PostForms` | `OneHeadPost` | a head's position moves to a department that has one: the check is made only when a role is sent (`hr-org.service.ts:103`) |
| `sessions`, `Ops = {"profile", "role"}`, `Exclusive = {}` | `AcceptedRoleIsCurrent` | a password change issues tokens for the role, and the version, it computed from the row it read; a role change in between arrives at the same version, and the old role goes on |
| `sessions`, `Exclusive = {}` | `StoredSessionIsCurrent`, `NoRevival`, `LinkOnce` | a login stores the hash for the version it read at its start; a password change writes a version that others have passed |
| `sessions`, `Exclusive = {}`, two captchas | `LockHolds`, `LockAfterMisses` | logins of one account write the failed attempts they counted, and the lock that follows, as absolute values |
| `balances`, `Apart = FALSE` | `LedgerSpec`, `Balanced`, `NoGaps` | a correction, a reset or an initialisation writes back what a charge has changed meanwhile |
| `calendar`, `Asks <- OfficeClock` | `ClockHalvesHeld` | hours written on the server's clock are read back in UTC (`leave-portion.util.ts:119`), and 13:00-16:00 in Bangkok holds the morning |
| `calendar` | `CeoCountsToday` | a date is stored at 07:00 of the server's clock and compared with its midnight (`ceo.service.ts:48`), so who begins today is not counted |

The models show further weaknesses of the same kinds: with cancellation decisions
overlapping, one grant can be refunded twice or be cancelled and approved again; two
creates of one employee can together ask for more than remains; when a leave is dropped
between a create's two plans, its hours are those of the first and its days those of the
second; an edit form that sends a type is checked against the balance of the old type, and
written after an HR verdict it can turn ordinary leave into special leave that the CEO
never sees; a sent PENDING_CANCELLATION is confirmed by HR like any other and gives back
hours that nobody took, as far as the row's total; a request sent to REVIEWING_HR has no
reviewer and can be decided by nobody until it is edited again; a leave by the clock
across noon, on a day whose morning is taken, is charged all its hours but holds the
afternoon only; an initialisation after the default of a type was lowered leaves a
negative remainder, which a correction by hand would refuse; HR's deactivation of an
account leaves its version, so the access token is refused only as long as the account
stays inactive. The `Exclusive` and `Apart` values and the forms of the passing runs leave
exactly these out.

## 5. Proofs

TLAPS checks these for every value of the constants that satisfies the named
assumptions `PortionAssumption`, `StoreAssumption`, `CalendarAssumption`,
`AccountAssumption`, `LedgerAssumption`, `ApartAssumption` and `ReminderAssumption`,
which TLC evaluates in the runs. The words in front of `=>` are conditions, explained
below the table.

| Theorem | States |
|---|---|
| `LeaveSystemProofs!TypeCorrect` | `Spec => []TypeOK` |
| `LeaveSystemProofs!OwnLeaveHolds` | `Spec => []NobodyDecidesOwnLeave` |
| `LeaveSystemProofs!AuditTrailHolds` | `Spec => []AuditTrail` |
| `LeaveExclusionProofs!LockDisciplineHolds` | `EditHr => (Spec => []LockDiscipline)` |
| `LeaveExclusionProofs!VerifiedIsFrozenHolds`, `DecisionsStandHolds`, `CancelledBeforeStartHolds` | `EditHr => (Spec => VerifiedIsFrozen)`, `DecisionsStand`, `CancelledBeforeStart` |
| `LeaveExclusionProofs!NoDoubleBookingHolds` | `SameUtcDay /\ EditHr => (Spec => []NoDoubleBooking)` |
| `LeaveExclusionProofs!HoursMatchDaysHolds` | `"create" \in Exclusive => (Spec => []HoursMatchDays)` |
| `LeaveExclusionProofs!PaidWithinCapHolds` | `FilingApart => (Spec => []PaidWithinCap)` |
| `LeaveExclusionProofs!LedgerHolds` | `DecisionsApart => (Spec => []Ledger)` |
| `LeaveExclusionProofs!ReservedHolds` | `KeptApart => (Spec => []Reserved)` |
| `LeaveExclusionProofs!FollowsFlowHolds` | `FlowApart => (Spec => FollowsFlow)` |
| `LeavePortionProofs!PlanClaimsFree` | a plan claims exactly the wanted free slots of counted days |
| `LeaveCalendarProofs!PlanIsExactHolds` | `Spec => []PlanIsExact` |
| `LeaveCalendarProofs!NoHalfTwiceHolds` | `SameUtcDay => (Spec => []NoHalfTwice)` |
| `LeaveCalendarProofs!ClockSlotsHeldHolds` | `Spec => []ClockSlotsHeld` |
| `LeaveCalendarProofs!NoDayOverfullHolds` | `SameUtcDay /\ ShortClock => (Spec => []NoDayOverfull)` |
| `LeaveCalendarProofs!AvailabilityHolds`, `RangesAddUpHolds` | `OneDayByClock => (Spec => []AvailabilityTruthful)`, `[]RangesAddUp` |
| `LeaveCalendarProofs!CountsAgreeHolds` | `NoGap /\ OneDayByClock => (Spec => []CountsAgree)` |
| `AccountSystemProofs!AccountTypeCorrect` | `Spec => []AccountTypeOK` |
| `AccountSystemProofs!CaptchaOnceHolds` | `Spec => []CaptchaOnce` |
| `AccountSystemProofs!AcceptedRoleHolds`, `StoredSessionHolds` | `Undisturbed => (Spec => []AcceptedRoleIsCurrent)`, `[]StoredSessionIsCurrent` |
| `AccountSystemProofs!NoRevivalHolds`, `LinkOnceHolds` | `Undisturbed => (Spec => NoRevival)`, `LinkOnce` |
| `AccountSystemProofs!LockAfterMissesHolds`, `LocksHold` | `LoginsAlone => (Spec => []LockAfterMisses)`, `LockHolds` |
| `AdminProofs!LastAdminHolds`, `HrLeavesAdminsAloneHolds` | `AdminsApart /\ AnAdminAtStart => (Spec => []LastAdmin)`, `HrLeavesAdminsAlone` |
| `AdminProofs!OneHeadPostHolds` | `HeadsApart /\ RoleSentOnMoves /\ OneHeadAtStart => (Spec => []OneHeadPost)` |
| `AdminProofs!HoldersHaveTheRoleHolds` | `RolesApart /\ RolesAtStart => (Spec => []HoldersHaveTheRole)` |
| `AdminProofs!RemindsHolds` | `HousedAtStart => (ReminderSpec => []RemindsStandingApprovers)` |
| `BalanceAdminProofs!BalanceTypeCorrect` | `BalanceSpec => []BalanceTypeOK` |
| `BalanceAdminProofs!LedgerBalanced` | `LedgerSpec => []Balanced` |
| `BalanceAdminProofs!HandlersImplementLedger` | `Apart => (BalanceSpec => LedgerSpec)` |
| `BalanceAdminProofs!BalancedHolds`, `NoGapsHolds` | `Apart => (BalanceSpec => []Balanced)`, `[]NoGaps` |

### The conditions

Types, own leave, the exactness of the planner, the slots of leave by the clock, captchas
and reminders hold however handlers overlap, and so does the audit trail, of every
request whose status and type no edit form sent. The other theorems have a condition,
because the code does not guard what they speak of; where section 4 has a counterexample,
the theorem says that the overlap named there is all that goes wrong. Each condition is
met by the passing run that checks the property, and most are weaker than what that run
assumes. No condition limits the status and the hours that forms send: which rows a sent
column takes out is in the properties themselves.

| Condition | Says |
|---|---|
| `EditHr` | edits and HR's decisions overlap nothing else on leave of the same employee; filing, viewing, cancelling and final decisions may overlap one another |
| `FilingApart` | filing, editing and HR's decisions overlap nothing |
| `DecisionsApart` | the decisions of HR, heads and CEO overlap nothing; filing, editing, viewing and cancelling may overlap one another |
| `KeptApart` | `FilingApart`, `DecisionsApart`, `OneYearLong` |
| `FlowApart` | `DecisionsApart`, `EditHr`, `TypesKept`, `OneYearLong` |
| `TypesKept` | edit forms send no type: a request moved to another type weighs on another balance row, which the flow has no step for |
| `OneYearLong` | all days are of one leave year; at New Year requests filed for the next year come to weigh on that year's row, against which nobody planned them (`next_year_free`) |
| `SameUtcDay` | leave by the clock starts late enough for its UTC day to be its own day |
| `ShortClock` | leave by the clock lasts half a day at most: it holds one half, so a longer one can be charged above the rest of its day |
| `OneDayByClock` | `SameUtcDay`, and leave by the clock begins and ends on one day |
| `NoGap` | the days of the calendar follow one another |
| `Undisturbed` | a login, a refresh or a change of the password overlaps no other operation on its account, and no position's cascade, which works on accounts it does not name, is called |
| `LoginsAlone` | a login overlaps no other operation on its account |
| `AdminsApart` | of the operations that suspend, delete or change a role one at a time is past its guards |
| `HeadsApart`, `RoleSentOnMoves` | of the handlers that write positions one at a time is past its check; a position is moved with its role sent along, as the check for another head is made only then |
| `RolesApart` | a move of an employee or a change of a position overlaps no other operation that decides a role |
| `Apart` | no two handlers hold one balance row |
| `AnAdminAtStart`, `OneHeadAtStart`, `RolesAtStart`, `HousedAtStart` | the first accounts and positions are as the property wants them; `employee.departmentId` cannot be null |

### The arguments

*Types.* `TypeOK` alone is not inductive: that `CreatePlan` stores a row needs that the
handler has a form and a type, which only its call action ensured. `TypeInv` adds
`Ready`, what a handler in each phase has already made sure of. The accounts and the
balances have a `Ready` of their own.

*Own leave.* The self check is made when the handler reads the request and the row is
written several awaits later. `DecisionInv` carries the check in the task (`JobOK`:
the caller is not the owner of the row that was read) and says the row still has the
owner that was read (`Known`), which holds since no handler changes the owner of a
filed request.

*Audit trail.* A final decision looks at the request as the handler read it, while
other handlers move it. `AuditInv` adds to the property that a request waiting for a
supervisor is not a head's (so the supervisor has the final word on it unless it is
special), and per handler `Remembered`: what it read of the type still holds, and the
log it will append to already starts with HR. `RowsKept` and `LogsKept` are the two
facts every step contributes: the owner of a filed request never changes, nor does its
type without a mark in `sent`, marks stay, and logs only grow. So a row that is untouched
now was so when the handler read it; without the marks the theorem is false.

*Handlers kept apart.* The code checks on one read and writes on a later one, so
everything rests on what is still so in between. `BaseInv` gathers it: `Apart` (no two
handlers are on one employee's leave when one is exclusive), `SaneInv` (rows and tasks
are such as the handlers leave them; a transaction in flight holds its row's lock) and
`FreshInv`: what an exclusive handler has read (the row, what its plan rests on, the
balance) is so now. `FreshInv` is proved once, over the shapes of all steps, and each
of the following adds what its own property needs:

- `LockInv`: a cancellation being filed is of a granted leave. The three action
  properties are then read off each step.
- `HoursInv`: the draft of a create or edit past its plan has the hours of its days. The
  second plan of a create replaces days and not hours; that they still agree is where
  `"create" \in Exclusive` is used.
- `BookingInv`: whatever a create inserts was planned under the lock, an edit or an HR
  decision writes what it read, and everything else keeps its slots or gives them up.
  A create needs no exclusion for this, because of the second plan.
- `LedgerInv`: `Undecided` (what an edit or a cancellation works on has not been decided
  since, unless by a form that sent its status), and, of the employees with no such
  request, that each row is its total less the sum of what weighs on it. A step moves one
  request on or off one balance row, and the row by as much. Of all employees it says
  that no row has more than its total (`Capped`), as refunds are clipped there.
- `PaidInv` and `ReservedInv`: a create or edit adds one request to a sum that its check
  compared with the limit; a decision that revives or charges a request moves it between
  sums. `ReservedInv` rests on `LedgerInv` and `LockInv`.
- `FlowInv`: requests are on balance rows that exist (`AccountsKnown`). Each step moves
  at most one request, in one of the ways of `FlowMoves`, and the ledger says what its
  balance row does: together a step of `LeaveFlow` or a stutter. An edit that sends a
  status is a step of `Override`. Where a status was sent the ledger says nothing; then a
  refund is the flow's `GivenBack`, which is clipped as the code's is (`RefundGiven`).

*Sums.* `Ledger`, `PaidWithinCap`, `Reserved` and two of the calendar's properties fold
over sets of any finite size. `SumProofs` shows that the fold has a value and may be
taken apart at any element (`SumAt`). It is induction over the subsets of one finite
set: if some subset were bad, a minimal one would be (`SubsetInduction`, from the
well-foundedness of the strict subset ordering), which needs no operator as a parameter.

*Calendar.* The induction step is that a fresh plan claims nothing that is taken
(`PlanClaimsFree`) and that an accepted leave has day rows (`AcceptedHasDays`), since a
leave without them would fall back to its form; without `SameUtcDay` a plan can be empty
although hours count. `ClockSlotsHeld` compares the code's noon split with the UTC hours
of the form one by one, for any offset. `PlanIsExact` needs no state: the day-by-day cases
of `Desired` are one interval of half-days (`Stretch`), for any calendar and anything
taken. `DayInv` adds to `NoHalfTwice` what an accepted leave costs on each day it holds,
so that the hours of a day are a sum of at most two halves.

*Reports.* Every standing leave is `Sound`: its rows are the slots it holds, one row a
day, between its first and its last day, and its hours are those of its rows or its
clock. Each report is then a statement about sound leaves alone. For the dashboards the
days of a leave are compared with the server's midnights as instants, up to a whole day
apart either way, which is why `CountsAgree` says what may differ.

*Captchas.* `CaptchaInv` adds to the property that the captcha of a login past the check
is marked as used; then the conditional update that claims one cannot claim another
login's, and the purge takes none a login shows.

*Sessions.* `SessionInv` joins `StoredSessionIsCurrent` with what makes it and the others
inductive: such handlers are alone on their accounts
(`Alone`), what they read is still so (`Current`), tokens are of this version and role or
of an older version (`TokensOld`), and a spent link is of an older version (`LinksOld`).
The twenty-odd kinds of steps are dealt with once, through the shape `Orderly`: each
account stays, is born signed out, is deleted, keeps its session, or goes to the next
version with no handler of a session left on it; whatever is handed out is of the row as
written; each handler ends, goes on with what it has read, or begins where it may. Every
step is orderly (`NextOrderly`), and an orderly step preserves `SessionInv`
(`OrderlyStep`).

*Admins.* `AdminInv` adds to `LastAdmin` that the handlers are kept apart (`OneAtATime`; a
suspension or demotion counts from the read of its target on) and, per handler, `Sound`:
the account HR looked at is still no Admin's and the role it will write is not Admin, and
whoever is about to suspend or demote still leaves another active Admin. Most steps take
no Admin away and make none (`Keeps`), which keeps all of it. The two that may
(`SuspendWrite`, `RoleWrite`) are made by the one handler past its guards, so that nobody
else rests on what they change (`WriterAlone`).

*Locks.* `Counted` says that wrong passwords since the last right one are no more than
the attempts in the row, and that a row with too many is locked; it is inductive because
the attempts and the lock a login has read stay so until it compares the password
(`LoginFresh`), the login being alone (`LoginAlone`). Every step that is no login's is
`Calm`: it leaves attempts and lock alone, deletes the account, or makes it new.

*Heads of departments.* `HeadInv` adds that no handler past its check would make a
second head (`Vacant`). A creation or change of a position is the only thing that could
spoil it, and there is one at a time.

*Roles.* `RoleInv` adds that positions in use exist (`Placed`), that a move or a change
of a position is alone among what decides roles (`Beside`), and what each handler has
looked at (`Known`): the role a move or hiring will write is the one its position
implies, and a cascade's list of holders has everybody whose role it must change.

*Reminders.* `WatchOK`: whoever is still watched may decide the request at the stage the
job read it in, that request is in what the job read, and every query already made for
that stage has found them. A query finds exactly those who may decide at its moment, and
whoever may not is no longer watched. `Housed` (everybody is in a department) is used
for heads, who are matched by department.

*Balances.* `IInv` says that what a handler has read of the rows it still holds is so and
that no two handlers hold one row. From there each step of a handler is shown to be, for
the row it writes, the ledger's operation on what the row is, and to leave the other rows
alone (`Goes`); `RefineStep` makes that a step or a stutter of `LedgerSpec`, and
`Balanced` comes from the ledger. Nothing in the code keeps handlers apart: the theorem
says the overlap is the only reason the balances go wrong.

Only model-checked: `HandlersEnd`, which is liveness under fairness and out of the
prover's reach, and the refuted statements of the finding runs. Every other property of a
passing run is stated by a theorem of the table.

## 6. Not modelled

- In the workflow's handlers: tenure rules and maternity tiers of a create; edits with
  dates but without a leave mode; `startFormat` and `endFormat` in a form without dates,
  which are written to columns that the planner reads only of rows without stored days;
  the `isViewedByHr` and `hrReviewStartedAt` flags; the 750-day guard; legacy status
  spellings (rows migrated long ago; of a sent status all unknown strings are `OTHER`).
  The branch of the CEO's handler for other statuses than `PENDING_EXECUTIVE` cannot be
  reached from the workflow.
- Notifications. They are sent after the commit and change nothing here. Most handlers
  swallow their failure; HR's decision on a cancellation does not
  (`hr-leave-verification.service.ts:334-364` has no `try` around them), so its caller
  may get an error for a decision that stands.
- Midnight passes only while no handler runs: a handler takes milliseconds, and the
  dates it compares are read once.
- On the accounts: passwords, hashing and cookies; the expiry of tokens and links; user
  names, e-mail addresses and the other fields of an employee, whose uniqueness the
  database keeps; the lists and statistics of the Admin area; which HR user calls.
- On the balances: employees other than the one; the year of the handlers is fixed.
- Of the organisation: departments and holidays (plain CRUD), the deletion of a position
  (refused while anybody holds it).
- Of the reads: everything but the queries `LeaveReport` names. They change no state.
- Attachments (rows beside a request, replaced in one transaction; no handler of the
  workflow looks at them), announcements, the export, the audit log, the in-app
  notifications and the bootstrap.

## 7. Plan

Done: the planner, the store and the three services, their composition and the abstract
flow; sessions, the Admin area and HR's staff administration over one store; balances
and the abstract ledger; reminders; reports. Proved: every safety and action property of
the passing runs and both refinements, under the conditions of section 5.

Left, in this order:

1. What the code keeps even when edits or decisions overlap: bounds on the charges that
   are lost and on the half-days given twice, in place of the exclusions.
2. Weaker conditions: `RolesApart` for handlers on different accounts and positions,
   `Reserved` and `FollowsFlow` across a New Year that no filed leave reaches beyond,
   `Undisturbed` with the cascade of a position.
3. Hourly forms and maternity tiers in the workflow's runs.
4. The deletion of departments and positions, and attachments.
