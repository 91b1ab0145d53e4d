------------------------------ MODULE Reminders ------------------------------
(***************************************************************************)
(* The daily reminder (sendPendingReminders of                             *)
(* src/modules/notification/notification.service.ts) beside everything     *)
(* that changes who may decide a request: decisions move it on, the Admin  *)
(* area and HR change roles, positions and departments.  The job reads the *)
(* requests, then the HR users and the CEOs, then the department heads,    *)
(* each in a query of its own, and writes to whom it found.                *)
(***************************************************************************)
EXTENDS AccountSystem

CONSTANTS
    Requests,       \* identities of leaverequest rows
    OwnerOf,        \* who filed each request
    StageAtStart    \* where each request waits at the start

Stages == {"PENDING_VERIFY", "PENDING_CANCELLATION", "PENDING_SUPERVISOR",
           "PENDING_EXECUTIVE", "decided"}

ASSUME ReminderAssumption ==
    /\ OwnerOf \in [Requests -> Users]
    /\ StageAtStart \in [Requests -> Stages]

VARIABLES
    stage,  \* where each request waits
    mail,   \* the reminder job
    watch   \* who could decide what, where it waits, ever since it began

mailVars == <<stage, mail, watch>>
reminderVars == <<accountVars, mailVars>>

Item == [r : Requests, stage : Stages \ {"decided"}, dept : Depts \cup {None}]

Mail == [phase : {"idle", "users", "heads", "send", "sent"}, pending : SUBSET Item,
         hr : (SUBSET Users) \cup {None}, ceo : (SUBSET Users) \cup {None},
         heads : SUBSET (Users \X (Depts \cup {None})), sent : SUBSET (Users \X Requests)]

NoMail == [phase |-> "idle", pending |-> {}, hr |-> None, ceo |-> None,
           heads |-> {}, sent |-> {}]

-----------------------------------------------------------------------------
(* Who decides. *)

Active(u) == Live(u) /\ user[u].active

\* Variant: only managers are heads.
IsHead_Manager(u) == user[u].role = "Manager"

\* isDepartmentApprover
IsHead(u) ==
    \/ user[u].role = "Manager"
    \/ user[u].role = "HR" /\ emp[u].post \in LeaderPosts

\* ManagerService.getEmployeeByUserId, behind the route's roles.
MayHead(u) ==
    /\ user[u].role \in {"Manager", "HR"}
    /\ user[u].role = "HR" => emp[u].post \in LeaderPosts

\* The rules of the handlers that decide.
MayDecide(u, r) ==
    /\ Active(u) /\ u # OwnerOf[r] /\ Live(OwnerOf[r])
    /\ CASE stage[r] \in {"PENDING_VERIFY", "PENDING_CANCELLATION"} -> user[u].role = "HR"
         [] stage[r] = "PENDING_SUPERVISOR" ->
               MayHead(u) /\ emp[u].dept = emp[OwnerOf[r]].dept
         [] stage[r] = "PENDING_EXECUTIVE" -> user[u].role = "CEO"
         [] OTHER -> FALSE

\* Who could decide what now, at which stage, in which department.
Deciders ==
    {w \in Users \X Requests \X Stages \X (Depts \cup {None}) :
        /\ MayDecide(w[1], w[2])
        /\ w[3] = stage[w[2]] /\ w[4] = emp[OwnerOf[w[2]]].dept}

\* A decision moves the request on, or ends it.
NextStages(s) ==
    CASE s = "PENDING_VERIFY" -> {"PENDING_SUPERVISOR", "PENDING_EXECUTIVE", "decided"}
      [] s = "PENDING_SUPERVISOR" -> {"PENDING_EXECUTIVE", "decided"}
      [] OTHER -> {"decided"}

Decide(u, r) ==
    /\ MayDecide(u, r)
    /\ \E s \in NextStages(stage[r]) : stage' = [stage EXCEPT ![r] = s]
    /\ UNCHANGED <<accountVars, mail>>

-----------------------------------------------------------------------------
(* sendPendingReminders *)

\* The requests, with the department of each owner as it is now.
Waiting ==
    {[r |-> r, stage |-> stage[r], dept |-> emp[OwnerOf[r]].dept] :
        r \in {q \in Requests : stage[q] # "decided" /\ Live(OwnerOf[q])}}

ReadPending ==
    /\ mail.phase = "idle" /\ Waiting # {}
    /\ mail' = [NoMail EXCEPT !.phase = "users", !.pending = Waiting]
    /\ UNCHANGED <<accountVars, stage>>

OfRole(role) == {u \in Users : Active(u) /\ user[u].role = role}

\* Promise.all: the two queries run in either order.
ReadHr ==
    /\ mail.phase = "users" /\ mail.hr = None
    /\ mail' = [mail EXCEPT !.hr = OfRole("HR"),
                            !.phase = IF mail.ceo = None THEN @ ELSE "heads"]
    /\ UNCHANGED <<accountVars, stage>>

ReadCeo ==
    /\ mail.phase = "users" /\ mail.ceo = None
    /\ mail' = [mail EXCEPT !.ceo = OfRole("CEO"),
                            !.phase = IF mail.hr = None THEN @ ELSE "heads"]
    /\ UNCHANGED <<accountVars, stage>>

HeadDepts ==
    {item.dept : item \in {i \in mail.pending : i.stage = "PENDING_SUPERVISOR"}} \ {None}

\* The heads of the departments that were asked for, with their department.
ReadHeads ==
    /\ mail.phase = "heads"
    /\ mail' = [mail EXCEPT !.phase = "send",
            !.heads = {<<u, emp[u].dept>> :
                        u \in {v \in Users : Active(v) /\ emp[v].dept \in HeadDepts /\ IsHead(v)}}]
    /\ UNCHANGED <<accountVars, stage>>

Approvers(item) ==
    CASE item.stage = "PENDING_SUPERVISOR" -> {u \in Users : <<u, item.dept>> \in mail.heads}
      [] item.stage = "PENDING_EXECUTIVE" -> mail.ceo
      [] OTHER -> mail.hr

\* One mail per approver, never about their own request.
Send ==
    /\ mail.phase = "send"
    /\ mail' = [mail EXCEPT !.phase = "sent",
            !.sent = {<<p[1], p[2].r>> : p \in {q \in Users \X mail.pending :
                        q[1] \in Approvers(q[2]) /\ q[1] # OwnerOf[q[2].r]}}]
    /\ UNCHANGED <<accountVars, stage>>

\* A query or the mail server fails, or the server restarts: the run ends, and
\* the next one begins anew.
MailFail ==
    /\ mail.phase \in {"users", "heads", "send"}
    /\ mail' = NoMail
    /\ UNCHANGED <<accountVars, stage>>

\* The next day.
NextRun ==
    /\ mail.phase = "sent"
    /\ mail' = NoMail
    /\ UNCHANGED <<accountVars, stage>>

-----------------------------------------------------------------------------
ReminderInit ==
    /\ Init
    /\ stage = StageAtStart
    /\ mail = NoMail
    /\ watch = {}

MailStep == ReadPending \/ ReadHr \/ ReadCeo \/ ReadHeads \/ Send \/ MailFail \/ NextRun

Watching ==
    watch' = IF mail'.phase = "idle" THEN {}
             ELSE IF mail.phase = "idle" THEN Deciders'
             ELSE IF mail.phase = "sent" THEN watch ELSE watch \cap Deciders'

ReminderNext ==
    /\ \/ MailStep
       \/ \E u \in Users, r \in Requests : Decide(u, r)
       \/ Next /\ UNCHANGED <<stage, mail>>
    /\ Watching

ReminderSpec == ReminderInit /\ [][ReminderNext]_reminderVars

-----------------------------------------------------------------------------
\* Whoever could decide a waiting request all the time the job took, where it
\* waited at its start, gets the reminder, whatever roles, positions and stages
\* change between its queries: no order of reads loses a standing approver
\* ("sends each approver one summary e-mail").
RemindsStandingApprovers ==
    mail.phase = "sent" => \A w \in watch : <<w[1], w[2]>> \in mail.sent
=============================================================================
