--------------------------- MODULE MCLeaveSystem ---------------------------
(***************************************************************************)
(* Small instances of LeaveSystem: a department with an employee, her      *)
(* head, two HR users and the CEO, and a few forms over two or three days. *)
(***************************************************************************)
EXTENDS LeaveSystem, TLC

CONSTANTS emp, head, hr1, hr2, boss, annual, special

\* Forms: a day, a morning, two days in a row.
OneDay(day) == [first |-> day, last |-> day, startFormat |-> "full",
                endFormat |-> "full", from |-> 0, to |-> 0]
Morning(day) == [OneDay(day) EXCEPT !.startFormat = "morning", !.endFormat = "morning"]
TwoDays(day) == [OneDay(day) EXCEPT !.last = day + 1]

MCRoleOf == [u \in Users |-> CASE u \in {hr1, hr2} -> "HR" [] u = head -> "Manager"
                               [] u = boss -> "CEO" [] OTHER -> "Employee"]
MCDeptOf == [u \in Users |-> IF u \in {emp, head} THEN "dept" ELSE "office"]
OneDept == [u \in Users |-> "office"]
NoNotice == [t \in LeaveTypes |-> 0]
AllPaid == [t \in LeaveTypes |-> None]
CapOneDay == [t \in LeaveTypes |-> 8]

OneYear == [d \in Days |-> 2026]
NewYear == [d \in Days |-> IF d < 3 THEN 2026 ELSE 2027]   \* day 3 is New Year's Day

EmpQuota(hours) == <<emp, annual, 2026>> :> hours
HalfDay == EmpQuota(4)
TwoDayQuota == EmpQuota(16)
EachType == (<<emp, annual, 2026>> :> 12) @@ (<<emp, special, 2026>> :> 16)
OfficeQuota == [a \in {<<emp, annual, 2026>>, <<emp, special, 2026>>,
                        <<hr1, annual, 2026>>} |-> 8]

OneForm == {OneDay(2)}
DayOrMorning == {OneDay(2), Morning(2)}
Mornings == {Morning(1), Morning(2)}
TwoForms == {OneDay(2), OneDay(3)}
Spread == {TwoDays(2), Morning(3)}
NewYearForm == {OneDay(3)}

\* What edit forms carry beside their dates: nothing; a status; a status
\* and hours, of which a request under review takes the hours alone.
StatusSent(status) == [NoExtra EXCEPT !.status = status]
DatesOnly == {NoExtra}
MayGrant == {NoExtra, StatusSent("APPROVED")}
MayCancel == {NoExtra, StatusSent("CANCELLED"), StatusSent("REVIEWING_HR")}
MayWithdraw == {NoExtra, [StatusSent("PENDING_CANCELLATION") EXCEPT !.total = 12]}

\* Nothing tells one worker from another.
WorkerSymmetry == Permutations(Workers)
=============================================================================
