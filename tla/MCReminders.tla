----------------------------- MODULE MCReminders -----------------------------
(***************************************************************************)
(* Small instances of Reminders: an Admin, an HR user who can become the   *)
(* department's leader, a manager, and an employee with a request at HR;   *)
(* the manager's own request waits for the CEO.                             *)
(***************************************************************************)
EXTENDS Reminders, TLC

CONSTANTS adm, hr, head, emp1, p1, p3, d1, d2, r1, r2

MCRoleAtStart == adm :> "Admin" @@ hr :> "HR" @@ head :> "Manager" @@ emp1 :> "Employee"

MCPostAtStart ==
    [p \in Positions |-> [dept |-> d1, role |-> None, exists |-> TRUE]]

MCWorksAs == adm :> p1 @@ hr :> p1 @@ head :> p3 @@ emp1 :> p1

\* A move to the leader's position, a move to another department.
MCEmployeeForms == {[post |-> p3, role |-> None, dept |-> None],
                    [post |-> None, role |-> None, dept |-> d2]}

\* A position goes to another department.
MCPositionForms == {[dept |-> d2, role |-> None]}

MCOwnerOf == r1 :> emp1 @@ r2 :> head

MCStageAtStart == r1 :> "PENDING_VERIFY" @@ r2 :> "PENDING_EXECUTIVE"
=============================================================================
