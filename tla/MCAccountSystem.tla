-------------------------- MODULE MCAccountSystem --------------------------
(***************************************************************************)
(* Small instances of AccountSystem.                                       *)
(***************************************************************************)
EXTENDS AccountSystem, TLC

CONSTANTS adm, adm2, emp1, emp2, p1, p2, p3, d1, d2

Symmetry == Permutations(Workers)

\* The two Admins, too, are alike.
StaffSymmetry == Permutations(Workers) \cup Permutations({adm, adm2})

NoForms == {}

MCRoleAtStart == [u \in Users |-> CASE u \in {adm, adm2} -> "Admin"
                                    [] u = emp1 -> "Employee" [] OTHER -> None]

\* A head's position, a plain one, and one still to be created.
MCPostAtStart ==
    [p \in Positions |->
        CASE p = p1 -> [dept |-> d1, role |-> "Employee", exists |-> TRUE]
          [] p = p2 -> [dept |-> d1, role |-> "Manager", exists |-> TRUE]
          [] OTHER -> [dept |-> None, role |-> None, exists |-> FALSE]]

\* Moves to either position, and a role typed in.
Form(p, role, dept) == [post |-> p, role |-> role, dept |-> dept]
StaffForms == {Form(p1, None, d1), Form(p3, None, d1), Form(None, "Manager", None)}

\* A head's position; one of HR's without a role of its own.
PostForms == {[dept |-> d1, role |-> "Manager"], [dept |-> d2, role |-> "null"]}

AllInP1 == [u \in Users |-> p1]
=============================================================================
