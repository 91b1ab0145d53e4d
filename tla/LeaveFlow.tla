----------------------------- MODULE LeaveFlow -----------------------------
(***************************************************************************)
(* What the leave workflow promises, whatever handlers implement it (the   *)
(* flow of employee-mutation.service.ts:434-436 and the cancellation rules *)
(* of the tests): a request goes through its stages in order, the quota is *)
(* charged in the step that grants it and given back in the step that      *)
(* confirms its cancellation, and nothing else moves the quota.  The one   *)
(* thing that goes around the stages is a status an edit form sends        *)
(* (employee.dto.ts:155-158), which Override describes.                    *)
(***************************************************************************)
EXTENDS Integers

CONSTANTS Requests, Quota, None

Accounts == DOMAIN Quota

VARIABLES
    stage,  \* where each request stands
    claim,  \* the account each request weighs on, and its hours
    forced, \* the requests a form has put into a stage of its own choice
    left    \* the hours left on each account

flow == <<stage, claim, forced, left>>

Stages == {"unfiled", "hr", "supervisor", "executive", "granted", "withdrawing",
           "withdrawn", "refused", "other"}

Init ==
    /\ stage = [r \in Requests |-> "unfiled"]
    /\ claim = [r \in Requests |-> [account |-> None, hours |-> 0]]
    /\ forced = {}
    /\ left = Quota

\* Request r moves to a stage; claims and quota stay.
Moves(r, from, to) ==
    /\ stage[r] \in from
    /\ stage' = [stage EXCEPT ![r] = to]
    /\ UNCHANGED <<claim, forced>>

\* Only the claim of r changes.
Claims(r) ==
    /\ claim' = [claim EXCEPT ![r] = claim'[r]]
    /\ claim'[r].account \in Accounts /\ claim'[r].hours > 0
    /\ UNCHANGED left

File(r) ==
    /\ stage[r] = "unfiled"
    /\ stage' = [stage EXCEPT ![r] = "hr"]
    /\ Claims(r)
    /\ UNCHANGED forced

Revise(r) ==
    /\ stage[r] = "hr"
    /\ Claims(r)
    /\ UNCHANGED <<stage, forced>>

\* A form names the stage itself: any, but only while the request is with HR.
Override(r) ==
    /\ stage[r] = "hr"
    /\ stage' \in {[stage EXCEPT ![r] = to] : to \in Stages \ {"unfiled"}}
    /\ Claims(r)
    /\ forced' = forced \cup {r}

Verify(r) ==
    /\ Moves(r, {"hr"}, "supervisor") \/ Moves(r, {"hr"}, "executive")
    /\ UNCHANGED left

Forward(r) == Moves(r, {"supervisor"}, "executive") /\ UNCHANGED left

Refuse(r) == Moves(r, {"hr", "supervisor", "executive"}, "refused") /\ UNCHANGED left

\* Charged in full, and only if the account covers it.
Grant(r) ==
    /\ Moves(r, {"supervisor", "executive"}, "granted")
    /\ claim[r].hours <= left[claim[r].account]
    /\ left' = [left EXCEPT ![claim[r].account] = @ - claim[r].hours]

AskBack(r) == Moves(r, {"granted"}, "withdrawing") /\ UNCHANGED left

Keep(r) == Moves(r, {"withdrawing"}, "granted") /\ UNCHANGED left

\* Given back in full, unless some request of the employee was forced: then the
\* account may lack a charge, and only what is missing from it is given back.
GivenBack(r) ==
    IF \E s \in forced : claim[s].account[1] = claim[r].account[1]
    THEN 0 .. claim[r].hours ELSE {claim[r].hours}

Withdraw(r) ==
    /\ Moves(r, {"withdrawing"}, "withdrawn")
    /\ \E hours \in GivenBack(r) : left' = [left EXCEPT ![claim[r].account] = @ + hours]

Next ==
    \E r \in Requests :
        \/ File(r) \/ Revise(r) \/ Override(r) \/ Verify(r) \/ Forward(r) \/ Refuse(r)
        \/ Grant(r) \/ AskBack(r) \/ Keep(r) \/ Withdraw(r)

Spec == Init /\ [][Next]_flow
=============================================================================
