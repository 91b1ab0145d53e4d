----------------------------- MODULE BalanceAdmin -----------------------------
(***************************************************************************)
(* HR's work on the leave balances of one employee                         *)
(* (src/modules/hr/services/hr-employee.service.ts), beside the charges of *)
(* the approvers, HR's refunds and the leave types.  A handler reads rows, *)
(* and writes them back by id, one statement each and without a            *)
(* transaction around them: "seen" holds the rows it has read and has      *)
(* still to write or to compute with.                                      *)
(***************************************************************************)
EXTENDS LeaveLedger

CONSTANTS
    Workers,    \* handlers that can be in flight at once
    Apart       \* whether no two handlers hold the same row at a time

ASSUME ApartAssumption == Apart \in BOOLEAN

VARIABLES
    task    \* the handler each worker runs

balanceVars == <<bal, type, task>>

Seen(scope) == [a \in scope |-> bal[a]]

Nothing == [a \in {} |-> None]

Idle == [op |-> "idle", seen |-> Nothing, types |-> [k \in {} |-> None],
         hours |-> 0, total |-> None, remaining |-> None]

Busy(w) == task[w].op # "idle"

Finish(w) == task' = [task EXCEPT ![w] = Idle]

Holds(w, a) == a \in DOMAIN task[w].seen

\* The handler may read these rows now.
MayRead(w, scope) ==
    /\ ~Busy(w)
    /\ Apart => \A v \in Workers, a \in scope : ~Holds(v, a)

Start(w, op, scope) ==
    /\ MayRead(w, scope)
    /\ task' = [task EXCEPT ![w] = [Idle EXCEPT !.op = op, !.seen = Seen(scope)]]
    /\ UNCHANGED ledgerVars

\* The row is written; the handler ends with the last one.
Written(w, a, last) ==
    task' = [task EXCEPT ![w] =
        IF last THEN Idle
        ELSE [@ EXCEPT !.seen =
                [b \in DOMAIN task[w].seen \ {a} |-> task[w].seen[b]]]]

-----------------------------------------------------------------------------
(* initializeLeaveBalances *)

\* Variant: last year's rows are not read.
InitialiseScope_ThisYear == Types \X {1}

\* This year's rows, and those that carry over.
InitialiseScope == (Types \X {1}) \cup (Vacation \X {0})

InitialiseCall(w) == Start(w, "read", InitialiseScope)

\* Then the leave types, in a statement of their own.
InitialiseTypes(w) ==
    LET t == task[w]
        known == {k \in Types : type[k] # None}
        scope == {a \in DOMAIN t.seen : a[2] = 0 \/ a[1] \in known}
    IN
    /\ t.op = "read"
    /\ task' = [task EXCEPT ![w] =
            IF known = {} THEN Idle
            ELSE [@ EXCEPT !.op = "initialise", !.seen = [a \in scope |-> t.seen[a]],
                           !.types = [k \in known |-> type[k]]]]
    /\ UNCHANGED ledgerVars

\* The types whose row is still to come.
Todo(t) == {k \in Types : <<k, 1>> \in DOMAIN t.seen}

EntitlementSeen(t, k) ==
    Entitlement(k, t.types[k], IF k \in Vacation THEN t.seen[<<k, 0>>] ELSE None)

\* Variant: last year's row will do.
Existing_AnyYear(t, k) ==
    IF t.seen[<<k, 1>>] = None /\ k \in Vacation THEN t.seen[<<k, 0>>]
    ELSE t.seen[<<k, 1>>]

Existing(t, k) == t.seen[<<k, 1>>]

\* A row that is there is written only when it is wrong.
Stale(row, total) == row.total # total \/ row.used < 0

\* One type: its row is created, written or left alone.  Creating a row that
\* is there by now, or writing one that is gone, is an error.
InitialiseWrite(w, k) ==
    LET t == task[w]
        a == <<k, 1>>
        total == EntitlementSeen(t, k)
    IN
    /\ t.op = "initialise" /\ k \in Todo(t)
    /\ IF Existing(t, k) = None
       THEN /\ ~Has(a) /\ type[k] # None
            /\ bal' = [bal EXCEPT ![a] = Fresh(total)]
       ELSE IF Stale(Existing(t, k), total)
       THEN /\ Has(a)
            /\ bal' = [bal EXCEPT ![a] = Resized(Existing(t, k), total)]
       ELSE bal' = bal
    /\ Written(w, a, Todo(t) = {k})
    /\ UNCHANGED type

-----------------------------------------------------------------------------
(* resetLeaveBalances *)

ResetCall(w) ==
    LET scope == {a \in Accounts : a[2] = 1 /\ Has(a)} IN
    /\ scope # {}
    /\ Start(w, "reset", scope)

\* Variant: the remaining days are the days that remained.
ResetRow_KeepsUsed(row, seen) == [row EXCEPT !.used = 0, !.remaining = seen.remaining]

\* usedDays and remainingDays are written, the total is the one read.
ResetRow(row, seen) == [row EXCEPT !.used = 0, !.remaining = seen.total]

ResetWrite(w, a) ==
    LET t == task[w] IN
    /\ t.op = "reset" /\ Holds(w, a)
    /\ Has(a)
    /\ bal' = [bal EXCEPT ![a] = ResetRow(@, t.seen[a])]
    /\ Written(w, a, DOMAIN t.seen = {a})
    /\ UNCHANGED type

-----------------------------------------------------------------------------
(* updateLeaveBalance *)

NewTotal(t, a) == IF t.total = None THEN t.seen[a].total ELSE t.total
NewRemaining(t, a) == IF t.remaining = None THEN t.seen[a].remaining ELSE t.remaining

InRange(remaining, total) == 0 <= remaining /\ remaining <= total

\* The row is read and the numbers are checked against it.
CorrectCall(w, a, total, remaining) ==
    LET t == [Idle EXCEPT !.op = "correct", !.seen = Seen({a}), !.total = total,
                          !.remaining = remaining]
    IN
    /\ Has(a) /\ MayRead(w, {a})
    /\ InRange(NewRemaining(t, a), NewTotal(t, a))
    /\ task' = [task EXCEPT ![w] = t]
    /\ UNCHANGED ledgerVars

CorrectWrite(w, a) ==
    LET t == task[w] IN
    /\ t.op = "correct" /\ Holds(w, a)
    /\ Has(a)
    /\ bal' = [bal EXCEPT ![a] = Corrected(NewTotal(t, a), NewRemaining(t, a))]
    /\ Finish(w)
    /\ UNCHANGED type

-----------------------------------------------------------------------------
(* A final approval charges a row, an approved cancellation gives back; both *)
(* read it in their transaction and write what they computed from it.       *)

ChargeCall(w, a, op, n) ==
    /\ Has(a) /\ MayRead(w, {a})
    /\ op = "charge" => n <= bal[a].remaining
    /\ task' = [task EXCEPT ![w] =
            [Idle EXCEPT !.op = op, !.seen = Seen({a}), !.hours = n]]
    /\ UNCHANGED ledgerVars

\* usedDays and remainingDays are written, the total stays.
ChargeWrite(w, a) ==
    LET t == task[w]
        row == IF t.op = "charge" THEN Charged(t.seen[a], t.hours)
               ELSE Refunded(t.seen[a], t.hours)
    IN
    /\ t.op \in {"charge", "refund"} /\ Holds(w, a)
    /\ Has(a)
    /\ bal' = [bal EXCEPT ![a] = [row EXCEPT !.total = bal[a].total]]
    /\ Finish(w)
    /\ UNCHANGED type

-----------------------------------------------------------------------------
(* The leave types, each a single statement. *)

\* No handler holds a row of the type, nor has read how long it is.
TypeFree(k) ==
    Apart => \A w \in Workers : /\ k \notin DOMAIN task[w].types
                                /\ \A y \in Years : ~Holds(w, <<k, y>>)

\* createLeaveType, updateLeaveType
TypeWrite(k, default) ==
    /\ TypeFree(k)
    /\ SetType(k, default)
    /\ UNCHANGED task

\* deleteLeaveType
TypeDelete(k) ==
    /\ type[k] # None /\ TypeFree(k)
    /\ DeleteType(k)
    /\ UNCHANGED task

-----------------------------------------------------------------------------
\* A handler dies; what it has written stays.
Fail(w) ==
    /\ Busy(w)
    /\ Finish(w)
    /\ UNCHANGED ledgerVars

Call(w) ==
    \/ InitialiseCall(w) \/ ResetCall(w)
    \/ \E a \in Accounts :
          \/ \E op \in {"charge", "refund"}, n \in Hours : ChargeCall(w, a, op, n)
          \/ \E total, remaining \in Totals \cup {None} : CorrectCall(w, a, total, remaining)

Step(w) ==
    \/ InitialiseTypes(w)
    \/ \E k \in Types : InitialiseWrite(w, k)
    \/ \E a \in Accounts : ResetWrite(w, a) \/ CorrectWrite(w, a) \/ ChargeWrite(w, a)

BalanceInit ==
    /\ LedgerInit
    /\ task = [w \in Workers |-> Idle]

BalanceNext ==
    \/ \E w \in Workers : Call(w) \/ Step(w) \/ Fail(w)
    \/ \E k \in Types : TypeDelete(k) \/ \E default \in Totals : TypeWrite(k, default)

BalanceSpec == BalanceInit /\ [][BalanceNext]_balanceVars

-----------------------------------------------------------------------------
\* Rows and handlers have the shape the schema and the code give them: a handler
\* that writes rows has read them, and an initialisation has last year's rows in
\* hand for the types that carry over.
BalanceTypeOK ==
    /\ bal \in [Accounts -> Balance \cup {None}]
    /\ type \in [Types -> Nat \cup {None}]
    /\ DOMAIN task = Workers
    /\ \A w \in Workers :
          /\ task[w].op \in {"idle", "read", "initialise", "reset", "correct", "charge", "refund"}
          /\ DOMAIN task[w].seen \subseteq Accounts
          /\ \A a \in DOMAIN task[w].seen : task[w].seen[a] \in Balance \cup {None}
          /\ task[w].op \in {"reset", "correct", "charge", "refund"} =>
                \A a \in DOMAIN task[w].seen : task[w].seen[a] # None
          /\ task[w].op = "initialise" => Vacation \X {0} \subseteq DOMAIN task[w].seen

\* An initialisation that goes on has a row behind it for every type it is done
\* with: no failure, deletion or second call of another leaves a gap that the
\* answer would call a success.
NoGaps ==
    \A w \in Workers : task[w].op = "initialise" =>
        \A k \in DOMAIN task[w].types \ Todo(task[w]) :
            type[k] = None \/ Has(<<k, 1>>)
=============================================================================
