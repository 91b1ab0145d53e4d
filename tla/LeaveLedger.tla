----------------------------- MODULE LeaveLedger -----------------------------
(***************************************************************************)
(* What the leave balances of one employee promise: rows that change one   *)
(* at a time, each by a whole operation.  BalanceAdmin implements it with  *)
(* handlers that read a row and write it back later.                       *)
(***************************************************************************)
EXTENDS Integers, FiniteSetsExt

CONSTANTS
    Types,        \* identities of leave type rows
    Vacation,     \* types whose name says annual leave: what is left carries over
    CarryCap,     \* the 12 days that a total may reach by carrying over
    Hours,        \* lengths of leave that are charged and given back
    Totals,       \* totals and default lengths that HR enters
    TypesAtStart, \* default length of each type at the start, None for no such type
    BalAtStart,   \* the rows at the start
    None

\* Bound: the year before, and this one.
Years == {0, 1}
Accounts == Types \X Years

Balance == [total : Int, used : Int, remaining : Int]

ASSUME LedgerAssumption ==
    /\ Vacation \subseteq Types
    /\ CarryCap \in Nat
    /\ Hours \subseteq Nat /\ Totals \subseteq Nat
    /\ TypesAtStart \in [Types -> Nat \cup {None}]
    /\ BalAtStart \in [Accounts -> Balance \cup {None}]
    /\ \A a \in Accounts : BalAtStart[a] # None =>
          /\ BalAtStart[a].used = BalAtStart[a].total - BalAtStart[a].remaining
          /\ BalAtStart[a].used >= 0
    /\ None \notin Int \cup Balance \cup Totals

VARIABLES
    bal,    \* the leavebalance rows of the employee
    type    \* the leave types: default length, or None

ledgerVars == <<bal, type>>

-----------------------------------------------------------------------------
(* Rows. *)

Fresh(total) == [total |-> total, used |-> 0, remaining |-> total]

\* The year's total: the default length, with what the year before left of
\* annual leave, up to the cap.
Entitlement(k, default, before) ==
    IF k \in Vacation /\ before # None
    THEN Min({CarryCap, before.remaining + default}) ELSE default

Resized(row, total) ==
    [total |-> total, used |-> Max({0, row.used}), remaining |-> total - Max({0, row.used})]

Charged(row, n) ==
    [row EXCEPT !.used = row.total - (row.remaining - n), !.remaining = row.remaining - n]

\* Variant: usedDays is left as it was.
Refunded_KeepsUsed(row, n) == [row EXCEPT !.remaining = Min({row.total, row.remaining + n})]

\* The hours go back, never above the row's total.
Refunded(row, n) ==
    LET remaining == Min({row.total, row.remaining + n})
    IN  [row EXCEPT !.used = Max({0, row.total - remaining}), !.remaining = remaining]

Corrected(total, remaining) ==
    [total |-> total, used |-> total - remaining, remaining |-> remaining]

-----------------------------------------------------------------------------
(* Whole operations on a row. *)

Due(k) == Entitlement(k, type[k], bal[<<k, 0>>])

Has(a) == bal[a] # None

Put(a, row) == bal' = [bal EXCEPT ![a] = row] /\ UNCHANGED type

Open(k) == ~Has(<<k, 1>>) /\ type[k] # None /\ Put(<<k, 1>>, Fresh(Due(k)))

Resize(k) ==
    Has(<<k, 1>>) /\ type[k] # None /\ Put(<<k, 1>>, Resized(bal[<<k, 1>>], Due(k)))

Clear(a) == Has(a) /\ Put(a, Fresh(bal[a].total))

Charge(a, n) == Has(a) /\ n <= bal[a].remaining /\ Put(a, Charged(bal[a], n))

Refund(a, n) == Has(a) /\ Put(a, Refunded(bal[a], n))

\* Either number may be left alone.
Correct(a, total, remaining) ==
    LET newTotal == IF total = None THEN bal[a].total ELSE total
        newRemaining == IF remaining = None THEN bal[a].remaining ELSE remaining
    IN
    /\ Has(a)
    /\ 0 <= newRemaining /\ newRemaining <= newTotal
    /\ Put(a, Corrected(newTotal, newRemaining))

\* A new type or another default length touches no balance row.
SetType(k, default) ==
    /\ type' = [type EXCEPT ![k] = default]
    /\ UNCHANGED bal

\* Its rows go with a type (onDelete: Cascade).
DeleteType(k) ==
    /\ type' = [type EXCEPT ![k] = None]
    /\ bal' = [a \in Accounts |-> IF a[1] = k THEN None ELSE bal[a]]

LedgerInit == bal = BalAtStart /\ type = TypesAtStart

LedgerNext ==
    \/ \E a \in Accounts :
          \/ Clear(a)
          \/ \E n \in Hours : Charge(a, n) \/ Refund(a, n)
          \/ \E total, remaining \in Totals \cup {None} : Correct(a, total, remaining)
    \/ \E k \in Types :
          \/ Open(k) \/ Resize(k) \/ DeleteType(k)
          \/ \E default \in Totals : SetType(k, default)

\* Rows change one at a time, each by a whole operation on what it is now.
LedgerSpec == LedgerInit /\ [][LedgerNext]_ledgerVars

-----------------------------------------------------------------------------
\* The days used and the days left always add up to the total, and no row has
\* used less than nothing, whatever HR and the approvers do to it.
Balanced ==
    \A a \in Accounts : Has(a) =>
        bal[a].used = bal[a].total - bal[a].remaining /\ bal[a].used >= 0
=============================================================================
