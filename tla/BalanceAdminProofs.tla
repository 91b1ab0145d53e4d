------------------------- MODULE BalanceAdminProofs -------------------------
(***************************************************************************)
(* What holds of the leave balances for every set of leave types, lengths, *)
(* totals and handlers: the rows of the ledger always add up, and HR's     *)
(* handlers, which read a row and write it later, implement the ledger as  *)
(* long as no two of them hold one row.                                    *)
(***************************************************************************)
EXTENDS BalanceAdmin, TLAPS

-----------------------------------------------------------------------------
(* The ledger. *)

\* A row that adds up.
Sound(row) == row.used = row.total - row.remaining /\ row.used >= 0

LedgerInv ==
    /\ bal \in [Accounts -> Balance \cup {None}]
    /\ type \in [Types -> Nat \cup {None}]
    /\ Balanced

LEMMA PairExtrema ==
    ASSUME NEW a \in Int, NEW b \in Int
    PROVE  /\ Min({a, b}) \in {a, b} /\ Min({a, b}) <= a /\ Min({a, b}) <= b
           /\ Max({a, b}) \in {a, b} /\ Max({a, b}) >= a /\ Max({a, b}) >= b
<1>1. \E x \in {a, b} : \A y \in {a, b} : x =< y
    BY DEF Min
<1>2. \E x \in {a, b} : \A y \in {a, b} : x >= y
    OBVIOUS
<1> QED BY <1>1, <1>2 DEF Min, Max

LEMMA NoneIsNoRow == \A row \in Balance : row # None
BY LedgerAssumption

\* The year's total is a number.
LEMMA EntitlementType ==
    ASSUME NEW k, NEW default \in Nat, NEW before \in Balance \cup {None}
    PROVE  Entitlement(k, default, before) \in Int
<1>1. CASE before = None
    BY <1>1 DEF Entitlement
<1>2. CASE before # None
    <2> DEFINE carried == before.remaining + default
    <2>1. carried \in Int /\ CarryCap \in Int
        BY <1>2, LedgerAssumption DEF Balance
    <2> HIDE DEF carried
    <2>2. Min({CarryCap, carried}) \in {CarryCap, carried}
        BY <2>1, PairExtrema
    <2> QED BY <2>1, <2>2 DEF Entitlement, carried
<1> QED BY <1>1, <1>2

\* Every computation on a row gives a row that adds up.
LEMMA FreshSound == ASSUME NEW total \in Int PROVE Fresh(total) \in Balance /\ Sound(Fresh(total))
BY DEF Fresh, Balance, Sound

LEMMA ResizedSound ==
    ASSUME NEW row \in Balance, NEW total \in Int
    PROVE  Resized(row, total) \in Balance /\ Sound(Resized(row, total))
<1> DEFINE used == Max({0, row.used})
<1>1. used \in Int /\ used >= 0
    BY PairExtrema DEF Balance
<1> HIDE DEF used
<1>2. [total |-> total, used |-> used, remaining |-> total - used] \in Balance
    BY <1>1 DEF Balance
<1> QED BY <1>1, <1>2 DEF Resized, Sound, used

LEMMA ChargedType ==
    ASSUME NEW row \in Balance, NEW n \in Nat PROVE Charged(row, n) \in Balance
<1> DEFINE remaining == row.remaining - n
           used == row.total - remaining
<1>1. remaining \in Int /\ used \in Int
    BY DEF Balance
<1>2. Charged(row, n) = [row EXCEPT !.used = used, !.remaining = remaining]
    BY DEF Charged
<1> HIDE DEF used, remaining
<1> QED BY <1>1, <1>2 DEF Balance

LEMMA ResetType ==
    ASSUME NEW row \in Balance, NEW seen \in Balance PROVE ResetRow(row, seen) \in Balance
<1> DEFINE first == [row EXCEPT !.used = 0]
           second == [first EXCEPT !.remaining = seen.total]
<1>1. seen.total \in Int /\ 0 \in Int
    BY DEF Balance
<1>2. first \in Balance
    BY <1>1 DEF Balance
<1> HIDE DEF first
<1>3. second \in Balance
    BY <1>1, <1>2 DEF Balance
<1>4. ResetRow(row, seen) = second
    BY DEF ResetRow, first
<1> QED BY <1>3, <1>4

LEMMA ChargedSound ==
    ASSUME NEW row \in Balance, Sound(row), NEW n \in Nat
    PROVE  Charged(row, n) \in Balance /\ Sound(Charged(row, n)) /\ Charged(row, n).total = row.total
<1> DEFINE remaining == row.remaining - n
           used == row.total - remaining
<1>1. row.total \in Int /\ row.used \in Int /\ row.remaining \in Int
    BY DEF Balance
<1>2. remaining \in Int /\ used \in Int /\ used >= 0 /\ used = row.total - remaining
    BY <1>1 DEF Sound
<1>3. Charged(row, n) = [row EXCEPT !.used = used, !.remaining = remaining]
    BY DEF Charged
<1> HIDE DEF used, remaining
<1>4. [row EXCEPT !.used = used, !.remaining = remaining] \in Balance
    BY <1>2 DEF Balance
<1> QED BY <1>1, <1>2, <1>3, <1>4 DEF Balance, Sound

LEMMA RefundedSound ==
    ASSUME NEW row \in Balance, NEW n \in Nat
    PROVE  Refunded(row, n) \in Balance /\ Sound(Refunded(row, n))
           /\ Refunded(row, n).total = row.total
<1> DEFINE back == row.remaining + n
           remaining == Min({row.total, back})
           used == row.total - remaining
<1>1. row.total \in Int /\ back \in Int
    BY DEF Balance
<1> HIDE DEF back
<1>2. remaining \in Int /\ remaining <= row.total
    BY <1>1, PairExtrema
<1> HIDE DEF remaining
<1>3. used \in Int /\ used >= 0
    BY <1>1, <1>2
<1> HIDE DEF used
<1>4. Max({0, used}) = used
    BY <1>3, PairExtrema
<1>5. Refunded(row, n) = [row EXCEPT !.used = used, !.remaining = remaining]
    BY <1>4 DEF Refunded, back, remaining, used
<1>6. [row EXCEPT !.used = used, !.remaining = remaining] \in Balance
    BY <1>2, <1>3 DEF Balance
<1> QED BY <1>1, <1>2, <1>3, <1>5, <1>6 DEF Balance, Sound, used

LEMMA CorrectedSound ==
    ASSUME NEW total \in Int, NEW remaining \in Int, remaining <= total
    PROVE  Corrected(total, remaining) \in Balance /\ Sound(Corrected(total, remaining))
BY DEF Corrected, Balance, Sound

\* A row that adds up may take the place of any other.
LEMMA PutKeeps ==
    ASSUME LedgerInv, NEW a \in Accounts, NEW row \in Balance, Sound(row), Put(a, row)
    PROVE  LedgerInv'
BY DEF LedgerInv, Put, Balanced, Has, Sound

LEMMA LedgerStep == LedgerInv /\ [LedgerNext]_ledgerVars => LedgerInv'
<1> SUFFICES ASSUME LedgerInv, [LedgerNext]_ledgerVars PROVE LedgerInv'
    OBVIOUS
<1>0. \A b \in Accounts : Has(b) => bal[b] \in Balance /\ Sound(bal[b])
    BY DEF LedgerInv, Has, Sound, Balanced
<1>1. ASSUME NEW k \in Types, type[k] # None PROVE Due(k) \in Int
    <2>1. <<k, 0>> \in Accounts
        BY DEF Accounts, Years
    <2> QED BY <1>1, <2>1, EntitlementType DEF LedgerInv, Due
<1>2. ASSUME NEW k \in Types PROVE <<k, 1>> \in Accounts
    BY DEF Accounts, Years
<1>3. ASSUME NEW a \in Accounts, Clear(a) PROVE LedgerInv'
    <2>1. bal[a].total \in Int
        BY <1>0, <1>3 DEF Clear, Balance
    <2> QED BY <1>3, <2>1, FreshSound, PutKeeps DEF Clear
<1>4. ASSUME NEW a \in Accounts, NEW n \in Hours, Charge(a, n) PROVE LedgerInv'
    BY <1>0, <1>4, LedgerAssumption, ChargedSound, PutKeeps DEF Charge
<1>5. ASSUME NEW a \in Accounts, NEW n \in Hours, Refund(a, n) PROVE LedgerInv'
    BY <1>0, <1>5, LedgerAssumption, RefundedSound, PutKeeps DEF Refund
<1>6. ASSUME NEW a \in Accounts, NEW total \in Totals \cup {None},
             NEW remaining \in Totals \cup {None}, Correct(a, total, remaining)
      PROVE  LedgerInv'
    <2> DEFINE newTotal == IF total = None THEN bal[a].total ELSE total
               newRemaining == IF remaining = None THEN bal[a].remaining ELSE remaining
    <2>1. Has(a) /\ newRemaining <= newTotal /\ Put(a, Corrected(newTotal, newRemaining))
        BY <1>6 DEF Correct
    <2>2. newTotal \in Int /\ newRemaining \in Int
        BY <1>0, <2>1, LedgerAssumption DEF Balance
    <2> HIDE DEF newTotal, newRemaining
    <2> QED BY <2>1, <2>2, CorrectedSound, PutKeeps
<1>7. ASSUME NEW k \in Types, Open(k) PROVE LedgerInv'
    BY <1>1, <1>2, <1>7, FreshSound, PutKeeps DEF Open
<1>8. ASSUME NEW k \in Types, Resize(k) PROVE LedgerInv'
    BY <1>0, <1>1, <1>2, <1>8, ResizedSound, PutKeeps DEF Resize
<1>9. ASSUME NEW k \in Types, DeleteType(k) PROVE LedgerInv'
    BY <1>9 DEF LedgerInv, DeleteType, Balanced, Has
<1>10. ASSUME NEW k \in Types, NEW default \in Totals, SetType(k, default) PROVE LedgerInv'
    BY <1>10, LedgerAssumption DEF LedgerInv, SetType, Balanced, Has
<1>11. CASE UNCHANGED ledgerVars
    BY <1>11 DEF ledgerVars, LedgerInv, Balanced, Has
<1> QED BY <1>3, <1>4, <1>5, <1>6, <1>7, <1>8, <1>9, <1>10, <1>11 DEF LedgerNext

\* The days used and left add up to the total in every row, whatever sequence of
\* openings, charges, refunds, resets and corrections made it.
THEOREM LedgerBalanced == LedgerSpec => []Balanced
<1>1. LedgerInit => LedgerInv
    BY LedgerAssumption DEF LedgerInit, LedgerInv, Balanced, Has
<1>2. LedgerInv => Balanced
    BY DEF LedgerInv
<1> QED BY <1>1, <1>2, LedgerStep, PTL DEF LedgerSpec

-----------------------------------------------------------------------------
(* The handlers: types. *)

Ops == {"idle", "read", "initialise", "reset", "correct", "charge", "refund"}

Rows == Balance \cup {None}
RowsRead == UNION {[scope -> Rows] : scope \in SUBSET Accounts}
TypesRead == UNION {[known -> Nat] : known \in SUBSET Types}

Handler == [op : Ops, seen : RowsRead, types : TypesRead, hours : Nat,
            total : Totals \cup {None}, remaining : Totals \cup {None}]

\* What a handler in flight has already made sure of.
Ready(t) ==
    /\ t.op = "read" => DOMAIN t.seen = InitialiseScope
    /\ t.op = "initialise" => /\ Todo(t) \subseteq DOMAIN t.types
                              /\ Vacation \X {0} \subseteq DOMAIN t.seen
    /\ t.op \in {"reset", "correct", "charge", "refund"} =>
          \A a \in DOMAIN t.seen : t.seen[a] # None
    /\ t.op = "correct" =>
          \A a \in DOMAIN t.seen : InRange(NewRemaining(t, a), NewTotal(t, a))
    /\ t.op \in {"charge", "refund"} => t.hours \in Hours
    /\ t.op = "charge" => \A a \in DOMAIN t.seen : t.hours <= t.seen[a].remaining

TypeInv ==
    /\ bal \in [Accounts -> Rows]
    /\ type \in [Types -> Nat \cup {None}]
    /\ task \in [Workers -> Handler]
    /\ \A w \in Workers : Ready(task[w])

LEMMA RowsReadIntro ==
    ASSUME NEW scope \in SUBSET Accounts, NEW f \in [scope -> Rows] PROVE f \in RowsRead
BY DEF RowsRead

LEMMA RowsReadElim ==
    ASSUME NEW f \in RowsRead PROVE DOMAIN f \subseteq Accounts /\ f \in [DOMAIN f -> Rows]
BY DEF RowsRead

LEMMA TypesReadIntro ==
    ASSUME NEW known \in SUBSET Types, NEW f \in [known -> Nat] PROVE f \in TypesRead
BY DEF TypesRead

LEMMA TypesReadElim ==
    ASSUME NEW f \in TypesRead PROVE DOMAIN f \subseteq Types /\ f \in [DOMAIN f -> Nat]
BY DEF TypesRead

LEMMA IdleReady == Idle \in Handler /\ Ready(Idle) /\ DOMAIN Idle.seen = {} /\ DOMAIN Idle.types = {}
<1>1. Nothing \in RowsRead /\ DOMAIN Nothing = {}
    <2> DEFINE nothing == [a \in {} |-> None]
    <2>1. nothing \in [{} -> Rows] /\ {} \in SUBSET Accounts /\ DOMAIN nothing = {}
        OBVIOUS
    <2> HIDE DEF nothing
    <2>2. nothing \in RowsRead
        BY <2>1, RowsReadIntro
    <2> QED BY <2>1, <2>2 DEF Nothing, nothing
<1> DEFINE none == [k \in {} |-> None]
<1>2. none \in TypesRead /\ DOMAIN none = {}
    <2>1. none \in [{} -> Nat] /\ {} \in SUBSET Types /\ DOMAIN none = {}
        OBVIOUS
    <2> HIDE DEF none
    <2> QED BY <2>1, TypesReadIntro
<1>3. Idle = [op |-> "idle", seen |-> Nothing, types |-> none,
              hours |-> 0, total |-> None, remaining |-> None]
    BY DEF Idle
<1> HIDE DEF none
<1> QED BY <1>1, <1>2, <1>3 DEF Handler, Ops, Ready

LEMMA SeenType ==
    ASSUME TypeInv, NEW scope \in SUBSET Accounts
    PROVE  Seen(scope) \in RowsRead /\ DOMAIN Seen(scope) = scope
           /\ \A a \in scope : Seen(scope)[a] = bal[a] /\ bal[a] \in Rows
<1>1. Seen(scope) \in [scope -> Rows]
    BY DEF Seen, TypeInv
<1> QED BY <1>1, RowsReadIntro DEF Seen, TypeInv

LEMMA ScopeType == InitialiseScope \subseteq Accounts
BY LedgerAssumption DEF InitialiseScope, Accounts, Years

\* A step of one handler that leaves it in order leaves all of them in order.
LEMMA TaskType ==
    ASSUME TypeInv, NEW w \in Workers, NEW t \in Handler, Ready(t),
           task' = [task EXCEPT ![w] = t], bal' \in [Accounts -> Rows], UNCHANGED type
    PROVE  TypeInv'
<1>1. task' \in [Workers -> Handler] /\ type' \in [Types -> Nat \cup {None}]
    BY DEF TypeInv
<1>2. ASSUME NEW v \in Workers PROVE Ready(task'[v])
    BY DEF TypeInv
<1> QED BY <1>1, <1>2 DEF TypeInv

-----------------------------------------------------------------------------
(* What one step of a handler does. *)

\* Worker w goes on as t.
Moved(w, t) ==
    /\ t \in Handler /\ Ready(t)
    /\ task' = [task EXCEPT ![w] = t]
    /\ UNCHANGED type

\* It keeps what it held or takes what nobody holds, and writes only rows it
\* held and now lets go of.  A row it is done with is there.
Advances(w, t) ==
    /\ bal' \in [Accounts -> Rows]
    /\ \A a \in DOMAIN t.seen :
          \/ a \in DOMAIN task[w].seen /\ t.seen[a] = task[w].seen[a]
          \/ t.seen[a] = bal[a] /\ (Apart => \A v \in Workers : ~Holds(v, a))
    /\ \A k \in DOMAIN t.types :
          \/ t.types[k] = type[k]
          \/ k \in DOMAIN task[w].types /\ t.types[k] = task[w].types[k]
    /\ \A a \in Accounts :
          /\ bal'[a] # bal[a] => a \in DOMAIN task[w].seen \ DOMAIN t.seen
          /\ bal[a] # None => bal'[a] # None
    /\ t.op = "initialise" => \A k \in DOMAIN t.types \ Todo(t) :
          \/ bal'[<<k, 1>>] # None
          \/ task[w].op = "initialise" /\ k \in DOMAIN task[w].types \ Todo(task[w])
          \/ Holds(w, <<k, 1>>) /\ task[w].seen[<<k, 1>>] # None

Goes(w) == \E t : Moved(w, t) /\ Advances(w, t)

\* A handler that reads takes rows that nobody holds.
LEMMA ReadStep ==
    ASSUME TypeInv, NEW w \in Workers, NEW t \in Handler, Ready(t), NEW scope \in SUBSET Accounts,
           t.seen = Seen(scope), t.op # "initialise", DOMAIN t.types = {}, MayRead(w, scope),
           task' = [task EXCEPT ![w] = t], UNCHANGED ledgerVars
    PROVE  Goes(w)
<1>1. Moved(w, t)
    BY DEF Moved, ledgerVars
<1>2. DOMAIN t.seen = scope /\ \A a \in scope : t.seen[a] = bal[a]
    BY SeenType
<1>3. Advances(w, t)
    BY <1>2 DEF Advances, MayRead, TypeInv, ledgerVars
<1> QED BY <1>1, <1>3 DEF Goes

\* A handler that ends, with or without a last write.
LEMMA EndStep ==
    ASSUME TypeInv, NEW w \in Workers, Finish(w), UNCHANGED type, bal' \in [Accounts -> Rows],
           \A a \in Accounts : /\ bal'[a] # bal[a] => Holds(w, a)
                               /\ bal[a] # None => bal'[a] # None
    PROVE  Goes(w)
<1>1. Moved(w, Idle)
    BY IdleReady DEF Moved, Finish
<1>2. Idle.op # "initialise"
    BY DEF Idle
<1>3. Advances(w, Idle)
    <2>1. \A a \in Accounts :
            /\ bal'[a] # bal[a] => a \in DOMAIN task[w].seen \ DOMAIN Idle.seen
            /\ bal[a] # None => bal'[a] # None
        BY IdleReady DEF Holds
    <2> QED BY <1>2, <2>1, IdleReady DEF Advances
<1> QED BY <1>1, <1>3 DEF Goes

LEMMA InitialiseCallStep ==
    ASSUME TypeInv, NEW w \in Workers, InitialiseCall(w) PROVE Goes(w)
<1> DEFINE t == [Idle EXCEPT !.op = "read", !.seen = Seen(InitialiseScope)]
<1>1. t \in Handler /\ t.op = "read" /\ t.seen = Seen(InitialiseScope) /\ t.types = Idle.types
    BY IdleReady, SeenType, ScopeType DEF Handler, Ops
<1>2. DOMAIN t.seen = InitialiseScope
    BY <1>1, SeenType, ScopeType
<1>3. MayRead(w, InitialiseScope) /\ task' = [task EXCEPT ![w] = t] /\ UNCHANGED ledgerVars
    BY DEF InitialiseCall, Start
<1> HIDE DEF t
<1>4. Ready(t)
    BY <1>1, <1>2 DEF Ready
<1> QED BY <1>1, <1>3, <1>4, ReadStep, ScopeType, IdleReady

LEMMA ResetCallStep ==
    ASSUME TypeInv, NEW w \in Workers, ResetCall(w) PROVE Goes(w)
<1> DEFINE scope == {a \in Accounts : a[2] = 1 /\ Has(a)}
           t == [Idle EXCEPT !.op = "reset", !.seen = Seen(scope)]
<1>1. scope \in SUBSET Accounts /\ \A a \in scope : bal[a] # None
    BY DEF Has
<1>2. MayRead(w, scope) /\ task' = [task EXCEPT ![w] = t] /\ UNCHANGED ledgerVars
    BY DEF ResetCall, Start
<1> HIDE DEF scope
<1>3. t \in Handler /\ t.op = "reset" /\ t.seen = Seen(scope) /\ t.types = Idle.types
    BY <1>1, IdleReady, SeenType DEF Handler, Ops
<1> HIDE DEF t
<1>4. Ready(t)
    BY <1>1, <1>3, SeenType DEF Ready
<1> QED BY <1>1, <1>2, <1>3, <1>4, ReadStep, IdleReady

LEMMA ChargeCallStep ==
    ASSUME TypeInv, NEW w \in Workers, NEW a \in Accounts, NEW op \in {"charge", "refund"},
           NEW n \in Hours, ChargeCall(w, a, op, n)
    PROVE  Goes(w)
<1> DEFINE t == [Idle EXCEPT !.op = op, !.seen = Seen({a}), !.hours = n]
<1>1. /\ MayRead(w, {a}) /\ task' = [task EXCEPT ![w] = t] /\ UNCHANGED ledgerVars
      /\ bal[a] # None /\ (op = "charge" => n <= bal[a].remaining)
    BY DEF ChargeCall, Has
<1>2. t \in Handler /\ t.op = op /\ t.seen = Seen({a}) /\ t.types = Idle.types /\ t.hours = n
    BY IdleReady, SeenType, LedgerAssumption DEF Handler, Ops
<1> HIDE DEF t
<1>3. Ready(t)
    BY <1>1, <1>2, SeenType DEF Ready
<1> QED BY <1>1, <1>2, <1>3, ReadStep, IdleReady

LEMMA CorrectCallStep ==
    ASSUME TypeInv, NEW w \in Workers, NEW a \in Accounts, NEW total \in Totals \cup {None},
           NEW remaining \in Totals \cup {None}, CorrectCall(w, a, total, remaining)
    PROVE  Goes(w)
<1> DEFINE t == [Idle EXCEPT !.op = "correct", !.seen = Seen({a}), !.total = total,
                             !.remaining = remaining]
<1>1. /\ MayRead(w, {a}) /\ task' = [task EXCEPT ![w] = t] /\ UNCHANGED ledgerVars
      /\ bal[a] # None /\ InRange(NewRemaining(t, a), NewTotal(t, a))
    BY DEF CorrectCall, Has
<1>2. t \in Handler /\ t.op = "correct" /\ t.seen = Seen({a}) /\ t.types = Idle.types
    BY IdleReady, SeenType DEF Handler, Ops
<1> HIDE DEF t
<1>3. Ready(t)
    BY <1>1, <1>2, SeenType DEF Ready
<1> QED BY <1>1, <1>2, <1>3, ReadStep, IdleReady

LEMMA TaskIn ==
    ASSUME TypeInv, NEW w \in Workers
    PROVE  /\ task[w] \in Handler /\ Ready(task[w])
           /\ DOMAIN task[w].seen \subseteq Accounts
           /\ task[w].seen \in [DOMAIN task[w].seen -> Rows]
           /\ DOMAIN task[w].types \subseteq Types
           /\ task[w].types \in [DOMAIN task[w].types -> Nat]
<1>1. task[w] \in Handler /\ Ready(task[w])
    BY DEF TypeInv
<1> QED BY <1>1, RowsReadElim, TypesReadElim DEF Handler

\* The leave types are read: the handler ends, or keeps the rows it needs.
LEMMA InitialiseTypesStep ==
    ASSUME TypeInv, NEW w \in Workers, InitialiseTypes(w) PROVE Goes(w)
<1> DEFINE known == {k \in Types : type[k] # None}
           scope == {a \in DOMAIN task[w].seen : a[2] = 0 \/ a[1] \in known}
           seen == [a \in scope |-> task[w].seen[a]]
           types == [k \in known |-> type[k]]
           t == [task[w] EXCEPT !.op = "initialise", !.seen = seen, !.types = types]
<1>1. UNCHANGED ledgerVars /\ task[w].op = "read"
    BY DEF InitialiseTypes
<1>2. bal' \in [Accounts -> Rows] /\ bal' = bal /\ type' = type
    BY <1>1 DEF ledgerVars, TypeInv
<1>3. CASE known = {}
    <2>1. Finish(w)
        BY <1>3 DEF InitialiseTypes, Finish
    <2> QED BY <1>2, <2>1, EndStep
<1>4. CASE known # {}
    <2>1. task' = [task EXCEPT ![w] = t]
        BY <1>4 DEF InitialiseTypes
    <2>2. scope \in SUBSET Accounts /\ seen \in [scope -> Rows] /\ scope \subseteq DOMAIN task[w].seen
        BY TaskIn
    <2>3. known \in SUBSET Types /\ types \in [known -> Nat]
        BY DEF TypeInv
    <2>4. DOMAIN seen = scope /\ DOMAIN types = known /\ (\A k \in known : types[k] = type[k])
          /\ (\A a \in scope : seen[a] = task[w].seen[a])
        OBVIOUS
    <2>5. Vacation \X {0} \subseteq scope
        BY <1>1, TaskIn DEF Ready, InitialiseScope
    <2>6. \A k \in Types : <<k, 1>> \in scope <=> k \in known
        BY <1>1, TaskIn DEF Ready, InitialiseScope
    <2>7. seen \in RowsRead /\ types \in TypesRead
        BY <2>2, <2>3, RowsReadIntro, TypesReadIntro
    <2> HIDE DEF seen, types
    <2>8. t \in Handler /\ t.op = "initialise" /\ t.seen = seen /\ t.types = types
        BY <2>7, TaskIn DEF Handler, Ops
    <2> HIDE DEF t
    <2>9. Todo(t) = DOMAIN t.types
        BY <2>3, <2>4, <2>6, <2>8 DEF Todo
    <2> HIDE DEF scope, known
    <2>10. Ready(t)
        BY <2>4, <2>5, <2>8, <2>9 DEF Ready
    <2>11. Advances(w, t)
        BY <1>2, <2>2, <2>4, <2>8, <2>9 DEF Advances
    <2> QED BY <1>2, <2>1, <2>8, <2>10, <2>11 DEF Moved, Goes
<1> QED BY <1>3, <1>4

\* A handler with one more row written.
LEMMA WrittenStep ==
    ASSUME TypeInv, NEW w \in Workers, NEW a \in DOMAIN task[w].seen, NEW last \in BOOLEAN,
           Written(w, a, last), UNCHANGED type, bal' \in [Accounts -> Rows],
           \A b \in Accounts : (b # a => bal'[b] = bal[b]) /\ (bal[b] # None => bal'[b] # None),
           \/ task[w].op = "reset"
           \/ /\ task[w].op = "initialise" /\ a[2] = 1
              /\ bal'[a] # None \/ task[w].seen[a] # None
    PROVE  Goes(w)
<1>1. CASE last
    BY <1>1, EndStep DEF Written, Finish, Holds
<1>2. CASE ~last
    <2> DEFINE scope == DOMAIN task[w].seen \ {a}
               seen == [b \in scope |-> task[w].seen[b]]
               t == [task[w] EXCEPT !.seen = seen]
    <2>1. task' = [task EXCEPT ![w] = t]
        BY <1>2 DEF Written
    <2>2. scope \in SUBSET Accounts /\ seen \in [scope -> Rows] /\ DOMAIN seen = scope
          /\ (\A b \in scope : seen[b] = task[w].seen[b])
        BY TaskIn
    <2>3. seen \in RowsRead
        BY <2>2, RowsReadIntro
    <2> HIDE DEF seen
    <2>4. t \in Handler /\ t.seen = seen /\ t.op = task[w].op /\ t.types = task[w].types
        BY <2>3, TaskIn DEF Handler
    <2> HIDE DEF t
    <2>5. Todo(t) \subseteq Todo(task[w]) /\ \A k \in Todo(task[w]) \ Todo(t) : <<k, 1>> = a
        BY <2>2, <2>4 DEF Todo
    <2>6. Ready(t)
        <3>1. t.op \in {"reset", "initialise"}
            BY <2>4
        <3>2. t.op = "initialise" => Todo(t) \subseteq DOMAIN t.types /\ Vacation \X {0} \subseteq DOMAIN t.seen
            <4>1. task[w].op = "initialise" => /\ Todo(task[w]) \subseteq DOMAIN task[w].types
                                               /\ Vacation \X {0} \subseteq DOMAIN task[w].seen
                BY TaskIn DEF Ready
            <4>2. task[w].op = "initialise" => a \notin Vacation \X {0}
                OBVIOUS
            <4> QED BY <2>2, <2>4, <2>5, <4>1, <4>2
        <3>3. t.op = "reset" => \A b \in DOMAIN t.seen : t.seen[b] # None
            BY <2>2, <2>4, TaskIn DEF Ready
        <3> QED BY <3>1, <3>2, <3>3 DEF Ready
    <2>7. Advances(w, t)
        <3>1. t.op = "initialise" => \A k \in DOMAIN t.types \ Todo(t) :
                \/ bal'[<<k, 1>>] # None
                \/ task[w].op = "initialise" /\ k \in DOMAIN task[w].types \ Todo(task[w])
                \/ Holds(w, <<k, 1>>) /\ task[w].seen[<<k, 1>>] # None
            BY <2>4, <2>5 DEF Holds
        <3>2. \A b \in Accounts :
                /\ bal'[b] # bal[b] => b \in DOMAIN task[w].seen \ DOMAIN t.seen
                /\ bal[b] # None => bal'[b] # None
            BY <2>2, <2>4
        <3> QED BY <2>2, <2>4, <3>1, <3>2 DEF Advances
    <2> QED BY <2>1, <2>4, <2>6, <2>7 DEF Moved, Goes
<1> QED BY <1>1, <1>2

\* What the handler computes for a type, and what it has read of it.
LEMMA InitialiseRow ==
    ASSUME TypeInv, NEW w \in Workers, NEW k \in Types,
           task[w].op = "initialise", k \in Todo(task[w])
    PROVE  /\ <<k, 1>> \in DOMAIN task[w].seen /\ <<k, 1>> \in Accounts
           /\ k \in DOMAIN task[w].types
           /\ EntitlementSeen(task[w], k) \in Int
           /\ Existing(task[w], k) = task[w].seen[<<k, 1>>]
           /\ Existing(task[w], k) \in Rows
<1> DEFINE before == IF k \in Vacation THEN task[w].seen[<<k, 0>>] ELSE None
<1>1. <<k, 1>> \in DOMAIN task[w].seen /\ k \in DOMAIN task[w].types
    BY TaskIn DEF Ready, Todo
<1>2. task[w].types[k] \in Nat
    BY <1>1, TaskIn
<1>3. k \in Vacation => <<k, 0>> \in DOMAIN task[w].seen
    BY TaskIn DEF Ready
<1>4. before \in Balance \cup {None}
    BY <1>3, TaskIn DEF Rows
<1> HIDE DEF before
<1>5. Entitlement(k, task[w].types[k], before) \in Int
    BY <1>2, <1>4, EntitlementType
<1> QED BY <1>1, <1>5, TaskIn DEF EntitlementSeen, Existing, before

LEMMA InitialiseWriteStep ==
    ASSUME TypeInv, NEW w \in Workers, NEW k \in Types, InitialiseWrite(w, k) PROVE Goes(w)
<1> DEFINE a == <<k, 1>>
           total == EntitlementSeen(task[w], k)
           old == Existing(task[w], k)
           last == Todo(task[w]) = {k}
<1>1. task[w].op = "initialise" /\ k \in Todo(task[w]) /\ Written(w, a, last) /\ UNCHANGED type
    BY DEF InitialiseWrite
<1>2. /\ a \in DOMAIN task[w].seen /\ a \in Accounts /\ a[2] = 1
      /\ total \in Int /\ old \in Rows /\ old = task[w].seen[a]
    BY <1>1, InitialiseRow
<1>3. \/ old = None /\ bal' = [bal EXCEPT ![a] = Fresh(total)]
      \/ old # None /\ bal' = [bal EXCEPT ![a] = Resized(old, total)]
      \/ old # None /\ bal' = bal
    BY DEF InitialiseWrite
<1>4. last \in BOOLEAN
    OBVIOUS
<1> HIDE DEF a, total, old, last
<1>5. /\ bal' \in [Accounts -> Rows]
      /\ \A b \in Accounts : (b # a => bal'[b] = bal[b]) /\ (bal[b] # None => bal'[b] # None)
      /\ bal'[a] # None \/ old # None
    <2>1. CASE old = None /\ bal' = [bal EXCEPT ![a] = Fresh(total)]
        <3>1. Fresh(total) \in Rows /\ Fresh(total) # None
            BY <1>2, FreshSound, NoneIsNoRow DEF Rows
        <3> QED BY <1>2, <2>1, <3>1 DEF TypeInv
    <2>2. CASE old # None /\ bal' = [bal EXCEPT ![a] = Resized(old, total)]
        <3>1. Resized(old, total) \in Rows /\ Resized(old, total) # None
            BY <1>2, <2>2, ResizedSound, NoneIsNoRow DEF Rows
        <3> QED BY <1>2, <2>2, <3>1 DEF TypeInv
    <2>3. CASE old # None /\ bal' = bal
        BY <2>3 DEF TypeInv
    <2> QED BY <1>3, <2>1, <2>2, <2>3
<1> QED BY <1>1, <1>2, <1>4, <1>5, WrittenStep

LEMMA ResetWriteStep ==
    ASSUME TypeInv, NEW w \in Workers, NEW a \in Accounts, ResetWrite(w, a) PROVE Goes(w)
<1> DEFINE row == ResetRow(bal[a], task[w].seen[a])
           last == DOMAIN task[w].seen = {a}
<1>1. /\ task[w].op = "reset" /\ a \in DOMAIN task[w].seen /\ bal[a] # None
      /\ bal' = [bal EXCEPT ![a] = row] /\ Written(w, a, last) /\ UNCHANGED type
    BY DEF ResetWrite, Holds, Has, ResetRow
<1>2. task[w].seen[a] \in Balance /\ bal[a] \in Balance
    <2>1. task[w].seen[a] # None
        BY <1>1, TaskIn DEF Ready
    <2> QED BY <1>1, <2>1, TaskIn DEF Rows, TypeInv
<1>3. row \in Rows /\ row # None
    <2>1. row \in Balance
        BY <1>2, ResetType
    <2> QED BY <2>1, NoneIsNoRow DEF Rows
<1>4. last \in BOOLEAN
    OBVIOUS
<1> HIDE DEF row, last
<1>5. /\ bal' \in [Accounts -> Rows]
      /\ \A b \in Accounts : (b # a => bal'[b] = bal[b]) /\ (bal[b] # None => bal'[b] # None)
    BY <1>1, <1>3 DEF TypeInv
<1> QED BY <1>1, <1>4, <1>5, WrittenStep

\* A handler whose only write is its last.
LEMMA LastWriteStep ==
    ASSUME TypeInv, NEW w \in Workers, NEW a \in Accounts, Holds(w, a), NEW row \in Balance,
           bal' = [bal EXCEPT ![a] = row], Finish(w), UNCHANGED type
    PROVE  Goes(w)
<1>1. row \in Rows /\ row # None
    BY NoneIsNoRow DEF Rows
<1>2. bal' \in [Accounts -> Rows]
    BY <1>1 DEF TypeInv
<1>3. \A b \in Accounts : /\ bal'[b] # bal[b] => Holds(w, b)
                          /\ bal[b] # None => bal'[b] # None
    BY <1>1 DEF TypeInv
<1> QED BY <1>2, <1>3, EndStep

LEMMA CorrectWriteStep ==
    ASSUME TypeInv, NEW w \in Workers, NEW a \in Accounts, CorrectWrite(w, a) PROVE Goes(w)
<1> DEFINE total == NewTotal(task[w], a)
           remaining == NewRemaining(task[w], a)
<1>1. /\ task[w].op = "correct" /\ Holds(w, a) /\ Finish(w) /\ UNCHANGED type
      /\ bal' = [bal EXCEPT ![a] = Corrected(total, remaining)]
    BY DEF CorrectWrite
<1>2. task[w].seen[a] \in Balance /\ InRange(remaining, total)
    <2>1. task[w].seen[a] # None /\ InRange(remaining, total)
        BY <1>1, TaskIn DEF Ready, Holds
    <2> QED BY <1>1, <2>1, TaskIn DEF Rows, Holds
<1>3. total \in Int /\ remaining \in Int
    <2>1. task[w].total \in Totals \cup {None} /\ task[w].remaining \in Totals \cup {None}
        BY TaskIn DEF Handler
    <2>2. task[w].seen[a].total \in Int /\ task[w].seen[a].remaining \in Int
        BY <1>2 DEF Balance
    <2>3. \A n \in Totals \cup {None} : n # None => n \in Int
        BY LedgerAssumption
    <2> QED BY <2>1, <2>2, <2>3 DEF NewTotal, NewRemaining
<1> HIDE DEF total, remaining
<1>4. Corrected(total, remaining) \in Balance
    BY <1>2, <1>3, CorrectedSound DEF InRange
<1> QED BY <1>1, <1>4, LastWriteStep

LEMMA ChargeWriteStep ==
    ASSUME TypeInv, NEW w \in Workers, NEW a \in Accounts, ChargeWrite(w, a) PROVE Goes(w)
<1> DEFINE row == IF task[w].op = "charge" THEN Charged(task[w].seen[a], task[w].hours)
                  ELSE Refunded(task[w].seen[a], task[w].hours)
           put == [row EXCEPT !.total = bal[a].total]
<1>1. /\ task[w].op \in {"charge", "refund"} /\ Holds(w, a) /\ bal[a] # None
      /\ Finish(w) /\ UNCHANGED type /\ bal' = [bal EXCEPT ![a] = put]
    BY DEF ChargeWrite, Has
<1>2. task[w].seen[a] \in Balance /\ task[w].hours \in Nat /\ bal[a] \in Balance
    <2>1. task[w].seen[a] # None /\ task[w].hours \in Hours
        BY <1>1, TaskIn DEF Ready, Holds
    <2> QED BY <1>1, <2>1, TaskIn, LedgerAssumption DEF Rows, TypeInv, Holds
<1>3. row \in Balance
    <2>1. Refunded(task[w].seen[a], task[w].hours) \in Balance
        BY <1>2, RefundedSound
    <2>2. Charged(task[w].seen[a], task[w].hours) \in Balance
        BY <1>2, ChargedType
    <2> QED BY <2>1, <2>2
<1> HIDE DEF row
<1>4. put \in Balance
    BY <1>2, <1>3 DEF Balance
<1> HIDE DEF put
<1> QED BY <1>1, <1>4, LastWriteStep

LEMMA FailStep == ASSUME TypeInv, NEW w \in Workers, Fail(w) PROVE Goes(w)
<1>1. Finish(w) /\ bal' = bal /\ type' = type
    BY DEF Fail, ledgerVars
<1>2. bal' \in [Accounts -> Rows]
    BY <1>1 DEF TypeInv
<1> QED BY <1>1, <1>2, EndStep

LEMMA HandlerGoes ==
    ASSUME TypeInv, NEW w \in Workers, Call(w) \/ Step(w) \/ Fail(w) PROVE Goes(w)
<1>1. CASE Call(w)
    BY <1>1, InitialiseCallStep, ResetCallStep, ChargeCallStep, CorrectCallStep DEF Call
<1>2. CASE Step(w)
    BY <1>2, InitialiseTypesStep, InitialiseWriteStep, ResetWriteStep, CorrectWriteStep,
       ChargeWriteStep DEF Step
<1>3. CASE Fail(w)
    BY <1>3, FailStep
<1> QED BY <1>1, <1>2, <1>3

-----------------------------------------------------------------------------
(* Types, whatever handlers overlap. *)

LEMMA GoesType == ASSUME TypeInv, NEW w \in Workers, Goes(w) PROVE TypeInv'
<1>1. PICK t : Moved(w, t) /\ Advances(w, t)
    BY DEF Goes
<1> QED BY <1>1, TaskType DEF Moved, Advances

LEMMA TypeWriteType ==
    ASSUME TypeInv, NEW k \in Types, NEW default \in Totals, TypeWrite(k, default) PROVE TypeInv'
<1>1. default \in Nat
    BY LedgerAssumption
<1> QED BY <1>1 DEF TypeWrite, SetType, TypeInv

LEMMA TypeDeleteType ==
    ASSUME TypeInv, NEW k \in Types, TypeDelete(k) PROVE TypeInv'
<1>1. /\ type' = [type EXCEPT ![k] = None] /\ task' = task
      /\ bal' = [a \in Accounts |-> IF a[1] = k THEN None ELSE bal[a]]
    BY DEF TypeDelete, DeleteType
<1>2. bal' \in [Accounts -> Rows]
    BY <1>1 DEF TypeInv, Rows
<1> QED BY <1>1, <1>2 DEF TypeInv

LEMMA BalanceStepType == TypeInv /\ [BalanceNext]_balanceVars => TypeInv'
<1> SUFFICES ASSUME TypeInv, [BalanceNext]_balanceVars PROVE TypeInv'
    OBVIOUS
<1>1. CASE UNCHANGED balanceVars
    BY <1>1 DEF balanceVars, TypeInv
<1>2. ASSUME NEW w \in Workers, Call(w) \/ Step(w) \/ Fail(w) PROVE TypeInv'
    BY <1>2, HandlerGoes, GoesType
<1> QED BY <1>1, <1>2, TypeWriteType, TypeDeleteType DEF BalanceNext

LEMMA BalanceInitType == BalanceInit => TypeInv
<1> SUFFICES ASSUME BalanceInit PROVE TypeInv
    OBVIOUS
<1>1. bal \in [Accounts -> Rows] /\ type \in [Types -> Nat \cup {None}]
    BY LedgerAssumption DEF BalanceInit, LedgerInit, Rows
<1>2. task = [w \in Workers |-> Idle]
    BY DEF BalanceInit
<1> QED BY <1>1, <1>2, IdleReady DEF TypeInv

LEMMA TypeInvShape == TypeInv => BalanceTypeOK
<1> SUFFICES ASSUME TypeInv PROVE BalanceTypeOK
    OBVIOUS
<1>1. ASSUME NEW w \in Workers
      PROVE  /\ task[w].op \in Ops
             /\ DOMAIN task[w].seen \subseteq Accounts
             /\ \A a \in DOMAIN task[w].seen : task[w].seen[a] \in Balance \cup {None}
             /\ task[w].op \in {"reset", "correct", "charge", "refund"} =>
                   \A a \in DOMAIN task[w].seen : task[w].seen[a] # None
             /\ task[w].op = "initialise" => Vacation \X {0} \subseteq DOMAIN task[w].seen
    BY TaskIn DEF Handler, Ready, Rows
<1>2. DOMAIN task = Workers
    BY DEF TypeInv
<1> QED BY <1>1, <1>2 DEF BalanceTypeOK, Ops, TypeInv, Rows

\* The rows and the handlers keep their types, whatever handlers overlap: a
\* handler never computes with a row it has not read.
THEOREM BalanceTypeCorrect == BalanceSpec => []BalanceTypeOK
BY BalanceInitType, BalanceStepType, TypeInvShape, PTL DEF BalanceSpec

-----------------------------------------------------------------------------
(* What one handler at a time on a row buys. *)

\* What a handler has read is still so, and no two hold the same row.
AloneInv ==
    /\ \A w \in Workers : \A a \in DOMAIN task[w].seen : task[w].seen[a] = bal[a]
    /\ \A w \in Workers : \A k \in DOMAIN task[w].types : task[w].types[k] = type[k]
    /\ \A v, w \in Workers :
          v # w => \A a \in DOMAIN task[v].seen : a \notin DOMAIN task[w].seen

IInv == TypeInv /\ AloneInv /\ NoGaps

LEMMA OthersStay ==
    ASSUME TypeInv, NEW w \in Workers, NEW t, Moved(w, t), NEW v \in Workers
    PROVE  task'[v] = IF v = w THEN t ELSE task[v]
BY DEF Moved, TypeInv

LEMMA GoesAlone ==
    ASSUME Apart, IInv, NEW w \in Workers, Goes(w) PROVE AloneInv'
<1>1. PICK t : Moved(w, t) /\ Advances(w, t)
    BY DEF Goes
<1>2. type' = type /\ \A v \in Workers : task'[v] = IF v = w THEN t ELSE task[v]
    BY <1>1, OthersStay DEF Moved, IInv
<1>3. ASSUME NEW a \in DOMAIN t.seen
      PROVE  /\ t.seen[a] = bal[a] /\ bal'[a] = bal[a]
             /\ \A v \in Workers \ {w} : a \notin DOMAIN task[v].seen
    <2>1. a \in Accounts
        BY <1>1, RowsReadElim DEF Moved, Handler
    <2> QED BY <1>1, <2>1 DEF Advances, Holds, IInv, AloneInv
<1>4. ASSUME NEW v \in Workers \ {w}, NEW a \in DOMAIN task[v].seen PROVE bal'[a] = bal[a]
    <2>1. a \in Accounts
        BY TaskIn DEF IInv
    <2> QED BY <1>1, <2>1 DEF Advances, IInv, AloneInv
<1>5. \A v \in Workers : \A a \in DOMAIN task'[v].seen : task'[v].seen[a] = bal'[a]
    BY <1>2, <1>3, <1>4 DEF IInv, AloneInv
<1>6. \A v \in Workers : \A k \in DOMAIN task'[v].types : task'[v].types[k] = type'[k]
    BY <1>1, <1>2 DEF Advances, IInv, AloneInv
<1>7. \A u, v \in Workers :
        u # v => \A a \in DOMAIN task'[u].seen : a \notin DOMAIN task'[v].seen
    BY <1>2, <1>3 DEF IInv, AloneInv
<1> QED BY <1>5, <1>6, <1>7 DEF AloneInv

LEMMA GoesNoGaps ==
    ASSUME Apart, IInv, NEW w \in Workers, Goes(w) PROVE NoGaps'
<1>1. PICK t : Moved(w, t) /\ Advances(w, t)
    BY DEF Goes
<1>2. type' = type /\ \A v \in Workers : task'[v] = IF v = w THEN t ELSE task[v]
    BY <1>1, OthersStay DEF Moved, IInv
<1>3. \A k \in Types : bal[<<k, 1>>] # None => bal'[<<k, 1>>] # None
    <2>1. \A k \in Types : <<k, 1>> \in Accounts
        BY DEF Accounts, Years
    <2> QED BY <1>1, <2>1 DEF Advances
<1>4. ASSUME NEW v \in Workers, task'[v].op = "initialise",
             NEW k \in DOMAIN task'[v].types \ Todo(task'[v])
      PROVE  type'[k] = None \/ bal'[<<k, 1>>] # None
    <2>1. CASE v # w
        <3>1. task'[v] = task[v] /\ k \in Types
            BY <1>2, <2>1, TaskIn DEF IInv
        <3> QED BY <1>2, <1>3, <1>4, <3>1 DEF IInv, NoGaps, Has
    <2>2. CASE v = w
        <3>1. task'[v] = t /\ k \in Types
            BY <1>1, <1>2, <2>2, TypesReadElim DEF Moved, Handler
        <3>2. CASE bal'[<<k, 1>>] # None
            BY <3>2
        <3>3. CASE task[w].op = "initialise" /\ k \in DOMAIN task[w].types \ Todo(task[w])
            BY <1>2, <1>3, <3>1, <3>3 DEF IInv, NoGaps, Has
        <3>4. CASE Holds(w, <<k, 1>>) /\ task[w].seen[<<k, 1>>] # None
            BY <1>3, <3>1, <3>4 DEF IInv, AloneInv, Holds
        <3> QED BY <1>1, <1>4, <3>1, <3>2, <3>3, <3>4 DEF Advances
    <2> QED BY <2>1, <2>2
<1> QED BY <1>4 DEF NoGaps, Has

LEMMA TypeWriteAlone ==
    ASSUME Apart, IInv, NEW k \in Types, NEW default \in Totals, TypeWrite(k, default)
    PROVE  AloneInv' /\ NoGaps'
<1>1. /\ type' = [type EXCEPT ![k] = default] /\ bal' = bal /\ task' = task
      /\ \A w \in Workers : k \notin DOMAIN task[w].types
    BY DEF TypeWrite, SetType, TypeFree
<1>2. \A w \in Workers : \A j \in DOMAIN task[w].types : type'[j] = type[j]
    BY <1>1, TaskIn DEF IInv, TypeInv
<1>3. AloneInv'
    BY <1>1, <1>2 DEF IInv, AloneInv
<1>4. NoGaps'
    BY <1>1, <1>2 DEF IInv, NoGaps, Has, Todo
<1> QED BY <1>3, <1>4

LEMMA TypeDeleteAlone ==
    ASSUME Apart, IInv, NEW k \in Types, TypeDelete(k)
    PROVE  AloneInv' /\ NoGaps'
<1>1. /\ type' = [type EXCEPT ![k] = None] /\ task' = task
      /\ bal' = [a \in Accounts |-> IF a[1] = k THEN None ELSE bal[a]]
      /\ \A w \in Workers : /\ k \notin DOMAIN task[w].types
                            /\ \A y \in Years : <<k, y>> \notin DOMAIN task[w].seen
    BY DEF TypeDelete, DeleteType, TypeFree, Holds
<1>2. \A w \in Workers : \A j \in DOMAIN task[w].types : type'[j] = type[j] /\ j # k
    BY <1>1, TaskIn DEF IInv, TypeInv
<1>3. \A w \in Workers : \A a \in DOMAIN task[w].seen : bal'[a] = bal[a]
    <2> TAKE w \in Workers
    <2> TAKE a \in DOMAIN task[w].seen
    <2>1. a \in Accounts
        BY TaskIn DEF IInv
    <2>2. a = <<a[1], a[2]>> /\ a[2] \in Years
        BY <2>1 DEF Accounts
    <2>3. a[1] # k
        BY <1>1, <2>2
    <2> QED BY <1>1, <2>1, <2>3
<1>4. AloneInv'
    BY <1>1, <1>2, <1>3 DEF IInv, AloneInv
<1>5. ASSUME NEW j \in Types, j # k PROVE bal'[<<j, 1>>] = bal[<<j, 1>>]
    <2>1. <<j, 1>> \in Accounts
        BY DEF Accounts, Years
    <2> QED BY <1>1, <1>5, <2>1
<1>6. NoGaps'
    <2> SUFFICES ASSUME NEW w \in Workers, task[w].op = "initialise",
                        NEW j \in DOMAIN task[w].types \ Todo(task[w])
                 PROVE  type'[j] = None \/ bal'[<<j, 1>>] # None
        BY <1>1 DEF NoGaps, Has
    <2>1. j \in Types /\ j # k
        BY <1>2, TaskIn DEF IInv
    <2>2. type[j] = None \/ bal[<<j, 1>>] # None
        BY DEF IInv, NoGaps, Has
    <2> QED BY <1>2, <1>5, <2>1, <2>2
<1> QED BY <1>4, <1>6

LEMMA AloneStep == Apart /\ IInv /\ [BalanceNext]_balanceVars => IInv'
<1> SUFFICES ASSUME Apart, IInv, [BalanceNext]_balanceVars PROVE IInv'
    OBVIOUS
<1>1. TypeInv'
    BY BalanceStepType DEF IInv
<1>2. CASE UNCHANGED balanceVars
    BY <1>1, <1>2 DEF balanceVars, IInv, AloneInv, NoGaps, Has, Todo
<1>3. ASSUME NEW w \in Workers, Call(w) \/ Step(w) \/ Fail(w) PROVE IInv'
    <2>1. Goes(w)
        BY <1>3, HandlerGoes DEF IInv
    <2> QED BY <1>1, <2>1, GoesAlone, GoesNoGaps DEF IInv
<1>4. ASSUME NEW k \in Types, NEW default \in Totals, TypeWrite(k, default) PROVE IInv'
    BY <1>1, <1>4, TypeWriteAlone DEF IInv
<1>5. ASSUME NEW k \in Types, TypeDelete(k) PROVE IInv'
    BY <1>1, <1>5, TypeDeleteAlone DEF IInv
<1> QED BY <1>2, <1>3, <1>4, <1>5 DEF BalanceNext

LEMMA AloneInit == BalanceInit => IInv
<1> SUFFICES ASSUME BalanceInit PROVE IInv
    OBVIOUS
<1>1. TypeInv
    BY BalanceInitType
<1>2. task = [w \in Workers |-> Idle] /\ Idle.op = "idle"
    BY DEF BalanceInit, Idle
<1>3. AloneInv
    BY <1>2, IdleReady DEF AloneInv
<1>4. NoGaps
    BY <1>2 DEF NoGaps
<1> QED BY <1>1, <1>3, <1>4 DEF IInv

\* As long as no two handlers hold one row, an initialisation leaves no type it
\* has been over without its row.
THEOREM NoGapsHolds == Apart => (BalanceSpec => []NoGaps)
<1> SUFFICES ASSUME Apart PROVE BalanceSpec => []NoGaps
    OBVIOUS
<1>1. IInv /\ [BalanceNext]_balanceVars => IInv'
    BY AloneStep
<1>2. IInv => NoGaps
    BY DEF IInv
<1> QED BY <1>1, <1>2, AloneInit, PTL DEF BalanceSpec

-----------------------------------------------------------------------------
(* The handlers implement the ledger: the write of a handler is a whole      *)
(* operation on what the row is now.                                         *)

LEMMA SameTotal ==
    ASSUME NEW row \in Balance, NEW old \in Balance, row.total = old.total
    PROVE  [row EXCEPT !.total = old.total] = row
BY DEF Balance

LEMMA ResetIsFresh == ASSUME NEW row \in Balance PROVE ResetRow(row, row) = Fresh(row.total)
<1> DEFINE new == ResetRow(row, row)
           fresh == Fresh(row.total)
<1>1. new \in Balance
    BY ResetType
<1>2. new.total = row.total /\ new.used = 0 /\ new.remaining = row.total
    BY DEF ResetRow, Balance
<1>3. row.total \in Int
    BY DEF Balance
<1>4. fresh \in Balance
    BY <1>3, FreshSound
<1>5. fresh.total = row.total /\ fresh.used = 0 /\ fresh.remaining = row.total
    BY DEF Fresh
<1> HIDE DEF new, fresh
<1>6. new = fresh
    BY <1>1, <1>2, <1>4, <1>5 DEF Balance
<1> QED BY <1>6 DEF new, fresh

\* What the handler adds up from its reading is what is due now.
LEMMA DueSeen ==
    ASSUME IInv, NEW w \in Workers, NEW k \in Types,
           task[w].op = "initialise", k \in Todo(task[w])
    PROVE  /\ EntitlementSeen(task[w], k) = Due(k)
           /\ type[k] # None
           /\ Existing(task[w], k) = bal[<<k, 1>>]
<1>1. <<k, 1>> \in DOMAIN task[w].seen /\ k \in DOMAIN task[w].types
      /\ Existing(task[w], k) = task[w].seen[<<k, 1>>]
    BY InitialiseRow DEF IInv
<1>2. task[w].types[k] = type[k] /\ task[w].types[k] \in Nat
    BY <1>1, TaskIn DEF IInv, AloneInv
<1>3. k \in Vacation => task[w].seen[<<k, 0>>] = bal[<<k, 0>>]
    <2>1. k \in Vacation => <<k, 0>> \in DOMAIN task[w].seen
        BY TaskIn DEF IInv, Ready
    <2> QED BY <2>1 DEF IInv, AloneInv
<1>4. EntitlementSeen(task[w], k) = Due(k)
    BY <1>2, <1>3 DEF EntitlementSeen, Entitlement, Due
<1>5. None \notin Nat
    BY LedgerAssumption
<1> QED BY <1>1, <1>2, <1>4, <1>5 DEF IInv, AloneInv

LEMMA InitialiseWriteRefines ==
    ASSUME IInv, NEW w \in Workers, NEW k \in Types, InitialiseWrite(w, k)
    PROVE  [LedgerNext]_ledgerVars
<1> DEFINE a == <<k, 1>>
           due == Due(k)
<1>1. task[w].op = "initialise" /\ k \in Todo(task[w]) /\ UNCHANGED type
    BY DEF InitialiseWrite
<1>2. EntitlementSeen(task[w], k) = due /\ type[k] # None /\ Existing(task[w], k) = bal[a]
    BY <1>1, DueSeen
<1>3. \/ bal[a] = None /\ bal' = [bal EXCEPT ![a] = Fresh(due)]
      \/ bal[a] # None /\ bal' = [bal EXCEPT ![a] = Resized(bal[a], due)]
      \/ bal' = bal
    BY <1>2 DEF InitialiseWrite
<1>4. Open(k) \/ Resize(k) \/ UNCHANGED ledgerVars
    BY <1>1, <1>2, <1>3 DEF Open, Resize, Put, Has, ledgerVars
<1> QED BY <1>4 DEF LedgerNext

LEMMA ResetWriteRefines ==
    ASSUME IInv, NEW w \in Workers, NEW a \in Accounts, ResetWrite(w, a) PROVE LedgerNext
<1>1. /\ a \in DOMAIN task[w].seen /\ Has(a) /\ UNCHANGED type
      /\ bal' = [bal EXCEPT ![a] = ResetRow(bal[a], task[w].seen[a])]
    BY DEF ResetWrite, Holds
<1>2. task[w].seen[a] = bal[a] /\ bal[a] \in Balance
    BY <1>1 DEF IInv, AloneInv, TypeInv, Rows, Has
<1>3. Clear(a)
    BY <1>1, <1>2, ResetIsFresh DEF Clear, Put
<1> QED BY <1>3 DEF LedgerNext

LEMMA CorrectWriteRefines ==
    ASSUME IInv, NEW w \in Workers, NEW a \in Accounts, CorrectWrite(w, a) PROVE LedgerNext
<1> DEFINE t == task[w]
<1>1. /\ t.op = "correct" /\ a \in DOMAIN t.seen /\ Has(a) /\ UNCHANGED type
      /\ bal' = [bal EXCEPT ![a] = Corrected(NewTotal(t, a), NewRemaining(t, a))]
    BY DEF CorrectWrite, Holds
<1>2. t.seen[a] = bal[a] /\ InRange(NewRemaining(t, a), NewTotal(t, a))
    BY <1>1, TaskIn DEF IInv, AloneInv, Ready
<1>3. t.total \in Totals \cup {None} /\ t.remaining \in Totals \cup {None}
    BY TaskIn DEF IInv, Handler
<1> HIDE DEF t
<1>4. Correct(a, t.total, t.remaining)
    BY <1>1, <1>2 DEF Correct, Put, NewTotal, NewRemaining, InRange
<1> QED BY <1>3, <1>4 DEF LedgerNext

LEMMA ChargeWriteRefines ==
    ASSUME IInv, NEW w \in Workers, NEW a \in Accounts, ChargeWrite(w, a) PROVE LedgerNext
<1> DEFINE n == task[w].hours
           row == IF task[w].op = "charge" THEN Charged(bal[a], n) ELSE Refunded(bal[a], n)
<1>1. /\ task[w].op \in {"charge", "refund"} /\ a \in DOMAIN task[w].seen /\ Has(a)
      /\ UNCHANGED type
    BY DEF ChargeWrite, Holds
<1>2. task[w].seen[a] = bal[a] /\ bal[a] \in Balance
    BY <1>1 DEF IInv, AloneInv, TypeInv, Rows, Has
<1>3. n \in Hours /\ n \in Nat /\ (task[w].op = "charge" => n <= bal[a].remaining)
    BY <1>1, <1>2, TaskIn, LedgerAssumption DEF IInv, Ready
<1>4. bal' = [bal EXCEPT ![a] = [row EXCEPT !.total = bal[a].total]]
    BY <1>2 DEF ChargeWrite
<1>5. row \in Balance /\ row.total = bal[a].total
    <2>1. Charged(bal[a], n) \in Balance /\ Charged(bal[a], n).total = bal[a].total
        <3>1. Charged(bal[a], n).total = bal[a].total
            BY <1>2 DEF Charged, Balance
        <3> QED BY <1>2, <1>3, <3>1, ChargedType
    <2>2. Refunded(bal[a], n) \in Balance /\ Refunded(bal[a], n).total = bal[a].total
        BY <1>2, <1>3, RefundedSound
    <2> QED BY <2>1, <2>2
<1>6. Put(a, row)
    <2> HIDE DEF row
    <2>1. [row EXCEPT !.total = bal[a].total] = row
        BY <1>2, <1>5, SameTotal
    <2> QED BY <1>1, <1>4, <2>1 DEF Put
<1>7. Charge(a, n) \/ Refund(a, n)
    BY <1>1, <1>3, <1>6 DEF Charge, Refund
<1> QED BY <1>3, <1>7 DEF LedgerNext

LEMMA RefineStep == IInv /\ [BalanceNext]_balanceVars => [LedgerNext]_ledgerVars
<1> SUFFICES ASSUME IInv, [BalanceNext]_balanceVars PROVE [LedgerNext]_ledgerVars
    OBVIOUS
<1>1. CASE UNCHANGED balanceVars
    BY <1>1 DEF balanceVars, ledgerVars
<1>2. ASSUME NEW w \in Workers, Call(w) \/ Fail(w) PROVE UNCHANGED ledgerVars
    BY <1>2 DEF Call, Fail, InitialiseCall, ResetCall, ChargeCall, CorrectCall, Start
<1>3. ASSUME NEW w \in Workers, Step(w) PROVE [LedgerNext]_ledgerVars
    <2>1. CASE InitialiseTypes(w)
        BY <2>1 DEF InitialiseTypes
    <2> QED BY <1>3, <2>1, InitialiseWriteRefines, ResetWriteRefines, CorrectWriteRefines,
               ChargeWriteRefines DEF Step
<1>4. ASSUME NEW k \in Types, NEW default \in Totals, TypeWrite(k, default) PROVE LedgerNext
    BY <1>4 DEF TypeWrite, LedgerNext
<1>5. ASSUME NEW k \in Types, TypeDelete(k) PROVE LedgerNext
    BY <1>5 DEF TypeDelete, LedgerNext
<1> QED BY <1>1, <1>2, <1>3, <1>4, <1>5 DEF BalanceNext

\* As long as no two handlers hold one row, handlers that read rows and write
\* them back statement by statement, and may die between any two, change them
\* as whole operations on what the rows are would.
THEOREM HandlersImplementLedger == Apart => (BalanceSpec => LedgerSpec)
<1> SUFFICES ASSUME Apart PROVE BalanceSpec => LedgerSpec
    OBVIOUS
<1>1. IInv /\ [BalanceNext]_balanceVars => IInv'
    BY AloneStep
<1>2. BalanceInit => LedgerInit
    BY DEF BalanceInit
<1> QED BY <1>1, <1>2, AloneInit, RefineStep, PTL DEF BalanceSpec, LedgerSpec

\* So the days used and left add up to the total in every row.
THEOREM BalancedHolds == Apart => (BalanceSpec => []Balanced)
<1> SUFFICES ASSUME Apart PROVE BalanceSpec => []Balanced
    OBVIOUS
<1>1. BalanceSpec => LedgerSpec
    BY HandlersImplementLedger
<1> QED BY <1>1, LedgerBalanced, PTL
=============================================================================
