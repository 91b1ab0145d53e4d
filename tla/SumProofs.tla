----------------------------- MODULE SumProofs -----------------------------
(***************************************************************************)
(* Sums over finite sets: the fold that MapThenSumSet stands for has a     *)
(* value, and it can be taken apart at any element.  The induction is over *)
(* sets of subsets (WFMin on the strict subset ordering), which needs no   *)
(* operator for the property.                                              *)
(***************************************************************************)
EXTENDS FiniteSetsExt, FiniteSetTheorems, TLAPS

\* A property of finite sets that each set has when its strict subsets have it
\* is had by every set; Good is the set of the sets that have it.
LEMMA SubsetInduction ==
    ASSUME NEW S, IsFiniteSet(S), NEW Good,
           \A T \in SUBSET S : (\A U \in SUBSET T : U # T => U \in Good) => T \in Good
    PROVE  \A T \in SUBSET S : T \in Good
<1> SUFFICES ASSUME NEW T0 \in SUBSET S, T0 \notin Good PROVE FALSE
    OBVIOUS
<1> DEFINE Bad == {T \in SUBSET S : T \notin Good}
<1>1. Bad # {} /\ Bad \subseteq FiniteSubsetsOf(S)
    BY FS_FiniteSubsetsOfFinite
<1>2. PICK T \in Bad : \A U \in Bad : ~ (<<U, T>> \in StrictSubsetOrdering(S))
    <2> HIDE DEF Bad
    <2> QED BY <1>1, FS_StrictSubsetOrderingWellFounded, WFMin
<1>3. ASSUME NEW U \in SUBSET T, U # T PROVE U \in Good
    BY <1>2, <1>3 DEF StrictSubsetOrdering
<1> QED BY <1>2, <1>3

-----------------------------------------------------------------------------
(* The fold. *)

Pick(s) == CHOOSE x \in s : TRUE

\* g adds up f over the subsets of S.
Adds(g, f, S) ==
    g = [s \in SUBSET S |-> IF s = {} THEN 0 ELSE f[Pick(s)] + g[s \ {Pick(s)}]]

Sum(f, S) == (CHOOSE g : Adds(g, f, S))[S]

\* A picked element is an element.
LEMMA PickIn == ASSUME NEW s, s # {} PROVE Pick(s) \in s
BY DEF Pick

\* Two such functions agree where both are defined.
LEMMA AddsUnique ==
    ASSUME NEW S, IsFiniteSet(S), NEW f, NEW T \in SUBSET S, NEW U \in SUBSET S,
           NEW g, Adds(g, f, T), NEW h, Adds(h, f, U)
    PROVE  \A s \in SUBSET (T \cap U) : g[s] = h[s]
<1> DEFINE Good == {s \in SUBSET S : s \subseteq T \cap U => g[s] = h[s]}
<1>1. ASSUME NEW s \in SUBSET S, \A u \in SUBSET s : u # s => u \in Good
      PROVE  s \in Good
    <2> SUFFICES ASSUME s \subseteq T \cap U PROVE g[s] = h[s]
        OBVIOUS
    <2>1. /\ g[s] = IF s = {} THEN 0 ELSE f[Pick(s)] + g[s \ {Pick(s)}]
          /\ h[s] = IF s = {} THEN 0 ELSE f[Pick(s)] + h[s \ {Pick(s)}]
        BY DEF Adds
    <2>2. s # {} => g[s \ {Pick(s)}] = h[s \ {Pick(s)}]
        BY <1>1, PickIn
    <2> QED BY <2>1, <2>2
<1> HIDE DEF Good
<1>2. \A s \in SUBSET S : s \in Good
    BY <1>1, SubsetInduction
<1> QED BY <1>2 DEF Good

\* There is one for every finite set.
LEMMA AddsExists ==
    ASSUME NEW S, IsFiniteSet(S), NEW f
    PROVE  \A T \in SUBSET S : \E g : Adds(g, f, T)
<1> DEFINE Good == {T \in SUBSET S : \E g : Adds(g, f, T)}
<1>1. ASSUME NEW T \in SUBSET S, \A U \in SUBSET T : U # T => U \in Good
      PROVE  T \in Good
    <2> DEFINE h == [s \in SUBSET T |->
                        IF s = {} THEN 0 ELSE f[Pick(s)] + Sum(f, s \ {Pick(s)})]
    <2>1. ASSUME NEW u \in SUBSET T, u # T PROVE h[u] = Sum(f, u)
        <3> DEFINE g == CHOOSE g : Adds(g, f, u)
        <3>1. Adds(g, f, u)
            BY <1>1, <2>1
        <3> HIDE DEF g
        <3>2. g[u] = IF u = {} THEN 0 ELSE f[Pick(u)] + g[u \ {Pick(u)}]
            BY <3>1 DEF Adds
        <3>3. ASSUME u # {} PROVE g[u \ {Pick(u)}] = Sum(f, u \ {Pick(u)})
            <4> DEFINE v == u \ {Pick(u)}
                       k == CHOOSE k : Adds(k, f, v)
            <4>1. v \in SUBSET T /\ v # T /\ v \in SUBSET S /\ u \in SUBSET S /\ v \subseteq u
                BY <2>1, <3>3, PickIn
            <4>2. Adds(k, f, v)
                BY <1>1, <4>1
            <4> HIDE DEF v, k
            <4>3. g[v] = k[v]
                BY <3>1, <4>1, <4>2, AddsUnique
            <4> QED BY <4>3 DEF v, k, Sum
        <3> QED BY <3>2, <3>3 DEF g, Sum
    <2>2. ASSUME NEW s \in SUBSET T, s # {}
          PROVE  h[s \ {Pick(s)}] = Sum(f, s \ {Pick(s)})
        <3>1. s \ {Pick(s)} \in SUBSET T /\ s \ {Pick(s)} # T
            BY <2>2, PickIn
        <3> HIDE DEF h
        <3> QED BY <2>1, <3>1
    <2>3. h = [s \in SUBSET T |-> IF s = {} THEN 0 ELSE f[Pick(s)] + h[s \ {Pick(s)}]]
        <3> DEFINE k == [s \in SUBSET T |->
                            IF s = {} THEN 0 ELSE f[Pick(s)] + h[s \ {Pick(s)}]]
        <3>1. \A s \in SUBSET T : h[s] = k[s]
            BY <2>2
        <3> QED BY <3>1
    <2> HIDE DEF h
    <2>4. Adds(h, f, T)
        BY <2>3 DEF Adds
    <2> QED BY <2>4
<1> HIDE DEF Good
<1>2. \A T \in SUBSET S : T \in Good
    BY <1>1, SubsetInduction
<1> QED BY <1>2 DEF Good

\* The sum over a set follows from the sum over the set less its picked element.
LEMMA SumPicked ==
    ASSUME NEW S, IsFiniteSet(S), NEW f
    PROVE  \A T \in SUBSET S :
               Sum(f, T) = IF T = {} THEN 0 ELSE f[Pick(T)] + Sum(f, T \ {Pick(T)})
<1> SUFFICES ASSUME NEW T \in SUBSET S
             PROVE  Sum(f, T) = IF T = {} THEN 0 ELSE f[Pick(T)] + Sum(f, T \ {Pick(T)})
    OBVIOUS
<1> DEFINE g == CHOOSE g : Adds(g, f, T)
<1>1. Adds(g, f, T)
    BY AddsExists
<1> HIDE DEF g
<1>2. g[T] = IF T = {} THEN 0 ELSE f[Pick(T)] + g[T \ {Pick(T)}]
    BY <1>1 DEF Adds
<1>3. ASSUME T # {} PROVE g[T \ {Pick(T)}] = Sum(f, T \ {Pick(T)})
    <2> DEFINE v == T \ {Pick(T)}
               k == CHOOSE k : Adds(k, f, v)
    <2>1. v \in SUBSET S /\ v \subseteq T
        OBVIOUS
    <2>2. Adds(k, f, v)
        BY <2>1, AddsExists
    <2> HIDE DEF v, k
    <2>3. g[v] = k[v]
        BY <1>1, <2>1, <2>2, AddsUnique
    <2> QED BY <2>3 DEF v, k, Sum
<1> QED BY <1>2, <1>3 DEF g, Sum

-----------------------------------------------------------------------------
(* Facts about sums of integers. *)

\* A sum of integers is one, and any element may be taken out of it.
THEOREM SumAt ==
    ASSUME NEW S, IsFiniteSet(S), NEW f, \A x \in S : f[x] \in Int
    PROVE  \A T \in SUBSET S :
               /\ Sum(f, T) \in Int
               /\ T = {} => Sum(f, T) = 0
               /\ \A x \in T : Sum(f, T) = f[x] + Sum(f, T \ {x})
<1> DEFINE Fine(T) == /\ Sum(f, T) \in Int
                      /\ \A x \in T : Sum(f, T) = f[x] + Sum(f, T \ {x})
           Good == {T \in SUBSET S : Fine(T)}
<1>1. ASSUME NEW T \in SUBSET S, \A U \in SUBSET T : U # T => U \in Good
      PROVE  Fine(T)
    <2> DEFINE p == Pick(T)
    <2>1. Sum(f, T) = IF T = {} THEN 0 ELSE f[p] + Sum(f, T \ {p})
        <3>1. \A U \in SUBSET S :
                 Sum(f, U) = IF U = {} THEN 0 ELSE f[Pick(U)] + Sum(f, U \ {Pick(U)})
            <4> HIDE DEF Fine, Good
            <4> QED BY SumPicked
        <3> QED BY <3>1
    <2>2. T # {} => p \in T /\ p \in S
        BY PickIn
    <2>3. \A x \in T : Fine(T \ {x})
        BY <1>1
    <2> HIDE DEF p
    <2>4. Sum(f, T) \in Int
        BY <2>1, <2>2, <2>3
    <2>5. ASSUME NEW x \in T PROVE Sum(f, T) = f[x] + Sum(f, T \ {x})
        <3>1. CASE x = p
            BY <2>1, <3>1
        <3>2. CASE x # p
            <4>1. Sum(f, T) = f[p] + Sum(f, T \ {p})
                BY <2>1
            <4>2. Sum(f, T \ {p}) = f[x] + Sum(f, (T \ {p}) \ {x})
                BY <2>2, <2>3, <3>2
            <4>3. Sum(f, T \ {x}) = f[p] + Sum(f, (T \ {x}) \ {p})
                BY <2>2, <2>3, <3>2
            <4>4. (T \ {p}) \ {x} = (T \ {x}) \ {p}
                OBVIOUS
            <4>5. Fine((T \ {p}) \ {x})
                <5>1. (T \ {p}) \ {x} \in SUBSET T /\ (T \ {p}) \ {x} # T
                    BY <2>2
                <5> QED BY <1>1, <5>1
            <4>6. f[x] \in Int /\ f[p] \in Int
                BY <2>2
            <4> DEFINE rest == Sum(f, (T \ {p}) \ {x})
            <4>7. rest \in Int
                BY <4>5
            <4>8. Sum(f, T \ {x}) = f[p] + rest /\ Sum(f, T) = f[p] + (f[x] + rest)
                BY <4>1, <4>2, <4>3, <4>4
            <4> HIDE DEF rest
            <4> QED BY <4>6, <4>7, <4>8
        <3> QED BY <3>1, <3>2
    <2> QED BY <2>4, <2>5
<1> HIDE DEF Fine
<1>2. \A T \in SUBSET S : T \in Good
    <2>1. \A T \in SUBSET S : (\A U \in SUBSET T : U # T => U \in Good) => T \in Good
        BY <1>1
    <2> HIDE DEF Good
    <2> QED BY <2>1, SubsetInduction
<1>3. \A T \in SUBSET S : T = {} => Sum(f, T) = 0
    BY SumPicked
<1> QED BY <1>2, <1>3 DEF Fine

\* Sums of functions that agree on the set are equal.
LEMMA SumSame ==
    ASSUME NEW S, IsFiniteSet(S), NEW f, NEW g, \A x \in S : f[x] = g[x]
    PROVE  \A T \in SUBSET S : Sum(f, T) = Sum(g, T)
<1> DEFINE Good == {T \in SUBSET S : Sum(f, T) = Sum(g, T)}
<1>1. ASSUME NEW T \in SUBSET S, \A U \in SUBSET T : U # T => U \in Good
      PROVE  T \in Good
    <2>1. /\ Sum(f, T) = IF T = {} THEN 0 ELSE f[Pick(T)] + Sum(f, T \ {Pick(T)})
          /\ Sum(g, T) = IF T = {} THEN 0 ELSE g[Pick(T)] + Sum(g, T \ {Pick(T)})
        <3> HIDE DEF Good
        <3> QED BY SumPicked
    <2>2. T # {} => Pick(T) \in T /\ T \ {Pick(T)} \in Good
        BY <1>1, PickIn
    <2> QED BY <2>1, <2>2
<1> HIDE DEF Good
<1>2. \A T \in SUBSET S : T \in Good
    BY <1>1, SubsetInduction
<1> QED BY <1>2 DEF Good

\* A sum of natural numbers is one, and no less than the sum of fewer of them.
LEMMA SumNat ==
    ASSUME NEW S, IsFiniteSet(S), NEW f, \A x \in S : f[x] \in Nat
    PROVE  \A T \in SUBSET S :
               Sum(f, T) \in Nat /\ \A U \in SUBSET T : Sum(f, U) <= Sum(f, T)
<1> DEFINE Fine(T) == Sum(f, T) \in Nat /\ \A U \in SUBSET T : Sum(f, U) <= Sum(f, T)
           Good == {T \in SUBSET S : Fine(T)}
<1>0. \A x \in S : f[x] \in Int
    OBVIOUS
<1>1. ASSUME NEW T \in SUBSET S, \A U \in SUBSET T : U # T => U \in Good
      PROVE  Fine(T)
    <2>1. /\ T = {} => Sum(f, T) = 0
          /\ \A x \in T : Sum(f, T) = f[x] + Sum(f, T \ {x})
        <3> HIDE DEF Good, Fine
        <3> QED BY <1>0, SumAt
    <2>2. \A x \in T : Fine(T \ {x})
        BY <1>1
    <2>3. Sum(f, T) \in Nat
        <3>1. CASE T = {}
            BY <2>1, <3>1
        <3>2. ASSUME NEW x \in T PROVE Sum(f, T) \in Nat
            <4>1. Sum(f, T) = f[x] + Sum(f, T \ {x}) /\ Sum(f, T \ {x}) \in Nat
                BY <2>1, <2>2
            <4>2. f[x] \in Nat
                OBVIOUS
            <4> QED BY <4>1, <4>2
        <3> QED BY <3>1, <3>2
    <2>4. ASSUME NEW U \in SUBSET T PROVE Sum(f, U) <= Sum(f, T)
        <3>1. CASE U = T
            BY <2>3, <3>1
        <3>2. CASE U # T
            <4>1. PICK x \in T : x \notin U
                BY <3>2
            <4>2. U \in SUBSET (T \ {x})
                BY <4>1
            <4>3. Sum(f, T \ {x}) \in Nat /\ Sum(f, U) <= Sum(f, T \ {x})
                BY <2>2, <4>2
            <4>4. U \in SUBSET S /\ x \in S /\ f[x] \in Nat
                BY <4>1
            <4>5. Sum(f, U) \in Int
                <5> HIDE DEF Good, Fine
                <5> QED BY <1>0, <4>4, SumAt
            <4>6. Sum(f, T) = f[x] + Sum(f, T \ {x})
                BY <2>1
            <4> QED BY <4>3, <4>4, <4>5, <4>6
        <3> QED BY <3>1, <3>2
    <2> QED BY <2>3, <2>4
<1> HIDE DEF Fine
<1>2. \A T \in SUBSET S : T \in Good
    <2>1. \A T \in SUBSET S : (\A U \in SUBSET T : U # T => U \in Good) => T \in Good
        BY <1>1
    <2> HIDE DEF Good
    <2> QED BY <2>1, SubsetInduction
<1> QED BY <1>2 DEF Fine

\* One element, which may be in the set or not, and the others.
LEMMA SumWithout ==
    ASSUME NEW S, IsFiniteSet(S), NEW f, \A x \in S : f[x] \in Nat, NEW r
    PROVE  /\ Sum(f, S \ {r}) \in Nat
           /\ Sum(f, S) = (IF r \in S THEN f[r] ELSE 0) + Sum(f, S \ {r})
<1>1. S \ {r} \in SUBSET S /\ S \in SUBSET S
    OBVIOUS
<1>2. Sum(f, S \ {r}) \in Nat
    BY <1>1, SumNat
<1>3. CASE r \in S
    <2>1. \A x \in S : f[x] \in Int
        OBVIOUS
    <2>2. Sum(f, S) = f[r] + Sum(f, S \ {r})
        BY <1>1, <1>3, <2>1, SumAt
    <2> QED BY <1>2, <1>3, <2>2
<1>4. CASE r \notin S
    <2>1. S \ {r} = S
        BY <1>4
    <2> QED BY <1>2, <1>4, <2>1
<1> QED BY <1>2, <1>3, <1>4

-----------------------------------------------------------------------------
(* MapThenSumSet is that sum. *)

\* The hours of some leaves, and those of them that are paid.
TotalsOf(rows, S) == MapThenSumSet(LAMBDA r : rows[r].total, S)

PaidOf(rows, S) == MapThenSumSet(LAMBDA r : rows[r].paid, S)

\* The fold of the total hours is a sum.
LEMMA TotalsAdd ==
    ASSUME NEW S, IsFiniteSet(S), NEW f, NEW rows, \A x \in S : f[x] = rows[x].total
    PROVE  TotalsOf(rows, S) = Sum(f, S)
<1> DEFINE E(g) == g = [s \in SUBSET S |->
                          IF s = {} THEN 0
                          ELSE rows[CHOOSE x \in s : TRUE].total
                                 + g[s \ {CHOOSE x \in s : TRUE}]]
           h == CHOOSE g : E(g)
<1>1. TotalsOf(rows, S) = h[S]
    BY DEF TotalsOf, MapThenSumSet, MapThenFoldSet
<1>2. ASSUME NEW g PROVE E(g) <=> Adds(g, f, S)
    <2>1. \A s \in SUBSET S : s # {} =>
             rows[CHOOSE x \in s : TRUE].total = f[Pick(s)]
        BY PickIn DEF Pick
    <2>2. [s \in SUBSET S |-> IF s = {} THEN 0
                             ELSE rows[CHOOSE x \in s : TRUE].total
                                    + g[s \ {CHOOSE x \in s : TRUE}]]
            = [s \in SUBSET S |-> IF s = {} THEN 0 ELSE f[Pick(s)] + g[s \ {Pick(s)}]]
        BY <2>1 DEF Pick
    <2> QED BY <2>2 DEF Adds
<1> HIDE DEF E
<1>3. \E g : E(g)
    BY <1>2, AddsExists
<1>4. E(h)
    BY <1>3
<1> HIDE DEF h
<1>5. PICK k : k = (CHOOSE g : Adds(g, f, S))
    OBVIOUS
<1>6. Adds(k, f, S)
    BY <1>5, AddsExists
<1>7. h[S] = k[S]
    BY <1>2, <1>4, <1>6, AddsUnique
<1> QED BY <1>1, <1>5, <1>7 DEF Sum

\* The fold of the paid hours is a sum.
LEMMA PaidAdd ==
    ASSUME NEW S, IsFiniteSet(S), NEW f, NEW rows, \A x \in S : f[x] = rows[x].paid
    PROVE  PaidOf(rows, S) = Sum(f, S)
<1> DEFINE E(g) == g = [s \in SUBSET S |->
                          IF s = {} THEN 0
                          ELSE rows[CHOOSE x \in s : TRUE].paid
                                 + g[s \ {CHOOSE x \in s : TRUE}]]
           h == CHOOSE g : E(g)
<1>1. PaidOf(rows, S) = h[S]
    BY DEF PaidOf, MapThenSumSet, MapThenFoldSet
<1>2. ASSUME NEW g PROVE E(g) <=> Adds(g, f, S)
    <2>1. \A s \in SUBSET S : s # {} =>
             rows[CHOOSE x \in s : TRUE].paid = f[Pick(s)]
        BY PickIn DEF Pick
    <2>2. [s \in SUBSET S |-> IF s = {} THEN 0
                             ELSE rows[CHOOSE x \in s : TRUE].paid
                                    + g[s \ {CHOOSE x \in s : TRUE}]]
            = [s \in SUBSET S |-> IF s = {} THEN 0 ELSE f[Pick(s)] + g[s \ {Pick(s)}]]
        BY <2>1 DEF Pick
    <2> QED BY <2>2 DEF Adds
<1> HIDE DEF E
<1>3. \E g : E(g)
    BY <1>2, AddsExists
<1>4. E(h)
    BY <1>3
<1> HIDE DEF h
<1>5. PICK k : k = (CHOOSE g : Adds(g, f, S))
    OBVIOUS
<1>6. Adds(k, f, S)
    BY <1>5, AddsExists
<1>7. h[S] = k[S]
    BY <1>2, <1>4, <1>6, AddsUnique
<1> QED BY <1>1, <1>5, <1>7 DEF Sum
=============================================================================
