-------------------------------- MODULE Numbers --------------------------------
(***************************************************************************)
(* Sets of natural numbers have a least element, and a greatest one if     *)
(* they are bounded.  From that follow induction over a set, and that      *)
(* functions defined by recursion exist; the library's theorems on both    *)
(* are about operators, which the provers cannot instantiate.              *)
(***************************************************************************)
EXTENDS FiniteSetTheorems, TLAPS

\* A set of numbers with a bound has a greatest one: otherwise adding one would
\* map the numbers below it one to one into those above 0.
LEMMA GreatestExists ==
  ASSUME NEW n \in Nat, NEW F \in SUBSET (0..n), F # {}
  PROVE  \E m \in F : \A k \in F : k <= m
<1> SUFFICES ASSUME \A m \in F : \E k \in F : m < k PROVE FALSE
  OBVIOUS
<1> DEFINE D == {x \in 0..n : \E k \in F : x <= k}
           f == [x \in D |-> x + 1]
<1>1. 0 \in D
  <2>1. PICK k \in F : TRUE
    OBVIOUS
  <2> QED BY <2>1
<1>2. \A x \in D : x + 1 \in D \ {0}
  <2> TAKE x \in D
  <2>1. PICK k \in F : x <= k
    OBVIOUS
  <2>2. PICK l \in F : k < l
    OBVIOUS
  <2> QED BY <2>1, <2>2
<1>3. IsFiniteSet(D)
  <2>1. IsFiniteSet(0..n)
    BY FS_Interval
  <2>2. D \in SUBSET (0..n)
    OBVIOUS
  <2> HIDE DEF D
  <2> QED BY <2>1, <2>2, FS_Subset
<1>4. /\ IsFiniteSet(D \ {0})
      /\ Cardinality(D \ {0}) = Cardinality(D) - 1
      /\ Cardinality(D) \in Nat
  BY <1>1, <1>3, FS_RemoveElement, FS_CardinalityType
<1>5. f \in [D -> D \ {0}]
  BY <1>2
<1> HIDE DEF D
<1>6. PICK x, y \in D : x # y /\ f[x] = f[y]
  <2> HIDE DEF f
  <2> QED BY <1>3, <1>4, <1>5, FS_PigeonHole
<1> QED BY <1>6 DEF D

\* A set of numbers has a least one: it is the mirror image of a bounded one.
LEMMA LeastExists ==
  ASSUME NEW S \in SUBSET Nat, S # {}
  PROVE  \E m \in S : \A k \in S : m <= k
<1>1. PICK n \in S : TRUE
  OBVIOUS
<1> DEFINE F == {x \in 0..n : n - x \in S}
<1>2. F \in SUBSET (0..n) /\ F # {}
  <2> 0 \in F
    OBVIOUS
  <2> QED OBVIOUS
<1>3. PICK m \in F : \A k \in F : k <= m
  <2> HIDE DEF F
  <2> QED BY <1>2, GreatestExists
<1>4. n - m \in S /\ m \in 0..n
  OBVIOUS
<1>5. ASSUME NEW k \in S PROVE n - m <= k
  <2>1. CASE k > n
    BY <1>4, <2>1
  <2>2. CASE k <= n
    <3>1. n - k \in F
      BY <2>2
    <3> QED BY <1>3, <1>4, <3>1, <2>2
  <2> QED BY <2>1, <2>2
<1> QED BY <1>4, <1>5

\* Induction: a set that has 0 and with every number the next one has them all.
LEMMA Induction ==
  ASSUME NEW S, 0 \in S, \A n \in Nat : n \in S => n + 1 \in S
  PROVE  \A n \in Nat : n \in S
<1> DEFINE T == {n \in Nat : n \notin S}
<1> SUFFICES ASSUME T # {} PROVE FALSE
  OBVIOUS
<1>1. T \in SUBSET Nat
  OBVIOUS
<1>2. PICK m \in T : \A k \in T : m <= k
  <2> HIDE DEF T
  <2> QED BY <1>1, LeastExists
<1>3. m \in Nat /\ m \notin S /\ m # 0
  OBVIOUS
<1>4. m - 1 \in Nat /\ m - 1 \in S
  <2>1. m - 1 \in Nat /\ ~(m <= m - 1)
    BY <1>3
  <2> QED BY <1>2, <2>1
<1> QED BY <1>3, <1>4

\* And downward: what holds of a number if it holds of the larger ones, up to n.
LEMMA Downward ==
  ASSUME NEW n \in Nat, NEW S,
         \A p \in 1..n : (\A q \in 1..n : q > p => q \in S) => p \in S
  PROVE  \A p \in 1..n : p \in S
<1> DEFINE F == {p \in 1..n : p \notin S}
<1> SUFFICES ASSUME F # {} PROVE FALSE
  OBVIOUS
<1>1. F \in SUBSET (0..n)
  OBVIOUS
<1>2. PICK m \in F : \A k \in F : k <= m
  <2> HIDE DEF F
  <2> QED BY <1>1, GreatestExists
<1>3. m \in 1..n /\ m \notin S
  OBVIOUS
<1>4. \A q \in 1..n : q > m => q \in S
  <2> TAKE q \in 1..n
  <2>1. q \in F => q <= m
    BY <1>2
  <2> QED BY <1>3, <2>1
<1> QED BY <1>3, <1>4

\* There is a function with a given first value and a given step.
StepsIn(G, n, V) == \A i \in 1..n : \A x \in V : G[<<i, x>>] \in V
Made(f, v, G, n, V) == /\ f \in [0..n -> V] /\ f[0] = v
                       /\ \A i \in 1..n : f[i] = G[<<i, f[i - 1]>>]
LEMMA RecursionExists ==
  ASSUME NEW V, NEW v \in V, NEW n \in Nat, NEW G, StepsIn(G, n, V)
  PROVE  \E f : Made(f, v, G, n, V)
<1> USE DEF Made
<1> DEFINE S == {k \in Nat : k <= n => \E f : Made(f, v, G, k, V)}
<1>1. 0 \in S
  <2>1. Made([i \in 0..0 |-> v], v, G, 0, V)
    OBVIOUS
  <2> QED BY <2>1
<1>2. ASSUME NEW k \in Nat, k \in S PROVE k + 1 \in S
  <2> SUFFICES ASSUME k + 1 <= n PROVE \E f : Made(f, v, G, k + 1, V)
    OBVIOUS
  <2>1. PICK f : Made(f, v, G, k, V)
    BY <1>2
  <2>2. f[k] \in V /\ G[<<k + 1, f[k]>>] \in V
    BY <2>1 DEF StepsIn
  <2> DEFINE g == [i \in 0..(k + 1) |-> IF i = k + 1 THEN G[<<k + 1, f[k]>>] ELSE f[i]]
  <2>3. \A i \in 0..k : i \in 0..(k + 1) /\ i # k + 1 /\ g[i] = f[i] /\ f[i] \in V
    BY <2>1
  <2>4. g \in [0..(k + 1) -> V] /\ g[0] = v
    <3>1. ASSUME NEW i \in 0..(k + 1) PROVE g[i] \in V
      <4>1. CASE i = k + 1
        BY <2>2, <4>1
      <4>2. CASE i # k + 1
        <5>1. i \in 0..k
          BY <4>2
        <5> QED BY <2>3, <5>1
      <4> QED BY <4>1, <4>2
    <3>2. 0 \in 0..k
      OBVIOUS
    <3>3. g[0] = v
      BY <2>1, <2>3, <3>2
    <3>4. g = [i \in 0..(k + 1) |-> g[i]]
      OBVIOUS
    <3> HIDE DEF g
    <3> QED BY <3>1, <3>3, <3>4
  <2>5. g[k + 1] = G[<<k + 1, g[k]>>]
    <3>1. k \in 0..k /\ k + 1 \in 0..(k + 1)
      OBVIOUS
    <3>2. g[k + 1] = G[<<k + 1, f[k]>>]
      BY <3>1
    <3> HIDE DEF g
    <3> QED BY <2>3, <3>1, <3>2
  <2> HIDE DEF g
  <2>6. ASSUME NEW i \in 1..(k + 1) PROVE g[i] = G[<<i, g[i - 1]>>]
    <3>1. CASE i = k + 1
      BY <2>5, <3>1
    <3>2. CASE i # k + 1
      <4>1. i \in 1..k /\ i \in 0..k /\ i - 1 \in 0..k
        BY <3>2
      <4> QED BY <2>1, <2>3, <4>1
    <3> QED BY <3>1, <3>2
  <2> QED BY <2>4, <2>6
<1>3. n \in S
  <2> HIDE DEF S
  <2> QED BY <1>1, <1>2, Induction
<1> QED BY <1>3
=============================================================================
