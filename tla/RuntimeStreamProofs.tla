-------------------------- MODULE RuntimeStreamProofs --------------------------
(***************************************************************************)
(* For every stream of pieces the child may write and every place the pipe *)
(* may cut it: what is split, what is recorded and what a run that         *)
(* succeeds has in its chain.                                              *)
(***************************************************************************)
EXTENDS RuntimeStream, FiniteSetTheorems, FunctionTheorems, SequenceTheorems,
        WellFoundedInduction, TLAPS

-----------------------------------------------------------------------------
(* The elements of a set of numbers in order.                              *)

IsOrder(f, S) ==
    /\ f \in [1..Cardinality(S) -> S]
    /\ \A i, j \in 1..Cardinality(S) : i < j => f[i] < f[j]

\* A set of numbers that has an element has a least one.
LEMMA Least ==
    ASSUME NEW T \in SUBSET Nat, T # {}
    PROVE  \E x \in T : \A y \in T : ~ (y < x)
<1>1. \E x \in T : \A y \in T : ~ (<<y, x>> \in OpToRel(<, Nat))
  BY NatLessThanWellFounded, WFMin, Zenon
<1> QED
  BY <1>1 DEF OpToRel

\* An order of a set leaves none of its elements out.
LEMMA OrderOnto ==
    ASSUME NEW S \in SUBSET Nat, IsFiniteSet(S), NEW f, IsOrder(f, S)
    PROVE  /\ Cardinality(S) \in Nat
           /\ \A x \in S : \E i \in 1..Cardinality(S) : f[i] = x
<1>1. PICK n \in Nat : n = Cardinality(S)
  BY FS_CardinalityType
<1>2. /\ f \in [1..n -> S] /\ \A i, j \in 1..n : i < j => f[i] < f[j]
  BY <1>1 DEF IsOrder
<1>3. \A i, j \in 1..n : f[i] = f[j] => i = j
  <2> SUFFICES ASSUME NEW i \in 1..n, NEW j \in 1..n, f[i] = f[j], i # j
               PROVE  FALSE
    OBVIOUS
  <2>1. f[i] \in Nat /\ f[j] \in Nat
    BY <1>2
  <2>2. f[i] < f[j] \/ f[j] < f[i]
    BY <1>2
  <2> QED
    BY <2>1, <2>2
<1>4. f \in Injection(1..n, S)
  BY <1>2, <1>3, Fun_IsInj
<1>5. IsFiniteSet(1..n) /\ Cardinality(1..n) = n
  BY FS_Interval
<1>6. f \in Surjection(1..n, S)
  BY <1>1, <1>4, <1>5, FS_Injection
<1> QED
  BY <1>1, <1>6, Fun_SurjectionProperties

\* There is only one order: at the first difference one of the two skips an element.
LEMMA OrderUnique ==
    ASSUME NEW S \in SUBSET Nat, IsFiniteSet(S), NEW f, IsOrder(f, S), NEW g, IsOrder(g, S)
    PROVE  f = g
<1>1. PICK n \in Nat : n = Cardinality(S)
  BY FS_CardinalityType
<1>2. /\ f \in [1..n -> S] /\ g \in [1..n -> S]
      /\ \A i, j \in 1..n : (i < j => f[i] < f[j]) /\ (i < j => g[i] < g[j])
  BY <1>1 DEF IsOrder
<1>3. \A x \in S : (\E i \in 1..n : f[i] = x) /\ (\E i \in 1..n : g[i] = x)
  BY <1>1, OrderOnto
<1>4. ASSUME NEW i \in 1..n, \A k \in 1..n : k < i => f[k] = g[k]
      PROVE  f[i] = g[i]
  <2>1. f[i] \in Nat /\ g[i] \in Nat /\ f[i] \in S /\ g[i] \in S
    BY <1>2
  <2>2. ~ (f[i] < g[i])
    <3> SUFFICES ASSUME f[i] < g[i]
                 PROVE  FALSE
      OBVIOUS
    <3>1. PICK k \in 1..n : g[k] = f[i]
      BY <1>3, <2>1
    <3>2. k < i
      <4>1. CASE i < k
        BY <1>2, <2>1, <3>1, <4>1
      <4> QED
        BY <2>1, <3>1, <4>1
    <3>3. f[k] = f[i] /\ f[k] < f[i]
      BY <1>2, <1>4, <3>1, <3>2
    <3> QED
      BY <2>1, <3>3
  <2>3. ~ (g[i] < f[i])
    <3> SUFFICES ASSUME g[i] < f[i]
                 PROVE  FALSE
      OBVIOUS
    <3>1. PICK k \in 1..n : f[k] = g[i]
      BY <1>3, <2>1
    <3>2. k < i
      <4>1. CASE i < k
        BY <1>2, <2>1, <3>1, <4>1
      <4> QED
        BY <2>1, <3>1, <4>1
    <3>3. g[k] = g[i] /\ g[k] < g[i]
      BY <1>2, <1>4, <3>1, <3>2
    <3> QED
      BY <2>1, <3>3
  <2> QED
    BY <2>1, <2>2, <2>3
<1>5. \A i \in 1..n : f[i] = g[i]
  <2> SUFFICES ASSUME \E i \in 1..n : f[i] # g[i]
               PROVE  FALSE
    OBVIOUS
  <2>1. PICK T : T = {i \in 1..n : f[i] # g[i]}
    OBVIOUS
  <2>2. T \in SUBSET Nat /\ T # {}
    BY <2>1
  <2>3. PICK i \in T : \A k \in T : ~ (k < i)
    BY <2>2, Least
  <2>4. i \in 1..n /\ f[i] # g[i] /\ \A k \in 1..n : k < i => f[k] = g[k]
    BY <2>1, <2>3
  <2> QED
    BY <1>4, <2>4
<1> QED
  BY <1>2, <1>5

\* The order of S and one more element, above those of S.
LEMMA OrderAdd ==
    ASSUME NEW S \in SUBSET Nat, IsFiniteSet(S), NEW f, IsOrder(f, S),
           NEW x \in Nat, \A y \in S : y < x
    PROVE  \E g : IsOrder(g, S \cup {x})
<1>1. PICK n \in Nat : n = Cardinality(S)
  BY FS_CardinalityType
<1>2. f \in [1..n -> S] /\ \A i, j \in 1..n : i < j => f[i] < f[j]
  BY <1>1 DEF IsOrder
<1>3. x \notin S
  OBVIOUS
<1>4. Cardinality(S \cup {x}) = n + 1
  BY <1>1, <1>3, FS_AddElement
<1>5. PICK g : g = [i \in 1..(n + 1) |-> IF i = n + 1 THEN x ELSE f[i]]
  OBVIOUS
<1>6. g[n + 1] = x /\ \A i \in 1..n : g[i] = f[i] /\ g[i] \in S
  BY <1>2, <1>5
<1>7. g \in [1..(n + 1) -> S \cup {x}]
  <2>1. \A i \in 1..(n + 1) : i = n + 1 \/ i \in 1..n
    OBVIOUS
  <2>2. \A i \in 1..(n + 1) : g[i] \in S \cup {x}
    BY <1>6, <2>1
  <2> QED
    BY <1>5, <2>2
<1>8. ASSUME NEW i \in 1..(n + 1), NEW j \in 1..(n + 1), i < j
      PROVE  g[i] < g[j]
  <2>1. i \in 1..n
    BY <1>8
  <2>2. CASE j = n + 1
    BY <1>6, <2>1, <2>2
  <2>3. CASE j # n + 1
    BY <1>2, <1>6, <1>8, <2>1, <2>3
  <2> QED
    BY <2>2, <2>3
<1> QED
  BY <1>4, <1>7, <1>8 DEF IsOrder

\* There is an order: for the numbers up to n, by induction on n.
LEMMA OrderExists ==
    ASSUME NEW n \in Nat, NEW S \in SUBSET (1..n)
    PROVE  IsFiniteSet(S) /\ \E f : IsOrder(f, S)
<1>1. PICK T : T = {k \in Nat : \E U \in SUBSET (1..k) : ~ \E f : IsOrder(f, U)}
  OBVIOUS
<1>2. ASSUME NEW k \in Nat, NEW U \in SUBSET (1..k)
      PROVE  IsFiniteSet(U)
  <2>1. IsFiniteSet(1..k)
    BY FS_Interval
  <2> QED
    BY <2>1, FS_Subset
<1>3. T = {}
  <2> SUFFICES ASSUME T # {}
               PROVE  FALSE
    OBVIOUS
  <2>1. T \in SUBSET Nat
    BY <1>1
  <2>2. PICK k \in T : \A m \in T : ~ (m < k)
    BY <2>1, Least
  <2>3. k \in Nat /\ \E U \in SUBSET (1..k) : ~ \E f : IsOrder(f, U)
    BY <1>1, <2>2
  <2>4. PICK U \in SUBSET (1..k) : ~ \E f : IsOrder(f, U)
    BY <2>3
  <2>5. CASE k = 0
    <3>1. U = {}
      BY <2>5
    <3>2. Cardinality(U) = 0
      BY <3>1, FS_EmptySet
    <3>3. IsOrder([i \in 1..0 |-> i], U)
      BY <3>1, <3>2 DEF IsOrder
    <3> QED
      BY <2>4, <3>3
  <2>6. CASE k # 0
    <3>1. k - 1 \in Nat /\ k - 1 \notin T
      BY <2>2, <2>3, <2>6
    <3>2. PICK V : V = U \ {k}
      OBVIOUS
    <3>3. V \in SUBSET (1..(k - 1)) /\ V \in SUBSET Nat
      BY <2>3, <3>2
    <3>4. PICK f : IsOrder(f, V)
      BY <1>1, <3>1, <3>3
    <3>5. CASE k \notin U
      BY <2>4, <3>2, <3>4, <3>5
    <3>6. CASE k \in U
      <4>1. U = V \cup {k} /\ \A y \in V : y < k
        BY <2>3, <3>2, <3>3, <3>6
      <4>2. \E g : IsOrder(g, V \cup {k})
        BY <1>2, <2>3, <3>1, <3>3, <3>4, <4>1, OrderAdd
      <4> QED
        BY <2>4, <4>1, <4>2
    <3> QED
      BY <3>5, <3>6
  <2> QED
    BY <2>5, <2>6
<1> QED
  BY <1>1, <1>2, <1>3

\* What the operator of the model chooses is that order.
LEMMA AscendingOrders ==
    ASSUME NEW n \in Nat, NEW S \in SUBSET (1..n)
    PROVE  /\ IsOrder(Ascending(S), S) /\ IsFiniteSet(S) /\ Cardinality(S) \in Nat
           /\ \A i \in 1..Cardinality(S) : Ascending(S)[i] \in S
           /\ \A f : IsOrder(f, S) => f = Ascending(S)
<1>1. IsFiniteSet(S) /\ Cardinality(S) \in Nat /\ S \in SUBSET Nat
  BY OrderExists, FS_CardinalityType
<1>2. \E f \in [1..Cardinality(S) -> S] : \A i, j \in DOMAIN f : i < j => f[i] < f[j]
  BY OrderExists DEF IsOrder
<1>3. IsOrder(Ascending(S), S)
  <2>1. /\ Ascending(S) \in [1..Cardinality(S) -> S]
        /\ \A i, j \in DOMAIN Ascending(S) : i < j => Ascending(S)[i] < Ascending(S)[j]
    BY <1>2 DEF Ascending
  <2> QED
    BY <2>1 DEF IsOrder
<1>4. \A f : IsOrder(f, S) => f = Ascending(S)
  BY <1>1, <1>3, OrderUnique
<1> QED
  BY <1>1, <1>3, <1>4 DEF IsOrder

\* The places of two texts put one after the other: those of the first, then
\* those of the second, moved.
Joined(S, n, T) == S \cup {n + y : y \in T}

LEMMA OrderJoin ==
    ASSUME NEW n \in Nat, NEW m \in Nat, NEW S \in SUBSET (1..n), NEW T \in SUBSET (1..m)
    PROVE  /\ Joined(S, n, T) \in SUBSET (1..(n + m))
           /\ Cardinality(Joined(S, n, T)) = Cardinality(S) + Cardinality(T)
           /\ \A i \in 1..Cardinality(S) : Ascending(Joined(S, n, T))[i] = Ascending(S)[i]
           /\ \A i \in 1..Cardinality(T) :
                 Ascending(Joined(S, n, T))[Cardinality(S) + i] = n + Ascending(T)[i]
<1>1. PICK U : U = Joined(S, n, T)
  OBVIOUS
<1>2. PICK s \in Nat, t \in Nat : s = Cardinality(S) /\ t = Cardinality(T)
  BY AscendingOrders
<1>3. PICK f, h : f = Ascending(S) /\ h = Ascending(T)
  OBVIOUS
<1>4. /\ f \in [1..s -> S] /\ \A i, j \in 1..s : i < j => f[i] < f[j]
      /\ h \in [1..t -> T] /\ \A i, j \in 1..t : i < j => h[i] < h[j]
  BY <1>2, <1>3, AscendingOrders DEF IsOrder
<1>5. /\ \A x \in S : \E i \in 1..s : f[i] = x
      /\ \A x \in T : \E i \in 1..t : h[i] = x
  <2>1. S \in SUBSET Nat /\ T \in SUBSET Nat
    OBVIOUS
  <2>2. IsFiniteSet(S) /\ IsFiniteSet(T) /\ IsOrder(f, S) /\ IsOrder(h, T)
    BY <1>3, AscendingOrders
  <2>3. \A x \in S : \E i \in 1..Cardinality(S) : f[i] = x
    BY <2>1, <2>2, OrderOnto
  <2>4. \A x \in T : \E i \in 1..Cardinality(T) : h[i] = x
    BY <2>1, <2>2, OrderOnto
  <2> QED
    BY <1>2, <2>3, <2>4
<1>6. \A x : x \in U <=> x \in S \/ \E y \in T : x = n + y
  BY <1>1 DEF Joined
<1>7. U \in SUBSET (1..(n + m)) /\ \A y \in T : n + y \in U /\ n + y \in 1..(n + m)
  <2>1. \A y \in T : y \in 1..m /\ n + y \in 1..(n + m)
    OBVIOUS
  <2>2. \A x \in S : x \in 1..(n + m)
    OBVIOUS
  <2> QED
    BY <1>6, <2>1, <2>2
<1>8. PICK g : g = [i \in 1..(s + t) |-> IF i <= s THEN f[i] ELSE n + h[i - s]]
  OBVIOUS
<1>9. /\ \A i \in 1..s : g[i] = f[i] /\ f[i] \in S /\ f[i] \in 1..n
      /\ \A i \in 1..t : /\ g[s + i] = n + h[i] /\ h[i] \in T /\ h[i] \in 1..m
                         /\ g[s + i] \in U
  <2>1. \A i \in 1..s : i \in 1..(s + t) /\ i <= s /\ f[i] \in S
    BY <1>4
  <2>2. \A i \in 1..s : g[i] = f[i] /\ f[i] \in S /\ f[i] \in 1..n
    BY <1>8, <2>1
  <2>3. \A i \in 1..t : h[i] \in T /\ h[i] \in 1..m
    BY <1>4
  <2>4. \A i \in 1..t : s + i \in 1..(s + t) /\ ~ (s + i <= s) /\ (s + i) - s = i
    OBVIOUS
  <2>5. \A i \in 1..t : g[s + i] = n + h[i]
    BY <1>8, <2>4
  <2> QED
    BY <1>7, <2>2, <2>3, <2>5
<1>10. \A i \in 1..(s + t) : i \in 1..s \/ (i - s \in 1..t /\ s + (i - s) = i)
  OBVIOUS
<1>11. g \in [1..(s + t) -> U]
  <2>1. \A i \in 1..(s + t) : g[i] \in U
    <3> SUFFICES ASSUME NEW i \in 1..(s + t)
                 PROVE  g[i] \in U
      OBVIOUS
    <3>1. CASE i \in 1..s
      BY <1>6, <1>9, <3>1
    <3>2. CASE i - s \in 1..t /\ s + (i - s) = i
      BY <1>9, <3>2
    <3> QED
      BY <1>10, <3>1, <3>2
  <2> QED
    BY <1>8, <2>1
<1>12. ASSUME NEW i \in 1..(s + t), NEW j \in 1..(s + t), i < j
       PROVE  g[i] < g[j]
  <2>1. CASE i \in 1..s /\ j \in 1..s
    BY <1>4, <1>9, <1>12, <2>1
  <2>2. CASE i \in 1..s /\ j \notin 1..s
    <3>1. PICK k \in 1..t : j = s + k
      BY <1>10, <2>2
    <3>2. g[i] \in 1..n /\ g[j] = n + h[k] /\ h[k] \in 1..m
      BY <1>9, <2>2, <3>1
    <3> QED
      BY <3>2
  <2>3. CASE i \notin 1..s
    <3>1. j \notin 1..s
      BY <1>12, <2>3
    <3>2. PICK k \in 1..t, l \in 1..t : i = s + k /\ j = s + l
      BY <1>10, <2>3, <3>1
    <3>3. k < l /\ g[i] = n + h[k] /\ g[j] = n + h[l] /\ h[k] \in 1..m /\ h[l] \in 1..m
      BY <1>9, <1>12, <3>2
    <3>4. h[k] < h[l]
      BY <1>4, <3>3
    <3> QED
      BY <3>3, <3>4
  <2> QED
    BY <2>1, <2>2, <2>3
<1>13. Cardinality(U) = s + t
  <2>1. \A x \in U : \E i \in 1..(s + t) : g[i] = x
    <3> SUFFICES ASSUME NEW x \in U
                 PROVE  \E i \in 1..(s + t) : g[i] = x
      OBVIOUS
    <3>1. CASE x \in S
      <4>1. PICK i \in 1..s : f[i] = x
        BY <1>5, <3>1
      <4> QED
        BY <1>9, <4>1
    <3>2. CASE x \notin S
      <4>1. PICK y \in T : x = n + y
        BY <1>6, <3>2
      <4>2. PICK i \in 1..t : h[i] = y
        BY <1>5, <4>1
      <4>3. s + i \in 1..(s + t) /\ g[s + i] = x
        BY <1>9, <4>1, <4>2
      <4> QED
        BY <4>3
    <3> QED
      BY <3>1, <3>2
  <2>2. \A i, j \in 1..(s + t) : g[i] = g[j] => i = j
    <3> SUFFICES ASSUME NEW i \in 1..(s + t), NEW j \in 1..(s + t), g[i] = g[j], i # j
                 PROVE  FALSE
      OBVIOUS
    <3>1. g[i] \in Nat /\ g[j] \in Nat
      <4>1. g[i] \in U /\ g[j] \in U
        BY <1>11
      <4>2. \A x \in U : x \in 1..(n + m) /\ x \in Nat
        BY <1>7
      <4> QED
        BY <4>1, <4>2, Zenon
    <3>2. i < j \/ j < i
      OBVIOUS
    <3>3. g[i] < g[j] \/ g[j] < g[i]
      BY <1>12, <3>2
    <3> QED
      BY <3>1, <3>3
  <2>3. g \in Bijection(1..(s + t), U)
    BY <1>11, <2>1, <2>2 DEF Bijection, Injection, Surjection, IsInjective
  <2>4. ExistsBijection(1..(s + t), U)
    BY <2>3 DEF ExistsBijection
  <2>5. s + t \in Nat
    OBVIOUS
  <2> QED
    BY <2>4, <2>5, FS_CountingElements
<1>14. g = Ascending(U)
  <2>1. IsOrder(g, U)
    BY <1>11, <1>12, <1>13 DEF IsOrder
  <2>2. n + m \in Nat
    OBVIOUS
  <2> QED
    BY <1>7, <2>1, <2>2, AscendingOrders
<1> QED
  BY <1>1, <1>2, <1>3, <1>7, <1>9, <1>13, <1>14

\* The elements chosen from a sequence are a sequence of its elements.
LEMMA ChosenSeq ==
    ASSUME NEW X, NEW a \in Seq(X), NEW S \in SUBSET (1..Len(a))
    PROVE  /\ Chosen(a, S) \in Seq(X) /\ Len(Chosen(a, S)) = Cardinality(S)
           /\ Cardinality(S) \in Nat
           /\ \A i \in 1..Cardinality(S) : Chosen(a, S)[i] = a[Ascending(S)[i]]
<1>1. Len(a) \in Nat
  OBVIOUS
<1>2. PICK k \in Nat : k = Cardinality(S)
  BY <1>1, AscendingOrders
<1>3. \A i \in 1..k : Ascending(S)[i] \in 1..Len(a)
  BY <1>1, <1>2, AscendingOrders
<1>4. \A i \in 1..k : a[Ascending(S)[i]] \in X
  BY <1>3
<1>5. [i \in 1..k |-> a[Ascending(S)[i]]] \in Seq(X)
  BY <1>4
<1> QED
  BY <1>2, <1>5 DEF Chosen

\* Concatenation under a name of its own: the provers instantiate lemmas about it
\* where they do not instantiate lemmas about \o, which they know.
Cat(a, b) == a \o b

\* What is chosen from two sequences put one after the other.
LEMMA ChosenJoin ==
    ASSUME NEW X, NEW a \in Seq(X), NEW b \in Seq(X), NEW S \in SUBSET (1..Len(a)),
           NEW T \in SUBSET (1..Len(b))
    PROVE  Chosen(Cat(a, b), Joined(S, Len(a), T)) = Cat(Chosen(a, S), Chosen(b, T))
<1>1. PICK U : U = Joined(S, Len(a), T)
  OBVIOUS
<1>2. PICK n \in Nat, m \in Nat : n = Len(a) /\ m = Len(b)
  OBVIOUS
<1>3. PICK s \in Nat, t \in Nat : s = Cardinality(S) /\ t = Cardinality(T)
  BY ChosenSeq
<1>4. /\ U \in SUBSET (1..(n + m)) /\ Cardinality(U) = s + t
      /\ \A i \in 1..s : Ascending(U)[i] = Ascending(S)[i]
      /\ \A i \in 1..t : Ascending(U)[s + i] = n + Ascending(T)[i]
  <2>1. S \in SUBSET (1..n) /\ T \in SUBSET (1..m)
    BY <1>2
  <2>2. U = Joined(S, n, T)
    BY <1>1, <1>2
  <2>3. /\ Joined(S, n, T) \in SUBSET (1..(n + m))
        /\ Cardinality(Joined(S, n, T)) = Cardinality(S) + Cardinality(T)
        /\ \A i \in 1..Cardinality(S) : Ascending(Joined(S, n, T))[i] = Ascending(S)[i]
        /\ \A i \in 1..Cardinality(T) :
              Ascending(Joined(S, n, T))[Cardinality(S) + i] = n + Ascending(T)[i]
    BY <2>1, OrderJoin, Zenon
  <2> QED
    BY <1>3, <2>2, <2>3
<1>5. /\ \A i \in 1..s : Ascending(S)[i] \in 1..n
      /\ \A i \in 1..t : Ascending(T)[i] \in 1..m
  BY <1>2, <1>3, AscendingOrders
<1>6. PICK c, u, v : c = a \o b /\ u = Chosen(a, S) /\ v = Chosen(b, T)
  OBVIOUS
<1>7. /\ c \in Seq(X) /\ Len(c) = n + m /\ \A i \in 1..n : c[i] = a[i]
      /\ \A i \in 1..m : c[n + i] = b[i]
  <2>1. /\ c \in Seq(X) /\ Len(c) = n + m
        /\ \A i \in 1..(n + m) : c[i] = IF i <= n THEN a[i] ELSE b[i - n]
    BY <1>2, <1>6, ConcatProperties
  <2>2. \A i \in 1..m : n + i \in 1..(n + m) /\ ~ (n + i <= n) /\ (n + i) - n = i
    OBVIOUS
  <2> QED
    BY <2>1, <2>2
<1>8. /\ u \in Seq(X) /\ Len(u) = s /\ \A i \in 1..s : u[i] = a[Ascending(S)[i]]
      /\ v \in Seq(X) /\ Len(v) = t /\ \A i \in 1..t : v[i] = b[Ascending(T)[i]]
  BY <1>3, <1>6, ChosenSeq
<1>9. PICK w : w = Chosen(c, U)
  OBVIOUS
<1>10. /\ w \in Seq(X) /\ Len(w) = s + t
      /\ \A i \in 1..(s + t) : w[i] = c[Ascending(U)[i]]
  <2>1. U \in SUBSET (1..Len(c))
    BY <1>4, <1>7
  <2>2. /\ Chosen(c, U) \in Seq(X) /\ Len(Chosen(c, U)) = Cardinality(U)
        /\ \A i \in 1..Cardinality(U) : Chosen(c, U)[i] = c[Ascending(U)[i]]
    BY <1>7, <2>1, ChosenSeq
  <2> QED
    BY <1>4, <1>9, <2>2
<1>11. /\ u \o v \in Seq(X) /\ Len(u \o v) = s + t
       /\ \A i \in 1..(s + t) : (u \o v)[i] = IF i <= s THEN u[i] ELSE v[i - s]
  BY <1>8, ConcatProperties
<1>12. ASSUME NEW i \in 1..(s + t)
       PROVE  w[i] = (u \o v)[i]
  <2>1. CASE i <= s
    <3>1. i \in 1..s
      BY <2>1
    <3>2. w[i] = c[Ascending(S)[i]] /\ c[Ascending(S)[i]] = a[Ascending(S)[i]]
      BY <1>4, <1>5, <1>7, <1>10, <3>1
    <3> QED
      BY <1>8, <1>11, <2>1, <3>1, <3>2
  <2>2. CASE ~ (i <= s)
    <3>1. PICK k \in 1..t : i = s + k /\ i - s = k
      BY <2>2
    <3>2. w[i] = c[n + Ascending(T)[k]]
      BY <1>4, <1>10, <3>1
    <3>3. c[n + Ascending(T)[k]] = b[Ascending(T)[k]]
      BY <1>5, <1>7, <3>1
    <3> QED
      BY <1>8, <1>11, <2>2, <3>1, <3>2, <3>3
  <2> QED
    BY <2>1, <2>2
<1>13. w = u \o v
  BY <1>10, <1>11, <1>12, SeqEqual
<1> QED
  BY <1>1, <1>6, <1>9, <1>13 DEF Cat

-----------------------------------------------------------------------------
(* Splitting a text at its newlines.                                       *)

\* Equal stretches of two sequences are the same sequence.
LEMMA Stretch ==
    ASSUME NEW X, NEW s, NEW t, NEW i \in Int, NEW j \in Int, NEW d \in Int,
           NEW u \in Int, NEW v \in Int, u = i + d, v = j + d,
           \A x \in i..j : s[x] \in X /\ t[x + d] = s[x]
    PROVE  SubSeq(t, u, v) = SubSeq(s, i, j)
<1>1. /\ SubSeq(s, i, j) \in Seq(X) /\ Len(SubSeq(s, i, j)) = IF i <= j THEN j - i + 1 ELSE 0
      /\ \A x \in 1..(j - i + 1) : SubSeq(s, i, j)[x] = s[i + x - 1]
  BY SubSeqProperties
<1>2. \A y \in u..v : y - d \in i..j /\ (y - d) + d = y
  OBVIOUS
<1>3. \A y \in u..v : t[y] \in X
  BY <1>2
<1>4. /\ SubSeq(t, u, v) \in Seq(X) /\ Len(SubSeq(t, u, v)) = IF u <= v THEN v - u + 1 ELSE 0
      /\ \A x \in 1..(v - u + 1) : SubSeq(t, u, v)[x] = t[u + x - 1]
  BY <1>3, SubSeqProperties
<1>5. Len(SubSeq(s, i, j)) = Len(SubSeq(t, u, v))
  BY <1>1, <1>4
<1>6. ASSUME NEW x \in 1..Len(SubSeq(s, i, j))
      PROVE  SubSeq(s, i, j)[x] = SubSeq(t, u, v)[x]
  <2>1. i <= j /\ x \in 1..(j - i + 1) /\ x \in 1..(v - u + 1)
    BY <1>1
  <2>2. i + x - 1 \in i..j /\ u + x - 1 = (i + x - 1) + d
    BY <2>1
  <2>3. t[u + x - 1] = s[i + x - 1]
    BY <2>2
  <2> QED
    BY <1>1, <1>4, <2>1, <2>3
<1> QED
  BY <1>1, <1>4, <1>5, <1>6, SeqEqual

LEMMA NewlinesIn ==
    ASSUME NEW X, NEW a \in Seq(X)
    PROVE  Newlines(a) \in SUBSET (1..Len(a)) /\ Cardinality(Newlines(a)) \in Nat
<1>1. Newlines(a) \in SUBSET (1..Len(a)) /\ Len(a) \in Nat
  BY DEF Newlines
<1> QED
  BY <1>1, AscendingOrders

\* Where the parts of a text start: at its first piece, then after every newline.
LEMMA StartsFacts ==
    ASSUME NEW X, NEW a \in Seq(X), NEW k, k = Cardinality(Newlines(a))
    PROVE  /\ k \in Nat /\ Starts(a) \in Seq(Nat) /\ Len(Starts(a)) = k + 1
           /\ Starts(a)[1] = 1 /\ Last(Starts(a)) = Starts(a)[k + 1]
           /\ \A j \in 1..k : Starts(a)[j + 1] = Ascending(Newlines(a))[j] + 1
           /\ \A j \in 1..k : Starts(a)[j + 1] \in 2..(Len(a) + 1)
           /\ \A j \in 1..(k + 1) : Starts(a)[j] \in 1..(Len(a) + 1)
           /\ \A x \in Newlines(a) : x < Starts(a)[k + 1]
<1>1. PICK n \in Nat : n = Len(a)
  OBVIOUS
<1>2. PICK S : S = Newlines(a)
  OBVIOUS
<1>3. S \in SUBSET (1..n) /\ k \in Nat /\ k = Cardinality(S)
  BY <1>1, <1>2, NewlinesIn
<1>4. PICK f : f = Ascending(S)
  OBVIOUS
<1>5. f \in [1..k -> S] /\ \A i, j \in 1..k : i < j => f[i] < f[j]
  BY <1>3, <1>4, AscendingOrders DEF IsOrder
<1>6. \A j \in 1..k : f[j] \in 1..n /\ f[j] + 1 \in Nat /\ f[j] + 1 \in 2..(n + 1)
  <2>1. \A j \in 1..k : f[j] \in S
    BY <1>5
  <2>2. \A x \in S : x \in 1..n
    BY <1>3
  <2>3. \A j \in 1..k : f[j] \in 1..n
    BY <2>1, <2>2
  <2> QED
    BY <2>3
<1>7. PICK h : h = [j \in 1..k |-> f[j] + 1]
  OBVIOUS
<1>8. h \in Seq(Nat) /\ Len(h) = k /\ \A j \in 1..k : h[j] = f[j] + 1
  BY <1>3, <1>6, <1>7
<1>9. PICK s : s = <<1>> \o h
  OBVIOUS
<1>10. /\ s \in Seq(Nat) /\ Len(s) = k + 1 /\ s[1] = 1
       /\ \A j \in 1..k : s[j + 1] = f[j] + 1
  <2>1. <<1>> \in Seq(Nat) /\ Len(<<1>>) = 1 /\ <<1>>[1] = 1
    OBVIOUS
  <2>2. /\ s \in Seq(Nat) /\ Len(s) = 1 + k
        /\ \A i \in 1..(1 + k) : s[i] = IF i <= 1 THEN <<1>>[i] ELSE h[i - 1]
    BY <1>8, <1>9, <2>1, ConcatProperties
  <2>3. \A j \in 1..k : j + 1 \in 1..(1 + k) /\ ~ (j + 1 <= 1) /\ (j + 1) - 1 = j
    BY <1>3
  <2>4. 1 \in 1..(1 + k)
    BY <1>3
  <2>5. \A j \in 1..k : s[j + 1] = h[j]
    BY <2>2, <2>3
  <2> QED
    BY <1>3, <1>8, <2>1, <2>2, <2>4, <2>5
<1>11. s = Starts(a)
  BY <1>2, <1>3, <1>4, <1>7, <1>9 DEF Starts
<1>12. \A j \in 1..(k + 1) : s[j] \in 1..(n + 1)
  <2> SUFFICES ASSUME NEW j \in 1..(k + 1)
               PROVE  s[j] \in 1..(n + 1)
    OBVIOUS
  <2>1. CASE j = 1
    BY <1>1, <1>10, <2>1
  <2>2. CASE j # 1
    <3>1. PICK i \in 1..k : j = i + 1
      BY <1>3, <2>2
    <3> QED
      BY <1>6, <1>10, <3>1
  <2> QED
    BY <2>1, <2>2
<1>13. \A x \in S : x < s[k + 1]
  <2> SUFFICES ASSUME NEW x \in S
               PROVE  x < s[k + 1]
    OBVIOUS
  <2>1. IsFiniteSet(S) /\ IsOrder(Ascending(S), S)
    BY <1>3, AscendingOrders
  <2>2. S \in SUBSET Nat /\ IsFiniteSet(S) /\ IsOrder(f, S)
    BY <1>3, <1>4, <2>1
  <2>3. \E i \in 1..Cardinality(S) : f[i] = x
    BY <2>2, OrderOnto
  <2>4. PICK i \in 1..k : f[i] = x
    BY <1>3, <2>3
  <2>5. k \in 1..k
    BY <1>3
  <2>6. f[i] = f[k] \/ f[i] < f[k]
    BY <1>3, <1>5, <2>5
  <2>7. s[k + 1] = f[k] + 1 /\ f[k] \in 1..n /\ f[i] \in 1..n
    BY <1>6, <1>10, <2>5
  <2> QED
    BY <2>4, <2>6, <2>7
<1> QED
  BY <1>1, <1>2, <1>3, <1>4, <1>6, <1>10, <1>11, <1>12, <1>13 DEF Last

\* The last part has no newline.
LEMMA PartialFacts ==
    ASSUME NEW X, NEW a \in Seq(X), NEW la, la = Last(Starts(a))
    PROVE  /\ la \in 1..(Len(a) + 1)
           /\ Partial(a) \in Seq(X) /\ Len(Partial(a)) = Len(a) + 1 - la
           /\ \A i \in 1..(Len(a) + 1 - la) : Partial(a)[i] = a[la - 1 + i]
           /\ Newlines(Partial(a)) = {}
<1>1. PICK n \in Nat, k \in Nat : n = Len(a) /\ k = Cardinality(Newlines(a))
  BY NewlinesIn
<1>2. la \in 1..(n + 1) /\ \A x \in Newlines(a) : x < la
  <2>1. k + 1 \in 1..(k + 1)
    OBVIOUS
  <2>2. /\ Last(Starts(a)) = Starts(a)[k + 1] /\ \A x \in Newlines(a) : x < Starts(a)[k + 1]
        /\ \A j \in 1..(k + 1) : Starts(a)[j] \in 1..(Len(a) + 1)
    BY <1>1, StartsFacts
  <2> QED
    BY <1>1, <2>1, <2>2
<1>3. \A x \in la..n : a[x] \in X
  <2>1. \A x \in la..n : x \in 1..n
    BY <1>2
  <2> QED
    BY <1>1, <2>1
<1>4. PICK p : p = SubSeq(a, la, n)
  OBVIOUS
<1>5. /\ p \in Seq(X) /\ Len(p) = IF la <= n THEN n - la + 1 ELSE 0
      /\ \A i \in 1..(n - la + 1) : p[i] = a[la + i - 1]
  BY <1>2, <1>3, <1>4, SubSeqProperties
<1>6. Len(p) = n + 1 - la /\ \A i \in 1..(n + 1 - la) : p[i] = a[la - 1 + i]
  <2>1. \A i \in 1..(n + 1 - la) : i \in 1..(n - la + 1) /\ la + i - 1 = la - 1 + i
    BY <1>2
  <2> QED
    BY <1>2, <1>5, <2>1
<1>7. p = Partial(a)
  BY <1>1, <1>4 DEF Partial
<1>8. Newlines(p) = {}
  <2> SUFFICES ASSUME NEW i \in 1..Len(p), IsNewline(p[i])
               PROVE  FALSE
    BY DEF Newlines
  <2>1. i \in 1..(n + 1 - la)
    BY <1>6
  <2>2. la - 1 + i \in 1..n /\ IsNewline(a[la - 1 + i])
    BY <1>2, <1>6, <2>1
  <2>3. la - 1 + i \in Newlines(a)
    BY <1>1, <2>2 DEF Newlines
  <2> QED
    BY <1>2, <2>1, <2>3
<1> QED
  BY <1>1, <1>2, <1>5, <1>6, <1>7, <1>8

LEMMA SplitFacts ==
    ASSUME NEW X, NEW a \in Seq(X), NEW k, k = Cardinality(Newlines(a))
    PROVE  /\ SplitLines(a) \in Seq(Seq(X)) /\ Len(SplitLines(a)) = k
           /\ \A j \in 1..k : SplitLines(a)[j] = SubSeq(a, Starts(a)[j], Starts(a)[j + 1] - 2)
<1>1. PICK n \in Nat : n = Len(a)
  OBVIOUS
<1>2. PICK s : s = Starts(a)
  OBVIOUS
<1>3. k \in Nat /\ \A j \in 1..k : s[j] \in 1..(n + 1) /\ s[j + 1] \in 2..(n + 1)
  <2>1. k \in Nat /\ \A j \in 1..k : s[j + 1] \in 2..(n + 1)
    BY <1>1, <1>2, StartsFacts
  <2>2. \A j \in 1..(k + 1) : s[j] \in 1..(n + 1)
    BY <1>1, <1>2, StartsFacts
  <2>3. \A j \in 1..k : j \in 1..(k + 1)
    BY <2>1
  <2> QED
    BY <2>1, <2>2, <2>3
<1>4. \A j \in 1..k : SubSeq(a, s[j], s[j + 1] - 2) \in Seq(X)
  <2> SUFFICES ASSUME NEW j \in 1..k
               PROVE  SubSeq(a, s[j], s[j + 1] - 2) \in Seq(X)
    OBVIOUS
  <2>1. s[j] \in Int /\ s[j + 1] - 2 \in Int /\ 1 <= s[j] /\ s[j + 1] - 2 <= n
    BY <1>3
  <2>2. \A x \in (s[j])..(s[j + 1] - 2) : x \in 1..n
    BY <2>1
  <2>3. \A x \in (s[j])..(s[j + 1] - 2) : a[x] \in X
    BY <1>1, <2>2
  <2> QED
    BY <2>1, <2>3, SubSeqProperties
<1>5. PICK g : g = [j \in 1..k |-> SubSeq(a, s[j], s[j + 1] - 2)]
  OBVIOUS
<1>6. g \in Seq(Seq(X)) /\ Len(g) = k /\ \A j \in 1..k : g[j] = SubSeq(a, s[j], s[j + 1] - 2)
  <2>1. DOMAIN g = 1..k /\ \A j \in 1..k : g[j] = SubSeq(a, s[j], s[j + 1] - 2)
    BY <1>5
  <2>2. \A j \in 1..k : g[j] \in Seq(X)
    BY <1>4, <2>1
  <2>3. g = [j \in 1..k |-> g[j]]
    BY <1>5, <2>1
  <2>4. g \in Seq(Seq(X)) /\ Len(g) = k
    BY <1>3, <2>2, <2>3
  <2> QED
    BY <2>1, <2>4
<1>7. g = SplitLines(a)
  BY <1>2, <1>5 DEF SplitLines
<1> QED
  BY <1>2, <1>6, <1>7

LEMMA ConcatElements ==
    ASSUME NEW X, NEW a \in Seq(X), NEW b \in Seq(X)
    PROVE  /\ a \o b \in Seq(X) /\ Len(a \o b) = Len(a) + Len(b)
           /\ \A i \in 1..Len(a) : (a \o b)[i] = a[i]
           /\ \A i \in 1..Len(b) : (a \o b)[Len(a) + i] = b[i]
<1>1. /\ a \o b \in Seq(X) /\ Len(a \o b) = Len(a) + Len(b)
      /\ \A i \in 1..(Len(a) + Len(b)) : (a \o b)[i] = IF i <= Len(a) THEN a[i] ELSE b[i - Len(a)]
  BY ConcatProperties
<1>2. Len(a) \in Nat /\ Len(b) \in Nat
  OBVIOUS
<1>3. \A i \in 1..Len(b) : /\ Len(a) + i \in 1..(Len(a) + Len(b)) /\ ~ (Len(a) + i <= Len(a))
                           /\ (Len(a) + i) - Len(a) = i
  BY <1>2
<1>4. \A i \in 1..Len(a) : i \in 1..(Len(a) + Len(b)) /\ i <= Len(a)
  BY <1>2
<1> QED
  BY <1>1, <1>3, <1>4

LEMMA NewlinesJoin ==
    ASSUME NEW X, NEW a \in Seq(X), NEW b \in Seq(X)
    PROVE  Newlines(a \o b) = Joined(Newlines(a), Len(a), Newlines(b))
<1>1. PICK n \in Nat, m \in Nat : n = Len(a) /\ m = Len(b)
  OBVIOUS
<1>2. PICK c : c = a \o b
  OBVIOUS
<1>3. /\ Len(c) = n + m /\ \A i \in 1..n : c[i] = a[i]
      /\ \A i \in 1..m : c[n + i] = b[i]
  BY <1>1, <1>2, ConcatElements
<1>4. ASSUME NEW x
      PROVE  x \in Newlines(c) <=> x \in Newlines(a) \/ \E y \in Newlines(b) : x = n + y
  <2>1. CASE x \in 1..n
    <3>1. x \in Newlines(c) <=> x \in Newlines(a)
      BY <1>1, <1>3, <2>1 DEF Newlines
    <3>2. \A y \in Newlines(b) : x # n + y
      BY <1>1, <2>1 DEF Newlines
    <3> QED
      BY <3>1, <3>2
  <2>2. CASE \E y \in 1..m : x = n + y
    <3>1. PICK y \in 1..m : x = n + y
      BY <2>2
    <3>2. x \in Newlines(c) <=> y \in Newlines(b)
      BY <1>1, <1>3, <3>1 DEF Newlines
    <3>3. x \notin Newlines(a)
      BY <1>1, <3>1 DEF Newlines
    <3>4. \A z \in Newlines(b) : x = n + z => z = y
      BY <1>1, <3>1 DEF Newlines
    <3> QED
      BY <3>1, <3>2, <3>3, <3>4
  <2>3. CASE x \notin 1..n /\ ~ \E y \in 1..m : x = n + y
    <3>1. x \notin 1..(n + m)
      <4>1. ASSUME x \in 1..(n + m)
            PROVE  FALSE
        <5>1. x - n \in 1..m /\ x = n + (x - n)
          BY <2>3, <4>1
        <5> QED
          BY <2>3, <5>1
      <4> QED
        BY <4>1
    <3> QED
      BY <1>1, <1>3, <2>3, <3>1 DEF Newlines
  <2> QED
    BY <2>1, <2>2, <2>3
<1> QED
  BY <1>1, <1>2, <1>4 DEF Joined

\* The newlines of two texts put one after the other, and where their parts start.
Breaks(text) == Cardinality(Newlines(text))

LEMMA StartsJoin ==
    ASSUME NEW X, NEW a \in Seq(X), NEW b \in Seq(X)
    PROVE  /\ Breaks(a \o b) = Breaks(a) + Breaks(b)
           /\ \A j \in 1..(Breaks(a) + 1) : Starts(a \o b)[j] = Starts(a)[j]
           /\ \A i \in 1..Breaks(b) :
                 Starts(a \o b)[Breaks(a) + 1 + i] = Len(a) + Starts(b)[i + 1]
<1>1. PICK k, l : k = Breaks(a) /\ l = Breaks(b)
  OBVIOUS
<1>2. k = Cardinality(Newlines(a)) /\ l = Cardinality(Newlines(b))
  BY <1>1 DEF Breaks
<1>3. PICK n \in Nat, m \in Nat : n = Len(a) /\ m = Len(b)
  OBVIOUS
<1>4. PICK S, T : S = Newlines(a) /\ T = Newlines(b)
  OBVIOUS
<1>5. S \in SUBSET (1..n) /\ T \in SUBSET (1..m) /\ k \in Nat /\ l \in Nat
  BY <1>2, <1>3, <1>4, NewlinesIn
<1>6. PICK c : c = a \o b
  OBVIOUS
<1>7. c \in Seq(X) /\ Newlines(c) = Joined(S, n, T)
  BY <1>3, <1>4, <1>6, NewlinesJoin, ConcatProperties
<1>8. /\ Joined(S, n, T) \in SUBSET (1..(n + m))
      /\ Cardinality(Joined(S, n, T)) = Cardinality(S) + Cardinality(T)
      /\ \A i \in 1..Cardinality(S) : Ascending(Joined(S, n, T))[i] = Ascending(S)[i]
      /\ \A i \in 1..Cardinality(T) :
            Ascending(Joined(S, n, T))[Cardinality(S) + i] = n + Ascending(T)[i]
  BY <1>5, OrderJoin, Zenon
<1>9. PICK f, g, h : f = Ascending(S) /\ g = Ascending(T) /\ h = Ascending(Newlines(c))
  OBVIOUS
<1>10. /\ Cardinality(Newlines(c)) = k + l /\ \A i \in 1..k : h[i] = f[i]
      /\ \A i \in 1..l : h[k + i] = n + g[i]
  BY <1>2, <1>4, <1>7, <1>8, <1>9
<1>11. PICK s, t, u : s = Starts(a) /\ t = Starts(b) /\ u = Starts(c)
  OBVIOUS
<1>12. /\ s[1] = 1 /\ t[1] = 1 /\ u[1] = 1
       /\ \A j \in 1..k : s[j + 1] = f[j] + 1
       /\ \A j \in 1..l : t[j + 1] = g[j] + 1 /\ t[j + 1] \in Nat
       /\ \A j \in 1..(k + l) : u[j + 1] = h[j] + 1
  <2>1. s[1] = 1 /\ \A j \in 1..k : s[j + 1] = f[j] + 1
    BY <1>2, <1>4, <1>9, <1>11, StartsFacts
  <2>2. t[1] = 1 /\ \A j \in 1..l : t[j + 1] = g[j] + 1 /\ t[j + 1] \in 2..(m + 1)
    BY <1>2, <1>3, <1>4, <1>9, <1>11, StartsFacts
  <2>3. u[1] = 1 /\ \A j \in 1..(k + l) : u[j + 1] = h[j] + 1
    <3>1. PICK z : z = k + l
      OBVIOUS
    <3>2. z = Cardinality(Newlines(c))
      BY <1>10, <3>1
    <3>3. Starts(c)[1] = 1 /\ \A j \in 1..z : Starts(c)[j + 1] = Ascending(Newlines(c))[j] + 1
      BY <1>7, <3>2, StartsFacts
    <3> QED
      BY <1>9, <1>11, <3>1, <3>3
  <2> QED
    BY <2>1, <2>2, <2>3
<1>13. \A i \in 1..l : g[i] \in Nat
  <2>1. \A i \in 1..l : Ascending(T)[i] \in T
    BY <1>2, <1>4, <1>5, AscendingOrders
  <2>2. \A x \in T : x \in Nat
    BY <1>5
  <2> QED
    BY <1>9, <2>1, <2>2
<1>14. ASSUME NEW j \in 1..(k + 1)
       PROVE  u[j] = s[j]
  <2>1. CASE j = 1
    BY <1>12, <2>1
  <2>2. CASE j # 1
    <3>1. PICK i \in 1..k : j = i + 1
      BY <1>5, <2>2
    <3>2. i \in 1..(k + l)
      BY <1>5
    <3> QED
      BY <1>10, <1>12, <3>1, <3>2
  <2> QED
    BY <2>1, <2>2
<1>15. ASSUME NEW i \in 1..l
       PROVE  u[k + 1 + i] = n + t[i + 1]
  <2>1. k + i \in 1..(k + l) /\ k + 1 + i = (k + i) + 1
    BY <1>5
  <2>2. u[k + 1 + i] = h[k + i] + 1
    BY <1>12, <2>1
  <2>3. h[k + i] = n + g[i] /\ t[i + 1] = g[i] + 1 /\ g[i] \in Nat
    BY <1>10, <1>12, <1>13
  <2> QED
    BY <2>2, <2>3
<1>16. Breaks(c) = k + l
  BY <1>10 DEF Breaks
<1> QED
  BY <1>1, <1>3, <1>6, <1>11, <1>14, <1>15, <1>16

\* Splitting is not disturbed by where the text was cut: the trailing part of the
\* first text is carried over to the second.
LEMMA SplitJoin ==
    ASSUME NEW X, NEW a \in Seq(X), NEW b \in Seq(X)
    PROVE  /\ SplitLines(Cat(a, b)) = Cat(SplitLines(a), SplitLines(Cat(Partial(a), b)))
           /\ Partial(Cat(a, b)) = Partial(Cat(Partial(a), b))
<1>1. PICK n \in Nat, m \in Nat, k \in Nat, l \in Nat :
         n = Len(a) /\ m = Len(b) /\ k = Cardinality(Newlines(a)) /\ l = Cardinality(Newlines(b))
  BY NewlinesIn
<1>2. PICK la : la = Last(Starts(a))
  OBVIOUS
<1>3. PICK p : p = Partial(a)
  OBVIOUS
<1>4. /\ la \in 1..(n + 1) /\ p \in Seq(X) /\ Len(p) = n + 1 - la
      /\ \A i \in 1..(n + 1 - la) : p[i] = a[la - 1 + i]
      /\ Newlines(p) = {}
  BY <1>1, <1>2, <1>3, PartialFacts
<1>5. PICK q \in Nat : q = n + 1 - la
  BY <1>4
<1>6. PICK c, d : c = a \o b /\ d = p \o b
  OBVIOUS
<1>7. /\ c \in Seq(X) /\ Len(c) = n + m /\ \A i \in 1..n : c[i] = a[i]
      /\ \A i \in 1..m : c[n + i] = b[i]
  BY <1>1, <1>6, ConcatElements
<1>8. /\ d \in Seq(X) /\ Len(d) = q + m /\ \A i \in 1..q : d[i] = p[i]
      /\ \A i \in 1..m : d[q + i] = b[i]
  <2>1. p \in Seq(X)
    BY <1>4
  <2>2. Len(p) = q
    BY <1>4, <1>5
  <2>3. /\ p \o b \in Seq(X) /\ Len(p \o b) = Len(p) + Len(b)
        /\ \A i \in 1..Len(p) : (p \o b)[i] = p[i]
        /\ \A i \in 1..Len(b) : (p \o b)[Len(p) + i] = b[i]
    BY <2>1, ConcatElements
  <2> QED
    BY <1>1, <1>6, <2>3, <2>2
<1>9. \A i \in 1..(q + m) : d[i] \in X /\ c[i + (la - 1)] = d[i]
  <2> SUFFICES ASSUME NEW i \in 1..(q + m)
               PROVE  d[i] \in X /\ c[i + (la - 1)] = d[i]
    OBVIOUS
  <2>1. d[i] \in X
    BY <1>8
  <2>2. CASE i <= q
    <3>1. i \in 1..q /\ i + (la - 1) \in 1..n /\ i + (la - 1) = la - 1 + i
      BY <1>4, <1>5, <2>2
    <3> QED
      BY <1>4, <1>5, <1>7, <1>8, <2>1, <3>1
  <2>3. CASE ~ (i <= q)
    <3>1. PICK j \in 1..m : i = q + j
      <4>1. i - q \in 1..m /\ i = q + (i - q)
        BY <2>3
      <4> QED
        BY <4>1
    <3>2. i + (la - 1) = n + j
      BY <1>4, <1>5, <3>1
    <3> QED
      BY <1>7, <1>8, <2>1, <3>1, <3>2
  <2> QED
    BY <2>2, <2>3
<1>10. PICK s, t, u, v : s = Starts(a) /\ t = Starts(b) /\ u = Starts(c) /\ v = Starts(d)
  OBVIOUS
<1>11. /\ Cardinality(Newlines(c)) = k + l
       /\ \A j \in 1..(k + 1) : u[j] = s[j]
       /\ \A i \in 1..l : u[k + 1 + i] = n + t[i + 1]
  <2>1. k = Breaks(a) /\ l = Breaks(b)
    BY <1>1 DEF Breaks
  <2>2. /\ Breaks(a \o b) = Breaks(a) + Breaks(b)
        /\ \A j \in 1..(Breaks(a) + 1) : Starts(a \o b)[j] = Starts(a)[j]
        /\ \A i \in 1..Breaks(b) :
              Starts(a \o b)[Breaks(a) + 1 + i] = Len(a) + Starts(b)[i + 1]
    BY StartsJoin
  <2>3. /\ Breaks(c) = k + l
        /\ \A j \in 1..(k + 1) : u[j] = s[j]
        /\ \A i \in 1..l : u[k + 1 + i] = n + t[i + 1]
    BY <1>1, <1>6, <1>10, <2>1, <2>2
  <2> QED
    BY <2>3 DEF Breaks
<1>12. /\ Cardinality(Newlines(d)) = l /\ v[1] = 1
       /\ \A i \in 1..l : v[1 + i] = q + t[i + 1]
  <2>1. Cardinality(Newlines(p)) = 0
    BY <1>4, FS_EmptySet
  <2>2. PICK z \in Nat : z = 0
    OBVIOUS
  <2>3. z = Breaks(p) /\ l = Breaks(b)
    BY <1>1, <2>1, <2>2 DEF Breaks
  <2>4. p \in Seq(X)
    BY <1>4
  <2>5. /\ Breaks(p \o b) = Breaks(p) + Breaks(b)
        /\ \A j \in 1..(Breaks(p) + 1) : Starts(p \o b)[j] = Starts(p)[j]
        /\ \A i \in 1..Breaks(b) :
              Starts(p \o b)[Breaks(p) + 1 + i] = Len(p) + Starts(b)[i + 1]
    BY <2>4, StartsJoin
  <2>6. Len(p) = q
    BY <1>4, <1>5
  <2>7. z + l = l /\ \A i \in 1..l : z + 1 + i = 1 + i
    BY <2>2
  <2>8. v[1] = 1
    BY <1>8, <1>10, StartsFacts
  <2>9. Cardinality(Newlines(d)) = l
    BY <1>6, <2>3, <2>5, <2>7 DEF Breaks
  <2>10. \A i \in 1..l : v[1 + i] = q + t[i + 1]
    BY <1>6, <1>10, <2>3, <2>5, <2>6, <2>7
  <2> QED
    BY <2>8, <2>9, <2>10
<1>13. /\ s[k + 1] = la /\ \A j \in 1..(k + 1) : s[j] \in 1..(n + 1)
       /\ \A j \in 1..k : s[j + 1] \in 2..(n + 1)
  BY <1>1, <1>2, <1>10, StartsFacts
<1>14. /\ Last(u) = u[k + l + 1] /\ Last(v) = v[l + 1]
       /\ \A j \in 1..(l + 1) : v[j] \in 1..(q + m + 1)
       /\ \A j \in 1..l : v[j + 1] \in 2..(q + m + 1)
  <2>1. Last(u) = u[k + l + 1]
    <3>1. PICK z : z = k + l
      OBVIOUS
    <3>2. z = Cardinality(Newlines(c))
      BY <1>11, <3>1
    <3>3. Last(Starts(c)) = Starts(c)[z + 1]
      BY <1>7, <3>2, StartsFacts
    <3> QED
      BY <1>10, <3>1, <3>3
  <2> QED
    BY <1>8, <1>10, <1>12, <2>1, StartsFacts
<1>15. \A i \in 1..(l + 1) : u[k + i] = v[i] + (la - 1)
  <2> SUFFICES ASSUME NEW i \in 1..(l + 1)
               PROVE  u[k + i] = v[i] + (la - 1)
    OBVIOUS
  <2>1. CASE i = 1
    <3>1. k + 1 \in 1..(k + 1)
      OBVIOUS
    <3>2. u[k + 1] = la
      BY <1>11, <1>13, <3>1
    <3> QED
      BY <1>4, <1>12, <2>1, <3>2
  <2>2. CASE i # 1
    <3>1. PICK j \in 1..l : i = 1 + j
      <4>1. i - 1 \in 1..l /\ i = 1 + (i - 1)
        BY <2>2
      <4> QED
        BY <4>1
    <3>2. u[k + 1 + j] = n + t[j + 1] /\ v[1 + j] = q + t[j + 1] /\ k + i = k + 1 + j
      <4>1. u[k + 1 + j] = n + t[j + 1]
        BY <1>11
      <4>2. v[1 + j] = q + t[j + 1]
        BY <1>12
      <4>3. k + i = k + 1 + j
        BY <3>1
      <4> QED
        BY <4>1, <4>2, <4>3
    <3>3. v[1 + j] \in Int
      BY <1>14
    <3>4. t[j + 1] \in Nat
      <4>1. \A x \in 1..l : Starts(b)[x + 1] \in 2..(Len(b) + 1)
        BY <1>1, StartsFacts
      <4> QED
        BY <1>1, <1>10, <4>1
    <3> QED
      BY <1>4, <1>5, <3>1, <3>2, <3>4
  <2> QED
    BY <2>1, <2>2
<1>16. PICK sa, sc, sd : sa = SplitLines(a) /\ sc = SplitLines(c) /\ sd = SplitLines(d)
  OBVIOUS
<1>17. /\ sa \in Seq(Seq(X)) /\ Len(sa) = k
       /\ \A j \in 1..k : sa[j] = SubSeq(a, s[j], s[j + 1] - 2)
  BY <1>1, <1>10, <1>16, SplitFacts
<1>18. /\ sc \in Seq(Seq(X)) /\ Len(sc) = k + l
       /\ \A j \in 1..(k + l) : sc[j] = SubSeq(c, u[j], u[j + 1] - 2)
  BY <1>7, <1>10, <1>11, <1>16, SplitFacts
<1>19. /\ sd \in Seq(Seq(X)) /\ Len(sd) = l
       /\ \A j \in 1..l : sd[j] = SubSeq(d, v[j], v[j + 1] - 2)
  BY <1>8, <1>10, <1>12, <1>16, SplitFacts
<1>20. /\ sa \o sd \in Seq(Seq(X)) /\ Len(sa \o sd) = k + l
       /\ \A i \in 1..k : (sa \o sd)[i] = sa[i]
       /\ \A i \in 1..l : (sa \o sd)[k + i] = sd[i]
  <2>1. PICK Y : Y = Seq(X)
    OBVIOUS
  <2>2. sa \in Seq(Y) /\ sd \in Seq(Y)
    BY <1>17, <1>19, <2>1
  <2>3. /\ sa \o sd \in Seq(Y) /\ Len(sa \o sd) = Len(sa) + Len(sd)
        /\ \A i \in 1..Len(sa) : (sa \o sd)[i] = sa[i]
        /\ \A i \in 1..Len(sd) : (sa \o sd)[Len(sa) + i] = sd[i]
    BY <2>2, ConcatElements
  <2> QED
    BY <1>17, <1>19, <2>1, <2>3
<1>21. ASSUME NEW j \in 1..k
       PROVE  sc[j] = sa[j]
  <2>1. PICK x \in Int, y \in Int : x = s[j] /\ y = s[j + 1] - 2 /\ 1 <= x /\ y <= n
    <3>1. j \in 1..(k + 1)
      OBVIOUS
    <3> QED
      BY <1>13, <3>1
  <2>2. u[j] = x /\ u[j + 1] - 2 = y
    <3>1. j \in 1..(k + 1) /\ j + 1 \in 1..(k + 1)
      OBVIOUS
    <3> QED
      BY <1>11, <2>1, <3>1
  <2>3. \A i \in x..y : a[i] \in X /\ c[i + 0] = a[i]
    <3>1. \A i \in x..y : i \in 1..n /\ i + 0 = i
      BY <2>1
    <3> QED
      BY <1>1, <1>7, <3>1
  <2>4. x + 0 = x /\ y + 0 = y
    OBVIOUS
  <2>5. SubSeq(c, x, y) = SubSeq(a, x, y)
    BY <2>3, <2>4, Stretch
  <2>6. j \in 1..(k + l)
    OBVIOUS
  <2> QED
    BY <1>17, <1>18, <2>1, <2>2, <2>5, <2>6
<1>22. ASSUME NEW i \in 1..l
       PROVE  sc[k + i] = sd[i]
  <2>1. PICK x \in Int, y \in Int : x = v[i] /\ y = v[i + 1] - 2 /\ 1 <= x /\ y <= q + m
    <3>1. i \in 1..(l + 1)
      OBVIOUS
    <3> QED
      BY <1>14, <3>1
  <2>2. u[k + i] = x + (la - 1) /\ u[(k + i) + 1] - 2 = y + (la - 1)
    <3>1. i \in 1..(l + 1) /\ i + 1 \in 1..(l + 1) /\ (k + i) + 1 = k + (i + 1)
      OBVIOUS
    <3>2. u[k + i] = v[i] + (la - 1) /\ u[k + (i + 1)] = v[i + 1] + (la - 1)
      BY <1>15, <3>1
    <3>3. v[i + 1] \in Int
      BY <1>14
    <3> QED
      BY <1>4, <2>1, <3>1, <3>2, <3>3
  <2>3. \A z \in x..y : d[z] \in X /\ c[z + (la - 1)] = d[z]
    <3>1. \A z \in x..y : z \in 1..(q + m)
      BY <2>1
    <3> QED
      BY <1>9, <3>1
  <2>4. SubSeq(c, x + (la - 1), y + (la - 1)) = SubSeq(d, x, y)
    <3>1. PICK e \in Int : e = la - 1
      BY <1>4
    <3>2. \A z \in x..y : d[z] \in X /\ c[z + e] = d[z]
      BY <2>3, <3>1
    <3>3. PICK f \in Int, g \in Int : f = x + e /\ g = y + e
      OBVIOUS
    <3>4. SubSeq(c, f, g) = SubSeq(d, x, y)
      BY <3>2, <3>3, Stretch
    <3> QED
      BY <3>1, <3>3, <3>4
  <2>5. k + i \in 1..(k + l)
    OBVIOUS
  <2> QED
    BY <1>18, <1>19, <2>1, <2>2, <2>4, <2>5
<1>23. sc = sa \o sd
  <2>1. ASSUME NEW i \in 1..(k + l)
        PROVE  sc[i] = (sa \o sd)[i]
    <3>1. CASE i \in 1..k
      BY <1>20, <1>21, <3>1
    <3>2. CASE i \notin 1..k
      <4>1. PICK j \in 1..l : i = k + j
        <5>1. i - k \in 1..l /\ i = k + (i - k)
          BY <3>2
        <5> QED
          BY <5>1
      <4> QED
        BY <1>20, <1>22, <4>1
    <3> QED
      BY <3>1, <3>2
  <2> QED
    BY <1>18, <1>20, <2>1, SeqEqual
<1>24. Partial(c) = Partial(d)
  <2>1. PICK x \in Int, y \in Int : x = Last(v) /\ y = q + m /\ 1 <= x
    <3>1. l + 1 \in 1..(l + 1)
      OBVIOUS
    <3> QED
      BY <1>14, <3>1
  <2>2. Last(u) = x + (la - 1) /\ Len(c) = y + (la - 1)
    <3>1. l + 1 \in 1..(l + 1) /\ k + l + 1 = k + (l + 1)
      OBVIOUS
    <3> QED
      BY <1>4, <1>5, <1>7, <1>14, <1>15, <2>1, <3>1
  <2>3. \A z \in x..y : d[z] \in X /\ c[z + (la - 1)] = d[z]
    <3>1. \A z \in x..y : z \in 1..(q + m)
      BY <2>1
    <3> QED
      BY <1>9, <3>1
  <2>4. SubSeq(c, x + (la - 1), y + (la - 1)) = SubSeq(d, x, y)
    <3>1. PICK e \in Int : e = la - 1
      BY <1>4
    <3>2. \A z \in x..y : d[z] \in X /\ c[z + e] = d[z]
      BY <2>3, <3>1
    <3>3. PICK f \in Int, g \in Int : f = x + e /\ g = y + e
      OBVIOUS
    <3>4. SubSeq(c, f, g) = SubSeq(d, x, y)
      BY <3>2, <3>3, Stretch, SMTT(60)
    <3> QED
      BY <3>1, <3>3, <3>4
  <2> QED
    BY <1>8, <1>10, <2>1, <2>2, <2>4 DEF Partial
<1> QED
  BY <1>3, <1>6, <1>16, <1>23, <1>24 DEF Cat

-----------------------------------------------------------------------------
(* The lines that are forwarded.                                           *)

Heard(ls) == {i \in 1..Len(ls) : Kind(ls[i]) # "blank"}

LEMMA AudibleSeq ==
    ASSUME NEW X, NEW a \in Seq(X)
    PROVE  Audible(a) \in Seq(X) /\ Audible(a) = Chosen(a, Heard(a))
           /\ Heard(a) \in SUBSET (1..Len(a))
<1>1. Heard(a) \in SUBSET (1..Len(a)) /\ Audible(a) = Chosen(a, Heard(a))
  BY DEF Heard, Audible
<1>2. Chosen(a, Heard(a)) \in Seq(X)
  BY <1>1, ChosenSeq
<1> QED
  BY <1>1, <1>2

\* Forwarding does not depend on how the lines arrive.
LEMMA AudibleJoin ==
    ASSUME NEW X, NEW a \in Seq(X), NEW b \in Seq(X)
    PROVE  Audible(Cat(a, b)) = Cat(Audible(a), Audible(b))
<1>1. PICK n \in Nat, m \in Nat : n = Len(a) /\ m = Len(b)
  OBVIOUS
<1>2. PICK c : c = Cat(a, b)
  OBVIOUS
<1>3. c \in Seq(X)
  BY <1>2, ConcatElements DEF Cat
<1>4. Len(c) = n + m /\ \A i \in 1..n : c[i] = a[i]
  BY <1>1, <1>2, ConcatElements DEF Cat
<1>5. \A i \in 1..m : c[n + i] = b[i]
  BY <1>1, <1>2, ConcatElements DEF Cat
<1>6. ASSUME NEW x
      PROVE  x \in Heard(c) <=> x \in Heard(a) \/ \E y \in Heard(b) : x = n + y
  <2>1. CASE x \in 1..n
    <3>1. x \in Heard(c) <=> x \in Heard(a)
      BY <1>1, <1>4, <2>1 DEF Heard
    <3>2. \A y \in Heard(b) : x # n + y
      BY <1>1, <2>1 DEF Heard
    <3> QED
      BY <3>1, <3>2
  <2>2. CASE \E y \in 1..m : x = n + y
    <3>1. PICK y \in 1..m : x = n + y
      BY <2>2
    <3>2. x \in Heard(c) <=> y \in Heard(b)
      BY <1>1, <1>4, <1>5, <3>1 DEF Heard
    <3>3. x \notin Heard(a)
      BY <1>1, <3>1 DEF Heard
    <3>4. \A z \in Heard(b) : x = n + z => z = y
      BY <1>1, <3>1 DEF Heard
    <3> QED
      BY <3>1, <3>2, <3>3, <3>4
  <2>3. CASE x \notin 1..n /\ ~ \E y \in 1..m : x = n + y
    <3>1. x \notin 1..(n + m)
      <4>1. ASSUME x \in 1..(n + m)
            PROVE  FALSE
        <5>1. x - n \in 1..m /\ x = n + (x - n)
          BY <2>3, <4>1
        <5> QED
          BY <2>3, <5>1
      <4> QED
        BY <4>1
    <3> QED
      BY <1>1, <1>4, <2>3, <3>1 DEF Heard
  <2> QED
    BY <2>1, <2>2, <2>3
<1>7. Heard(c) = Joined(Heard(a), Len(a), Heard(b))
  BY <1>1, <1>6 DEF Joined
<1>8. Heard(a) \in SUBSET (1..Len(a)) /\ Heard(b) \in SUBSET (1..Len(b))
  BY AudibleSeq
<1>9. Chosen(Cat(a, b), Heard(c)) = Cat(Chosen(a, Heard(a)), Chosen(b, Heard(b)))
  <2>1. PICK S, T : S = Heard(a) /\ T = Heard(b)
    OBVIOUS
  <2>2. S \in SUBSET (1..Len(a)) /\ T \in SUBSET (1..Len(b))
    BY <1>8, <2>1
  <2>3. Chosen(Cat(a, b), Joined(S, Len(a), T)) = Cat(Chosen(a, S), Chosen(b, T))
    BY <2>2, ChosenJoin
  <2> QED
    BY <1>7, <2>1, <2>3
<1>10. Audible(a) = Chosen(a, Heard(a)) /\ Audible(b) = Chosen(b, Heard(b))
  BY AudibleSeq
<1>11. Audible(c) = Chosen(c, Heard(c))
  BY <1>3, AudibleSeq
<1> QED
  BY <1>2, <1>9, <1>10, <1>11

LEMMA AudibleEmpty == Audible(<<>>) = <<>>
<1>1. <<>> \in Seq({}) /\ Len(<<>>) = 0
  OBVIOUS
<1>2. Heard(<<>>) = {}
  BY DEF Heard
<1>3. PICK e : e = Audible(<<>>)
  OBVIOUS
<1>4. e \in Seq({}) /\ e = Chosen(<<>>, {}) /\ {} \in SUBSET (1..Len(<<>>))
  BY <1>1, <1>2, <1>3, AudibleSeq
<1>5. Cardinality({}) = 0
  BY FS_EmptySet
<1>6. Len(Chosen(<<>>, {})) = 0
  BY <1>5 DEF Chosen
<1> QED
  BY <1>3, <1>4, <1>6

-----------------------------------------------------------------------------
(* The inductive invariant.                                                *)

Parts == (1..MaxLines) \X Kinds \X {"begin", "end", "nl", "torn"}
Texts == Seq(Parts)

RecordKinds ==
    {"runtime.event", "runtime.unknown", "runtime.parse_failure", "redaction_failure"}

StreamTypes ==
    /\ stdout \in Texts /\ sent \in 0..Len(stdout)
    /\ buffer \in Texts /\ handled \in Seq(Texts) /\ queue \in Seq(Texts)
    /\ chain \in Seq(Texts \X RecordKinds)
    /\ state \in Complete \cup {"running", "draining"}
    /\ broken \in BOOLEAN /\ exceeded \in BOOLEAN
    /\ faults \in 0..MaxFaults

LinesOf(records) == [i \in 1..Len(records) |-> records[i][1]]

\* What was forwarded is what is recorded, then what is still queued; behind a
\* rejection it is what is recorded and something that never will be.
Forwarded ==
    \E rest \in Seq(Texts) :
       Audible(handled) = LinesOf(chain) \o rest /\ (~ broken => rest = queue)

Typed(records) ==
    \A i \in 1..Len(records) :
       records[i][2] = "runtime.parse_failure" <=> Kind(records[i][1]) = "garbage"

\* While every chunk was consumed, the lines handled and the partial line kept are
\* those of the whole text received, however it was cut.
Consumed ==
    ~ exceeded =>
       /\ state = "running" => handled = SplitLines(Received) /\ buffer = Partial(Received)
       /\ state \in {"draining", "ok"} => handled = Lines(Received)

Succeeded == state = "ok" => ~ broken /\ ~ exceeded /\ queue = <<>>

StreamInv == StreamTypes /\ Forwarded /\ Typed(chain) /\ Consumed /\ Succeeded

-----------------------------------------------------------------------------
(* The initial states.                                                     *)

LEMMA PiecesText ==
    ASSUME NEW n \in 1..MaxLines, NEW ks \in [1..n -> Kinds]
    PROVE  Pieces(n, ks) \in Texts
<1>1. MaxLines \in Nat
  BY Bounds
<1>2. n \in Nat /\ 3 * n \in Nat
  BY <1>1
<1>3. ASSUME NEW p \in 1..(3 * n)
      PROVE  Pieces(n, ks)[p] \in (1..MaxLines) \X Kinds \X {"begin", "end", "nl", "torn"}
  <2>1. PICK i : i = (p + 2) \div 3
    OBVIOUS
  <2>2. i \in Nat /\ 3 * i <= p + 2 /\ p + 2 < 3 * i + 3
    BY <2>1
  <2>3. i \in 1..n /\ p - 3 * (i - 1) \in 1..3
    BY <1>2, <2>2
  <2>4. i \in 1..MaxLines /\ ks[i] \in Kinds
    BY <1>1, <2>3
  <2>5. \A z \in 1..3 : <<"begin", "end", "nl">>[z] \in {"begin", "end", "nl"}
    OBVIOUS
  <2>6. Pieces(n, ks)[p] = <<i, ks[i], <<"begin", "end", "nl">>[p - 3 * (i - 1)]>>
    BY <2>1 DEF Pieces
  <2>7. PICK z \in 1..3 : z = p - 3 * (i - 1)
    BY <2>3
  <2>8. PICK w \in {"begin", "end", "nl"} : w = <<"begin", "end", "nl">>[z]
    BY <2>5
  <2>9. PICK k \in Kinds, l \in 1..MaxLines : k = ks[i] /\ l = i
    BY <2>4
  <2>10. Pieces(n, ks)[p] = <<l, k, w>>
    BY <2>6, <2>7, <2>8, <2>9
  <2>11. <<l, k, w>> \in (1..MaxLines) \X Kinds \X {"begin", "end", "nl", "torn"}
    OBVIOUS
  <2> QED
    BY <2>10, <2>11
<1>4. PICK Y : Y = (1..MaxLines) \X Kinds \X {"begin", "end", "nl", "torn"}
  OBVIOUS
<1>5. PICK f : f = Pieces(n, ks)
  OBVIOUS
<1>6. DOMAIN f = 1..(3 * n) /\ f = [p \in 1..(3 * n) |-> f[p]]
  BY <1>5 DEF Pieces
<1>7. \A p \in 1..(3 * n) : f[p] \in Y
  BY <1>3, <1>4, <1>5
<1>8. f \in Seq(Y)
  BY <1>2, <1>6, <1>7
<1> QED
  BY <1>4, <1>5, <1>8 DEF Texts, Parts

LEMMA StreamBegins == Init => StreamInv
<1> SUFFICES ASSUME Init
             PROVE  StreamInv
  OBVIOUS
<1>1. stdout \in Texts
  <2>1. \A out \in Outputs : out \in Texts
    <3> SUFFICES ASSUME NEW out \in Outputs
                 PROVE  out \in Texts
      OBVIOUS
    <3>1. PICK n \in 1..MaxLines : out \in {Pieces(n, ks) : ks \in [1..n -> Kinds]}
      BY DEF Outputs
    <3>2. PICK ks \in [1..n -> Kinds] : out = Pieces(n, ks)
      BY <3>1
    <3> QED
      BY <3>2, PiecesText
  <2>2. \A out \in Texts : Front(out) \in Texts
    <3>1. PICK Y : Texts = Seq(Y)
      BY DEF Texts
    <3>2. \A out \in Seq(Y) : SubSeq(out, 1, Len(out) - 1) \in Seq(Y)
      OBVIOUS
    <3> QED
      BY <3>1, <3>2 DEF Front
  <2>3. \A out \in Outputs : Front(out) \in Texts
    BY <2>1, <2>2
  <2>4. stdout \in Outputs \cup {Front(out) : out \in Outputs}
    BY DEF Init
  <2>5. CASE stdout \in Outputs
    BY <2>1, <2>5
  <2>6. CASE stdout \in {Front(out) : out \in Outputs}
    BY <2>3, <2>6
  <2> QED
    BY <2>4, <2>5, <2>6
<1>2. StreamTypes
  <2>1. buffer \in Texts /\ sent \in 0..Len(stdout)
    BY <1>1 DEF Init, Texts
  <2>2. handled \in Seq(Texts) /\ queue \in Seq(Texts) /\ chain \in Seq(Texts \X RecordKinds)
    BY DEF Init
  <2>3. faults \in 0..MaxFaults
    BY Bounds DEF Init
  <2> QED
    BY <1>1, <2>1, <2>2, <2>3 DEF Init, StreamTypes
<1>3. Forwarded
  <2>1. LinesOf(chain) = <<>>
    BY DEF Init, LinesOf
  <2>2. <<>> \in Seq(Texts) /\ <<>> \o <<>> = <<>>
    OBVIOUS
  <2> QED
    BY <2>1, <2>2, AudibleEmpty DEF Init, Forwarded
<1>4. Consumed
  <2>1. PICK e : e = Received
    OBVIOUS
  <2>2. e = <<>>
    BY <2>1 DEF Init, Received
  <2>3. e \in Texts /\ Len(e) = 0
    BY <2>2 DEF Texts
  <2>4. Newlines(e) = {}
    BY <2>3 DEF Newlines
  <2>5. Cardinality(Newlines(e)) = 0
    BY <2>4, FS_EmptySet
  <2>6. SplitLines(e) = <<>>
    BY <2>5 DEF SplitLines
  <2>7. Partial(e) = <<>>
    <3>1. PICK Y : e \in Seq(Y)
      BY <2>3 DEF Texts
    <3>2. PICK la : la = Last(Starts(e))
      OBVIOUS
    <3>3. /\ la \in 1..(Len(e) + 1) /\ Partial(e) \in Seq(Y)
          /\ Len(Partial(e)) = Len(e) + 1 - la
      BY <3>1, <3>2, PartialFacts
    <3>4. Len(Partial(e)) = 0
      BY <2>3, <3>3
    <3> QED
      BY <3>3, <3>4
  <2> QED
    BY <2>1, <2>6, <2>7 DEF Init, Consumed
<1> QED
  BY <1>2, <1>3, <1>4 DEF Init, StreamInv, Typed, Succeeded

-----------------------------------------------------------------------------
(* The steps.                                                              *)

LEMMA LinesOfSeq ==
    ASSUME NEW X, NEW R, NEW c \in Seq(X \X R)
    PROVE  /\ LinesOf(c) \in Seq(X) /\ Len(LinesOf(c)) = Len(c)
           /\ \A i \in 1..Len(c) : LinesOf(c)[i] = c[i][1] /\ c[i][1] \in X /\ c[i][2] \in R
<1>1. PICK n \in Nat : n = Len(c)
  OBVIOUS
<1>2. \A i \in 1..n : c[i] \in X \X R
  BY <1>1
<1>3. \A i \in 1..n : c[i][1] \in X /\ c[i][2] \in R
  BY <1>2
<1>4. PICK l : l = [i \in 1..n |-> c[i][1]]
  OBVIOUS
<1>5. l \in Seq(X) /\ Len(l) = n /\ \A i \in 1..n : l[i] = c[i][1]
  BY <1>3, <1>4
<1> QED
  BY <1>1, <1>3, <1>4, <1>5 DEF LinesOf

\* What handleLine is given in one event: everything, or the lines before one that throws.
LEMMA HandleFacts ==
    ASSUME NEW lines \in Seq(Texts), HandleLines(lines)
    PROVE  \E done \in Seq(Texts) :
             /\ handled' = handled \o done /\ queue' = queue \o Audible(done)
             /\ (\A i \in 1..Len(lines) : ~ Throws(lines[i])) => done = lines
<1>1. PICK bad : bad = {i \in 1..Len(lines) : Throws(lines[i])}
  OBVIOUS
<1>2. PICK done : done = IF bad = {} THEN lines ELSE SubSeq(lines, 1, Min(bad) - 1)
  OBVIOUS
<1>3. handled' = handled \o done /\ queue' = queue \o Audible(done)
  BY <1>1, <1>2 DEF HandleLines
<1>4. done \in Seq(Texts)
  <2>1. CASE bad = {}
    BY <1>2, <2>1
  <2>2. CASE bad # {}
    <3>1. bad \in SUBSET Nat
      BY <1>1
    <3>2. PICK x \in bad : \A y \in bad : ~ (y < x)
      BY <2>2, <3>1, Least
    <3>3. \A y \in bad : x <= y
      BY <3>1, <3>2
    <3>4. Min(bad) \in bad
      BY <3>3 DEF Min
    <3>5. PICK z : z = Min(bad)
      OBVIOUS
    <3>6. z \in 1..Len(lines) /\ Len(lines) \in Nat
      BY <1>1, <3>4, <3>5
    <3>7. PICK k \in Nat : k = Min(bad) - 1 /\ k <= Len(lines)
      <4>1. z - 1 \in Nat /\ z - 1 <= Len(lines)
        BY <3>6
      <4> QED
        BY <3>5, <4>1
    <3>8. PICK Y : Y = Texts
      OBVIOUS
    <3>9. lines \in Seq(Y)
      BY <3>8
    <3>10. SubSeq(lines, 1, k) \in Seq(Y)
      BY <3>7, <3>9
    <3> QED
      BY <1>2, <2>2, <3>7, <3>8, <3>10
  <2> QED
    BY <2>1, <2>2
<1>5. (\A i \in 1..Len(lines) : ~ Throws(lines[i])) => bad = {}
  BY <1>1
<1> QED
  BY <1>2, <1>3, <1>4, <1>5

\* New lines are forwarded at the end of the queue.
LEMMA HandleForwards ==
    ASSUME StreamTypes, Forwarded, NEW done \in Seq(Texts),
           handled' = handled \o done, queue' = queue \o Audible(done),
           UNCHANGED <<chain, broken>>
    PROVE  /\ handled' \in Seq(Texts) /\ queue' \in Seq(Texts)
           /\ Forwarded'
<1>1. PICK Y : Y = Texts
  OBVIOUS
<1>2. handled \in Seq(Y) /\ queue \in Seq(Y) /\ done \in Seq(Y)
  BY <1>1 DEF StreamTypes
<1>3. PICK more : more = Audible(done)
  OBVIOUS
<1>4. more \in Seq(Y)
  BY <1>2, <1>3, AudibleSeq
<1>5. PICK rest \in Seq(Y) : Audible(handled) = LinesOf(chain) \o rest /\ (~ broken => rest = queue)
  BY <1>1 DEF Forwarded
<1>6. PICK ls : ls = LinesOf(chain)
  OBVIOUS
<1>7. ls \in Seq(Y)
  BY <1>1, <1>6, LinesOfSeq DEF StreamTypes
<1>8. handled' \in Seq(Y) /\ queue' \in Seq(Y) /\ rest \o more \in Seq(Y)
  BY <1>2, <1>3, <1>4, ConcatProperties
<1>9. Audible(Cat(handled, done)) = Cat(Audible(handled), Audible(done))
  BY <1>2, AudibleJoin
<1>10. Audible(handled') = (ls \o rest) \o more
  BY <1>3, <1>5, <1>6, <1>9 DEF Cat
<1>11. (ls \o rest) \o more = ls \o (rest \o more)
  BY <1>4, <1>7, ConcatAssociative
<1>12. ~ broken' => rest \o more = queue'
  BY <1>3, <1>5
<1> QED
  BY <1>1, <1>6, <1>8, <1>10, <1>11, <1>12 DEF Forwarded

LEMMA RecordedKind ==
    ASSUME NEW kind
    PROVE  /\ Recorded(kind) # "not JSON" => Recorded(kind) \in RecordKinds
           /\ Recorded(kind) = "runtime.parse_failure" <=> kind = "garbage"
BY DEF Recorded, Classified, RecordKinds

LEMMA AcceptStep == StreamInv /\ Accept => StreamInv'
<1> SUFFICES ASSUME StreamInv, Accept
             PROVE  StreamInv'
  OBVIOUS
<1>1. /\ queue # <<>> /\ ~ broken /\ queue' = Tail(queue)
      /\ UNCHANGED <<stdout, sent, torn, buffer, handled, state, exceeded, faults>>
  BY DEF Accept
<1>2. PICK line : line = Head(queue)
  OBVIOUS
<1>3. PICK kind : kind = Recorded(Kind(line))
  OBVIOUS
<1>4. \/ kind = "not JSON" /\ broken' = TRUE /\ chain' = chain
      \/ kind # "not JSON" /\ chain' = Append(chain, <<line, kind>>) /\ broken' = broken
  BY <1>2, <1>3 DEF Accept, AfterReject
<1>5. PICK Y : Y = Texts
  OBVIOUS
<1>6. queue \in Seq(Y) /\ chain \in Seq(Y \X RecordKinds)
  BY <1>5 DEF StreamInv, StreamTypes
<1>7. line \in Y /\ Tail(queue) \in Seq(Y) /\ queue = <<line>> \o Tail(queue)
  BY <1>1, <1>2, <1>6
<1>8. PICK ls : ls = LinesOf(chain)
  OBVIOUS
<1>9. ls \in Seq(Y) /\ Len(ls) = Len(chain) /\ \A i \in 1..Len(chain) : ls[i] = chain[i][1]
  BY <1>6, <1>8, LinesOfSeq
<1>10. Audible(handled) = ls \o queue
  BY <1>1, <1>8 DEF StreamInv, Forwarded
<1>11. queue' \in Seq(Y) /\ state # "ok" /\ state' = state
  BY <1>1, <1>7 DEF StreamInv, Succeeded
<1>12. CASE kind = "not JSON"
  <2>1. broken' = TRUE /\ chain' = chain
    BY <1>4, <1>12
  <2>2. Forwarded'
    BY <1>1, <1>5, <1>6, <1>8, <1>10, <2>1 DEF Forwarded
  <2>3. StreamTypes'
    BY <1>1, <1>5, <1>11, <2>1 DEF StreamInv, StreamTypes
  <2>4. Typed(chain)' /\ Consumed' /\ Succeeded'
    BY <1>1, <1>11, <2>1 DEF StreamInv, Typed, Consumed, Succeeded, Received, Lines
  <2> QED
    BY <2>2, <2>3, <2>4 DEF StreamInv
<1>13. CASE kind # "not JSON"
  <2>1. chain' = Append(chain, <<line, kind>>) /\ broken' = broken
    BY <1>4, <1>13
  <2>2. <<line, kind>> \in Y \X RecordKinds
    BY <1>3, <1>7, <1>13, RecordedKind
  <2>3. PICK c : c = Append(chain, <<line, kind>>)
    OBVIOUS
  <2>4. PICK n \in Nat : n = Len(chain)
    BY <1>6
  <2>5. /\ c \in Seq(Y \X RecordKinds) /\ Len(c) = n + 1 /\ c[n + 1] = <<line, kind>>
        /\ \A i \in 1..n : c[i] = chain[i]
    BY <1>6, <2>2, <2>3, <2>4, AppendProperties
  <2>6. LinesOf(c) = Append(ls, line)
    <3>1. PICK m : m = LinesOf(c)
      OBVIOUS
    <3>2. m \in Seq(Y) /\ Len(m) = n + 1 /\ \A i \in 1..(n + 1) : m[i] = c[i][1]
      BY <2>5, <3>1, LinesOfSeq
    <3>3. /\ Append(ls, line) \in Seq(Y) /\ Len(Append(ls, line)) = n + 1
          /\ Append(ls, line)[n + 1] = line /\ \A i \in 1..n : Append(ls, line)[i] = ls[i]
      BY <1>7, <1>9, <2>4, AppendProperties
    <3>4. \A i \in 1..(n + 1) : i \in 1..n \/ i = n + 1
      OBVIOUS
    <3>5. \A i \in 1..n : i \in 1..(n + 1) /\ m[i] = ls[i]
      BY <1>9, <2>4, <2>5, <3>2
    <3>6. m[n + 1] = line
      BY <2>5, <3>2
    <3>7. \A i \in 1..(n + 1) : m[i] = Append(ls, line)[i]
      BY <3>3, <3>4, <3>5, <3>6
    <3> QED
      BY <3>1, <3>2, <3>3, <3>7, SeqEqual
  <2>7. Forwarded'
    <3>1. PICK t : t = Tail(queue)
      OBVIOUS
    <3>2. <<line>> \in Seq(Y) /\ t \in Seq(Y) /\ queue = <<line>> \o t
      BY <1>7, <3>1
    <3>3. ls \o (<<line>> \o t) = (ls \o <<line>>) \o t
      BY <1>9, <3>2, ConcatAssociative
    <3>4. Append(ls, line) = ls \o <<line>>
      BY <1>7, <1>9, AppendIsConcat
    <3>5. Audible(handled) = LinesOf(c) \o t
      BY <1>10, <2>6, <3>2, <3>3, <3>4
    <3>6. Audible(handled') = LinesOf(chain') \o t /\ queue' = t
      BY <1>1, <2>1, <2>3, <3>1, <3>5
    <3> QED
      BY <1>5, <3>2, <3>6 DEF Forwarded
  <2>8. StreamTypes'
    BY <1>1, <1>5, <1>11, <2>1, <2>3, <2>5 DEF StreamInv, StreamTypes
  <2>9. Typed(chain)'
    <3>1. \A i \in 1..n : c[i][2] = "runtime.parse_failure" <=> Kind(c[i][1]) = "garbage"
      BY <2>4, <2>5 DEF StreamInv, Typed
    <3>2. c[n + 1][2] = "runtime.parse_failure" <=> Kind(c[n + 1][1]) = "garbage"
      <4>1. PICK w : w = Kind(line)
        OBVIOUS
      <4>2. kind = "runtime.parse_failure" <=> w = "garbage"
        BY <1>3, <4>1, RecordedKind
      <4>3. c[n + 1][2] = kind /\ c[n + 1][1] = line
        BY <2>5
      <4> QED
        BY <4>1, <4>2, <4>3
    <3>3. \A i \in 1..(n + 1) : i \in 1..n \/ i = n + 1
      OBVIOUS
    <3>4. Typed(c)
      BY <2>5, <3>1, <3>2, <3>3 DEF Typed
    <3> QED
      BY <2>1, <2>3, <3>4 DEF Typed
  <2>10. Consumed' /\ Succeeded'
    BY <1>1, <1>11, <2>1 DEF StreamInv, Consumed, Succeeded, Received, Lines
  <2> QED
    BY <2>7, <2>8, <2>9, <2>10 DEF StreamInv
<1> QED
  BY <1>12, <1>13

LEMMA AcceptThrowsStep == StreamInv /\ AcceptThrows => StreamInv'
<1> SUFFICES ASSUME StreamInv, AcceptThrows
             PROVE  StreamInv'
  OBVIOUS
<1>1. /\ queue # <<>> /\ ~ broken /\ queue' = Tail(queue) /\ broken' = TRUE
      /\ faults < MaxFaults /\ faults' = faults + 1
      /\ UNCHANGED <<stdout, sent, torn, buffer, handled, chain, state, exceeded>>
  BY DEF AcceptThrows, AfterReject
<1>2. PICK Y : Y = Texts
  OBVIOUS
<1>3. queue \in Seq(Y) /\ queue' \in Seq(Y) /\ state # "ok"
  BY <1>1, <1>2 DEF StreamInv, StreamTypes, Succeeded
<1>4. Forwarded'
  BY <1>1 DEF StreamInv, Forwarded
<1>5. faults' \in 0..MaxFaults
  <2>1. MaxFaults \in Nat /\ faults \in 0..MaxFaults
    BY Bounds DEF StreamInv, StreamTypes
  <2> QED
    BY <1>1, <2>1
<1>6. StreamTypes'
  BY <1>1, <1>2, <1>3, <1>5 DEF StreamInv, StreamTypes
<1>7. Typed(chain)' /\ Consumed' /\ Succeeded'
  BY <1>1, <1>3 DEF StreamInv, Typed, Consumed, Succeeded, Received, Lines
<1> QED
  BY <1>4, <1>6, <1>7 DEF StreamInv

\* Wherever the chunk ends: the lines it completes and the part it leaves are those of
\* the whole text delivered so far.
LEMMA ChunkStep == StreamInv /\ Chunk => StreamInv'
<1> SUFFICES ASSUME StreamInv, Chunk
             PROVE  StreamInv'
  OBVIOUS
<1>1. PICK X : Texts = Seq(X) /\ X = Parts
  BY DEF Texts
<1>2. stdout \in Seq(X) /\ buffer \in Seq(X) /\ sent \in 0..Len(stdout)
  BY <1>1 DEF StreamInv, StreamTypes
<1>3. PICK upto \in (sent + 1)..Len(stdout), cut \in BOOLEAN :
         LET cuts  == IF cut THEN torn \cup {upto, upto + 1} ELSE torn
             text  == buffer \o Decoded(sent + 1, upto, cuts)
             lines == SplitLines(text)
         IN  /\ sent' = upto /\ torn' = cuts
             /\ buffer' = Partial(text)
             /\ HandleLines(lines)
             /\ state' = IF \E i \in 1..Len(lines) : Throws(lines[i])
                         THEN "server down" ELSE "running"
  BY DEF Chunk
<1>4. state = "running" /\ UNCHANGED <<stdout, broken, chain, exceeded, faults>>
  BY DEF Chunk
<1>5. PICK b : b = Decoded(sent + 1, upto, torn')
  OBVIOUS
<1>6. PICK a : a = Received
  OBVIOUS
<1>7. PICK text : text = buffer \o b
  OBVIOUS
<1>8. PICK lines : lines = SplitLines(text)
  OBVIOUS
<1>9. /\ sent' = upto /\ torn' = IF cut THEN torn \cup {upto, upto + 1} ELSE torn
      /\ buffer' = Partial(text) /\ HandleLines(lines)
      /\ state' = IF \E i \in 1..Len(lines) : Throws(lines[i]) THEN "server down" ELSE "running"
  BY <1>3, <1>5, <1>7, <1>8
<1>10. sent' \in 0..Len(stdout) /\ upto \in Nat /\ sent \in Nat
  <2>1. Len(stdout) \in Nat /\ sent \in Nat
    BY <1>2
  <2>2. upto \in (sent + 1)..Len(stdout)
    OBVIOUS
  <2>3. upto \in Nat /\ upto \in 0..Len(stdout)
    BY <2>1, <2>2
  <2> QED
    BY <1>9, <2>1, <2>3
<1>11. a \in Seq(X) /\ b \in Seq(X) /\ Received' = Cat(a, b)
  <2>1. /\ a = [p \in 1..sent |-> IF p \in torn THEN Torn(stdout[p]) ELSE stdout[p]]
        /\ b = [q \in 1..(upto - sent) |->
                  IF sent + q \in torn' THEN Torn(stdout[sent + q]) ELSE stdout[sent + q]]
    <3>1. upto - (sent + 1) + 1 = upto - sent
      BY <1>10
    <3>2. b = [q \in 1..(upto - sent) |->
                 IF (sent + 1) + q - 1 \in torn' THEN Torn(stdout[(sent + 1) + q - 1])
                 ELSE stdout[(sent + 1) + q - 1]]
      BY <1>5, <3>1, Zenon DEF Decoded
    <3>3. \A q \in 1..(upto - sent) : (sent + 1) + q - 1 = sent + q
      BY <1>10
    <3> QED
      BY <1>6, <3>2, <3>3, Zenon DEF Received
  <2>2. upto - sent \in Nat /\ sent < upto /\ upto <= Len(stdout)
    BY <1>2, <1>10
  <2>3. \A p \in 1..Len(stdout) : stdout[p] \in X /\ Torn(stdout[p]) \in X
    <3> SUFFICES ASSUME NEW p \in 1..Len(stdout)
                 PROVE  stdout[p] \in X /\ Torn(stdout[p]) \in X
      OBVIOUS
    <3>1. stdout[p] \in X
      BY <1>2
    <3> QED
      BY <1>1, <3>1 DEF Parts, Torn
  <2>4. a \in Seq(X) /\ Len(a) = sent /\ b \in Seq(X) /\ Len(b) = upto - sent
    <3>1. \A p \in 1..sent : a[p] \in X
      BY <1>10, <2>1, <2>2, <2>3
    <3>2. \A q \in 1..(upto - sent) : sent + q \in 1..Len(stdout)
      BY <1>10, <2>2
    <3>3. \A q \in 1..(upto - sent) : b[q] \in X
      BY <2>1, <2>3, <3>2
    <3> QED
      BY <1>10, <2>1, <2>2, <3>1, <3>3
  <2>5. PICK c : c = Received'
    OBVIOUS
  <2>6. c = [p \in 1..upto |-> IF p \in torn' THEN Torn(stdout[p]) ELSE stdout[p]]
    BY <1>4, <1>9, <2>5 DEF Received
  <2>7. c \in Seq(X) /\ Len(c) = upto
    BY <1>10, <2>2, <2>3, <2>6
  <2>8. /\ Cat(a, b) \in Seq(X) /\ Len(Cat(a, b)) = upto
        /\ \A p \in 1..sent : Cat(a, b)[p] = a[p]
        /\ \A q \in 1..(upto - sent) : Cat(a, b)[sent + q] = b[q]
    <3>1. a \in Seq(X) /\ b \in Seq(X)
      BY <2>4
    <3>2. /\ a \o b \in Seq(X) /\ Len(a \o b) = Len(a) + Len(b)
          /\ \A i \in 1..Len(a) : (a \o b)[i] = a[i]
          /\ \A i \in 1..Len(b) : (a \o b)[Len(a) + i] = b[i]
      BY <3>1, SMT
    <3>3. Len(a) = sent /\ Len(b) = upto - sent /\ sent + (upto - sent) = upto
      BY <1>10, <2>2, <2>4
    <3>4. Cat(a, b) = a \o b
      BY Zenon DEF Cat
    <3> QED
      BY <3>2, <3>3, <3>4, Zenon
  <2>9. \A p \in 1..sent : p \in torn' <=> p \in torn
    <3> SUFFICES ASSUME NEW p \in 1..sent
                 PROVE  p \in torn' <=> p \in torn
      OBVIOUS
    <3>1. p # upto /\ p # upto + 1
      BY <1>10, <2>2
    <3>2. torn' = torn \/ torn' = torn \cup {upto, upto + 1}
      BY <1>9, Zenon
    <3> QED
      BY <3>1, <3>2, Zenon
  <2>10. \A p \in 1..upto : c[p] = Cat(a, b)[p]
    <3> SUFFICES ASSUME NEW p \in 1..upto
                 PROVE  c[p] = Cat(a, b)[p]
      OBVIOUS
    <3>1. CASE p \in 1..sent
      BY <1>10, <2>1, <2>2, <2>6, <2>8, <2>9, <3>1
    <3>2. CASE p \notin 1..sent
      <4>1. PICK q \in 1..(upto - sent) : p = sent + q
        <5>1. p - sent \in 1..(upto - sent) /\ p = sent + (p - sent)
          BY <1>10, <2>2, <3>2
        <5> QED
          BY <5>1
      <4>2. b[q] = IF p \in torn' THEN Torn(stdout[p]) ELSE stdout[p]
        BY <2>1, <4>1, Zenon
      <4>3. c[p] = IF p \in torn' THEN Torn(stdout[p]) ELSE stdout[p]
        BY <2>6, Zenon
      <4>4. Cat(a, b)[p] = b[q]
        BY <2>8, <4>1, Zenon
      <4> QED
        BY <4>2, <4>3, <4>4, Zenon
    <3> QED
      BY <3>1, <3>2
  <2> QED
    BY <2>4, <2>5, <2>7, <2>8, <2>10, SeqEqual
<1>12. text \in Seq(X)
  BY <1>2, <1>7, <1>11
<1>13. lines \in Seq(Texts) /\ buffer' \in Texts
  <2>1. PICK k : k = Cardinality(Newlines(text))
    OBVIOUS
  <2>2. lines \in Seq(Seq(X))
    BY <1>8, <1>12, <2>1, SplitFacts
  <2>3. PICK la : la = Last(Starts(text))
    OBVIOUS
  <2>4. Partial(text) \in Seq(X)
    BY <1>12, <2>3, PartialFacts
  <2> QED
    BY <1>1, <1>9, <2>2, <2>4
<1>14. PICK done \in Seq(Texts) :
          /\ handled' = handled \o done /\ queue' = queue \o Audible(done)
          /\ (\A i \in 1..Len(lines) : ~ Throws(lines[i])) => done = lines
  BY <1>9, <1>13, HandleFacts
<1>15. handled' \in Seq(Texts) /\ queue' \in Seq(Texts) /\ Forwarded'
  BY <1>4, <1>14, HandleForwards DEF StreamInv
<1>16. StreamTypes'
  BY <1>4, <1>9, <1>10, <1>13, <1>15 DEF StreamInv, StreamTypes, Complete
<1>17. Consumed'
  <2> SUFFICES ASSUME ~ exceeded', state' = "running"
               PROVE  handled' = SplitLines(Received') /\ buffer' = Partial(Received')
    BY <1>9 DEF Consumed
  <2>1. done = lines
    BY <1>9, <1>14
  <2>2. handled = SplitLines(a) /\ buffer = Partial(a)
    BY <1>4, <1>6 DEF StreamInv, Consumed
  <2>3. /\ SplitLines(Cat(a, b)) = Cat(SplitLines(a), SplitLines(Cat(Partial(a), b)))
        /\ Partial(Cat(a, b)) = Partial(Cat(Partial(a), b))
    BY <1>11, SplitJoin
  <2>4. text = Cat(Partial(a), b)
    BY <1>7, <2>2 DEF Cat
  <2>5. Received' = Cat(a, b)
    BY <1>11
  <2>6. handled' = Cat(SplitLines(a), lines)
    BY <1>14, <2>1, <2>2 DEF Cat
  <2> QED
    BY <1>8, <1>9, <2>3, <2>4, <2>5, <2>6
<1>18. Typed(chain)' /\ Succeeded'
  BY <1>4, <1>9 DEF StreamInv, Typed, Succeeded
<1> QED
  BY <1>15, <1>16, <1>17, <1>18 DEF StreamInv

LEMMA ChunkExceedsStep == StreamInv /\ ChunkExceeds => StreamInv'
<1> SUFFICES ASSUME StreamInv, ChunkExceeds
             PROVE  StreamInv'
  OBVIOUS
<1>1. /\ state = "running" /\ sent' \in (sent + 1)..Len(stdout)
      /\ stdout' = SubSeq(stdout, 1, sent') /\ exceeded' = TRUE
      /\ UNCHANGED <<buffer, handled, queue, broken, chain, state, faults>>
  BY DEF ChunkExceeds, consumer
<1>2. PICK X : Texts = Seq(X)
  BY DEF Texts
<1>3. stdout' \in Seq(X) /\ sent' \in 0..Len(stdout')
  <2>1. stdout \in Seq(X) /\ sent \in 0..Len(stdout)
    BY <1>2 DEF StreamInv, StreamTypes
  <2>2. PICK k \in Nat : k = sent' /\ k <= Len(stdout)
    BY <1>1, <2>1
  <2>3. SubSeq(stdout, 1, k) \in Seq(X) /\ Len(SubSeq(stdout, 1, k)) = k
    <3>1. \A i \in 1..k : i \in 1..Len(stdout)
      BY <2>2
    <3>2. \A i \in 1..k : stdout[i] \in X
      BY <2>1, <3>1
    <3>3. /\ SubSeq(stdout, 1, k) \in Seq(X)
          /\ Len(SubSeq(stdout, 1, k)) = IF 1 <= k THEN k - 1 + 1 ELSE 0
      BY <3>2, SubSeqProperties
    <3> QED
      BY <3>3
  <2>4. PICK cut : cut = SubSeq(stdout, 1, k)
    OBVIOUS
  <2>5. cut \in Seq(X) /\ Len(cut) = k
    BY <2>3, <2>4
  <2>6. stdout' = cut /\ sent' = k
    BY <1>1, <2>2, <2>4
  <2> QED
    BY <2>5, <2>6
<1>4. StreamTypes'
  BY <1>1, <1>2, <1>3 DEF StreamInv, StreamTypes
<1>5. Forwarded' /\ Typed(chain)' /\ Consumed' /\ Succeeded'
  BY <1>1 DEF StreamInv, Forwarded, Typed, Consumed, Succeeded
<1> QED
  BY <1>4, <1>5 DEF StreamInv

LEMMA CloseStep == StreamInv /\ Close => StreamInv'
<1> SUFFICES ASSUME StreamInv, Close
             PROVE  StreamInv'
  OBVIOUS
<1>1. PICK lines : lines = FlushedText
  OBVIOUS
<1>2. /\ state = "running" /\ buffer' = <<>> /\ HandleLines(lines)
      /\ state' = IF \E i \in 1..Len(lines) : Throws(lines[i]) THEN "failed" ELSE "draining"
      /\ UNCHANGED <<stdout, sent, torn, broken, chain, exceeded, faults>>
  BY <1>1 DEF Close
<1>3. PICK Y : Y = Texts
  OBVIOUS
<1>4. buffer \in Y
  BY <1>3 DEF StreamInv, StreamTypes
<1>5. lines \in Seq(Y)
  BY <1>1, <1>4 DEF FlushedText
<1>6. PICK done \in Seq(Texts) :
         /\ handled' = handled \o done /\ queue' = queue \o Audible(done)
         /\ (\A i \in 1..Len(lines) : ~ Throws(lines[i])) => done = lines
  BY <1>2, <1>3, <1>5, HandleFacts
<1>7. handled' \in Seq(Texts) /\ queue' \in Seq(Texts) /\ Forwarded'
  BY <1>2, <1>6, HandleForwards DEF StreamInv
<1>8. buffer' \in Texts
  BY <1>2 DEF Texts
<1>9. StreamTypes'
  BY <1>2, <1>7, <1>8 DEF StreamInv, StreamTypes, Complete
<1>10. Consumed'
  <2> SUFFICES ASSUME ~ exceeded', state' \in {"draining", "ok"}
               PROVE  handled' = Lines(Received')
    BY <1>2 DEF Consumed
  <2>1. done = lines
    BY <1>2, <1>6
  <2>2. handled = SplitLines(Received) /\ buffer = Partial(Received)
    BY <1>2 DEF StreamInv, Consumed
  <2>3. Received' = Received
    BY <1>2 DEF Received
  <2> QED
    BY <1>1, <1>6, <2>1, <2>2, <2>3 DEF FlushedText, Lines
<1>11. Typed(chain)' /\ Succeeded'
  BY <1>2 DEF StreamInv, Typed, Succeeded
<1> QED
  BY <1>7, <1>9, <1>10, <1>11 DEF StreamInv

LEMMA ReturnStep == StreamInv /\ Return => StreamInv'
<1> SUFFICES ASSUME StreamInv, Return
             PROVE  StreamInv'
  OBVIOUS
<1>1. /\ state = "draining" /\ (broken \/ queue = <<>>)
      /\ state' \in {"failed", "ok"} /\ (state' = "ok" => ~ broken /\ ~ exceeded)
      /\ UNCHANGED <<stdout, sent, torn, buffer, handled, queue, broken, chain, exceeded, faults>>
  BY DEF Return, Done, Settled, consumer
<1>2. StreamTypes'
  BY <1>1 DEF StreamInv, StreamTypes, Complete
<1>3. Forwarded' /\ Typed(chain)' /\ Consumed' /\ Succeeded'
  BY <1>1 DEF StreamInv, Forwarded, Typed, Consumed, Succeeded, Received, Lines
<1> QED
  BY <1>2, <1>3 DEF StreamInv

\* The invariant holds in every state of every run.
LEMMA StreamInvariance == Spec => []StreamInv
<1>1. StreamInv /\ [Next]_vars => StreamInv'
  <2> SUFFICES ASSUME StreamInv, [Next]_vars
               PROVE  StreamInv'
    OBVIOUS
  <2>1. CASE UNCHANGED vars
    BY <2>1 DEF vars, consumer, StreamInv, StreamTypes, Forwarded, Typed, Consumed, Succeeded,
                Received, Lines
  <2> QED
    BY <2>1, AcceptStep, AcceptThrowsStep, ChunkStep, ChunkExceedsStep, CloseStep, ReturnStep
       DEF Next
<1> QED
  BY <1>1, StreamBegins, PTL DEF Spec

-----------------------------------------------------------------------------
(* What holds of every run.                                                *)

\* The states, counters and record kinds are those the code has.
THEOREM StreamTypeCorrect == Spec => []TypeOK
<1>1. StreamInv => TypeOK
  <2> SUFFICES ASSUME StreamInv
               PROVE  TypeOK
    OBVIOUS
  <2>1. PICK Y : Y = Texts
    OBVIOUS
  <2>2. chain \in Seq(Y \X RecordKinds)
    BY <2>1 DEF StreamInv, StreamTypes
  <2>3. \A i \in 1..Len(chain) : chain[i][2] \in RecordKinds
    BY <2>2, LinesOfSeq
  <2> QED
    BY <2>3 DEF StreamInv, StreamTypes, TypeOK, RecordKinds
<1> QED
  BY <1>1, StreamInvariance, PTL

\* INV-14: wherever the pipe cuts the stream and whatever append throws, the chain is the
\* lines in the order the child wrote them, none twice and none skipped in the middle.
THEOREM ChainIsOrdered == Spec => []ChainKeepsOrder
<1>1. StreamInv => ChainKeepsOrder
  <2> SUFFICES ASSUME StreamInv
               PROVE  ChainKeepsOrder
    OBVIOUS
  <2>1. PICK Y : Y = Texts
    OBVIOUS
  <2>2. PICK ls : ls = LinesOf(chain)
    OBVIOUS
  <2>3. ls \in Seq(Y)
    BY <2>1, <2>2, LinesOfSeq DEF StreamInv, StreamTypes
  <2>4. PICK rest \in Seq(Y) : Audible(handled) = ls \o rest
    BY <2>1, <2>2 DEF StreamInv, Forwarded
  <2>5. PICK all : all = ls \o rest
    OBVIOUS
  <2>6. /\ all \in Seq(Y) /\ Len(all) = Len(ls) + Len(rest)
        /\ \A i \in 1..Len(ls) : all[i] = ls[i]
    BY <2>3, <2>5, ConcatElements
  <2>7. Len(ls) <= Len(all)
    BY <2>3, <2>6
  <2>8. SubSeq(ls, 1, Len(ls)) = SubSeq(all, 1, Len(ls))
    BY <2>3, <2>6, <2>7
  <2> QED
    BY <2>2, <2>4, <2>5, <2>7, <2>8 DEF ChainKeepsOrder, LinesOf, IsPrefix
<1> QED
  BY <1>1, StreamInvariance, PTL

\* INV-13: a run that succeeds has every line the child wrote in its chain, the
\* unterminated last one too, as it was but for the characters a cut divided, and as
\* a parse failure if and only if it was none of JSON.
THEOREM SuccessTells == Spec => []SuccessIsRecorded
<1>1. StreamInv => SuccessIsRecorded
  <2> SUFFICES ASSUME StreamInv, state = "ok"
               PROVE  /\ LinesOf(chain) = Audible(Delivered)
                      /\ Typed(chain)
    BY DEF SuccessIsRecorded, LinesOf, Typed
  <2>1. ~ broken /\ ~ exceeded /\ queue = <<>>
    BY DEF StreamInv, Succeeded
  <2>2. handled = Delivered
    BY <2>1 DEF StreamInv, Consumed, Received, Delivered
  <2>3. Audible(handled) = LinesOf(chain) \o <<>>
    BY <2>1 DEF StreamInv, Forwarded
  <2>4. PICK Y : Y = Texts
    OBVIOUS
  <2>5. PICK ls : ls = LinesOf(chain)
    OBVIOUS
  <2>6. ls \in Seq(Y)
    BY <2>4, <2>5, LinesOfSeq DEF StreamInv, StreamTypes
  <2>7. ls \o <<>> = ls
    BY <2>6
  <2> QED
    BY <2>2, <2>3, <2>5, <2>7 DEF StreamInv
<1> QED
  BY <1>1, StreamInvariance, PTL
=============================================================================
