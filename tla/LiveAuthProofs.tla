---------------------------- MODULE LiveAuthProofs ----------------------------
(***************************************************************************)
(* LiveAuth for every set of participants, every channel and every bound:  *)
(* whatever the hosts reorder, repeat, reflect or replay, a session's      *)
(* contributions were fixed before it locked, one of them is not the       *)
(* participant's own, no pseudonym returns, and two contexts are equal     *)
(* exactly when the contributions and the channel are.                     *)
(*                                                                         *)
(* The last one rests on what sorting is: first, that an ordering of any   *)
(* list exists; then that it keeps how often each nonce occurs, and that   *)
(* these numbers leave one ordered list.                                   *)
(***************************************************************************)
EXTENDS LiveAuth, SequenceLemmas

-------------------------------------------------------------------------------
(* Ordering a list of numbers.                                             *)

Ascending(f) == \A i, j \in DOMAIN f : i < j => f[i] <= f[j]

\* Reordering by a bijection of its indices.
Reordered(f, p) == [i \in DOMAIN f |-> f[p[i]]]

LEMMA GreatestEntry ==
  ASSUME NEW k \in Nat, k # 0
  PROVE  \A f \in [1..k -> Nat] : \E m \in 1..k : \A i \in 1..k : f[i] <= f[m]
<1> DEFINE Has(n) == \A f \in [1..n -> Nat] : \E m \in 1..n : \A i \in 1..n : f[i] <= f[m]
           S == {n \in Nat : n # 0 => Has(n)}
<1>1. 0 \in S
  OBVIOUS
<1>2. ASSUME NEW n \in Nat, n \in S PROVE n + 1 \in S
  <2>0. ASSUME NEW f \in [1..n + 1 -> Nat]
        PROVE  \E m \in 1..n + 1 : \A i \in 1..n + 1 : f[i] <= f[m]
    <3>1. \A i \in 1..n + 1 : (i \in 1..n \/ i = n + 1) /\ f[i] \in Nat
      OBVIOUS
    <3>2. CASE n = 0
      <4>1. \A i \in 1..n + 1 : i = 1 /\ f[i] <= f[1]
        BY <3>1, <3>2
      <4> QED
        BY <3>2, <4>1
    <3>3. CASE n # 0
      <4>1. PICK g : g = [i \in 1..n |-> f[i]]
        OBVIOUS
      <4>2. g \in [1..n -> Nat]
        BY <3>1, <4>1
      <4>3. PICK m \in 1..n : \A i \in 1..n : g[i] <= g[m]
        BY <1>2, <3>3, <4>2
      <4>4. \A i \in 1..n : f[i] <= f[m]
        BY <4>1, <4>3
      <4>5. CASE f[n + 1] <= f[m]
        <5>1. m \in 1..n + 1 /\ \A i \in 1..n + 1 : f[i] <= f[m]
          BY <3>1, <4>4, <4>5
        <5> QED
          BY <5>1
      <4>6. CASE ~(f[n + 1] <= f[m])
        <5>1. m \in 1..n + 1 /\ n + 1 \in 1..n + 1
          OBVIOUS
        <5>2. \A i \in 1..n + 1 : f[i] <= f[n + 1]
          BY <3>1, <4>4, <4>6, <5>1
        <5> QED
          BY <5>1, <5>2, Zenon
      <4> QED
        BY <4>5, <4>6
    <3> QED
      BY <3>2, <3>3
  <2>1. Has(n + 1)
    BY <2>0, Zenon
  <2> QED
    BY <2>1, n + 1 \in Nat
<1> HIDE DEF S
<1>3. k \in S
  BY <1>1, <1>2, Induct
<1> QED
  BY <1>3 DEF S

(* Take a greatest entry to the end and order the others.                  *)
LEMMA OrderingExists ==
  ASSUME NEW k \in Nat
  PROVE  \A f \in [1..k -> Nat] : \E p \in Bijection(1..k, 1..k) : Ascending(Reordered(f, p))
<1> DEFINE Has(n) == \A f \in [1..n -> Nat] :
                       \E p \in Bijection(1..n, 1..n) : \A i, j \in 1..n : i < j => f[p[i]] <= f[p[j]]
           S == {n \in Nat : Has(n)}
<1>1. 0 \in S
  <2>1. ASSUME NEW f \in [1..0 -> Nat]
        PROVE  \E p \in Bijection(1..0, 1..0) : \A i, j \in 1..0 : i < j => f[p[i]] <= f[p[j]]
    <3>1. [i \in 1..0 |-> i] \in Bijection(1..0, 1..0)
      BY DEF Bijection, Injection, Surjection, IsInjective
    <3> QED
      BY <3>1
  <2> QED
    BY <2>1
<1>2. ASSUME NEW n \in Nat, n \in S PROVE n + 1 \in S
  <2> SUFFICES ASSUME NEW f \in [1..n + 1 -> Nat]
               PROVE  \E p \in Bijection(1..n + 1, 1..n + 1) :
                        \A i, j \in 1..n + 1 : i < j => f[p[i]] <= f[p[j]]
    OBVIOUS
  <2>1. PICK m \in 1..n + 1 : \A i \in 1..n + 1 : f[i] <= f[m]
    <3>1. n + 1 \in Nat /\ n + 1 # 0
      OBVIOUS
    <3> QED
      BY <3>1, GreatestEntry
  \* The n others, the last one standing in for the greatest.
  <2>2. PICK other : other = [i \in 1..n |-> IF i = m THEN n + 1 ELSE i]
    OBVIOUS
  <2>3. /\ other \in [1..n -> 1..n + 1]
        /\ \A i \in 1..n : other[i] # m
        /\ \A i, j \in 1..n : other[i] = other[j] => i = j
        /\ \A v \in 1..n + 1 : v # m => \E i \in 1..n : other[i] = v
    <3>1. ASSUME NEW v \in 1..n + 1, v # m PROVE \E i \in 1..n : other[i] = v
      <4>1. CASE v = n + 1
        <5>1. m \in 1..n
          BY <3>1, <4>1
        <5> QED
          BY <2>2, <4>1, <5>1
      <4>2. CASE v # n + 1
        <5>1. v \in 1..n
          BY <4>2
        <5> QED
          BY <2>2, <3>1, <5>1
      <4> QED
        BY <4>1, <4>2
    <3>2. \A i \in 1..n : other[i] \in 1..n + 1 /\ other[i] # m
      BY <2>2
    <3>3. \A i, j \in 1..n : other[i] = other[j] => i = j
      BY <2>2
    <3> QED
      BY <2>2, <3>1, <3>2, <3>3
  <2>4. PICK g : g = [i \in 1..n |-> f[other[i]]]
    OBVIOUS
  <2>5. PICK p \in Bijection(1..n, 1..n) : \A i, j \in 1..n : i < j => g[p[i]] <= g[p[j]]
    <3>1. g \in [1..n -> Nat] /\ Has(n)
      BY <1>2, <2>3, <2>4
    <3> QED
      BY <3>1
  <2>6. /\ p \in [1..n -> 1..n]
        /\ \A i, j \in 1..n : p[i] = p[j] => i = j
        /\ \A v \in 1..n : \E i \in 1..n : p[i] = v
    BY DEF Bijection, Injection, Surjection, IsInjective
  <2>7. PICK q : q = [i \in 1..n + 1 |-> IF i = n + 1 THEN m ELSE other[p[i]]]
    OBVIOUS
  <2>8. /\ \A i \in 1..n : q[i] = other[p[i]]
        /\ q[n + 1] = m
        /\ \A i \in 1..n + 1 : i \in 1..n \/ i = n + 1
    BY <2>7
  <2>9. q \in Bijection(1..n + 1, 1..n + 1)
    <3>1. q \in [1..n + 1 -> 1..n + 1]
      <4>1. \A i \in 1..n + 1 : q[i] \in 1..n + 1
        BY <2>3, <2>6, <2>8
      <4> QED
        BY <2>7, <4>1
    <3>2. ASSUME NEW i \in 1..n + 1, NEW j \in 1..n + 1, q[i] = q[j] PROVE i = j
      <4>1. CASE i \in 1..n /\ j \in 1..n
        <5>1. p[i] \in 1..n /\ p[j] \in 1..n /\ other[p[i]] = other[p[j]]
          BY <2>6, <2>8, <3>2, <4>1
        <5> QED
          BY <2>3, <2>6, <4>1, <5>1
      <4>2. \A x \in 1..n : q[x] # m
        <5>1. ASSUME NEW x \in 1..n PROVE q[x] # m
          <6>1. p[x] \in 1..n /\ q[x] = other[p[x]]
            BY <2>6, <2>8
          <6> QED
            BY <2>3, <6>1
        <5> QED
          BY <5>1
      <4> QED
        BY <2>8, <3>2, <4>1, <4>2
    <3>3. \A v \in 1..n + 1 : \E i \in 1..n + 1 : q[i] = v
      <4> SUFFICES ASSUME NEW v \in 1..n + 1 PROVE \E i \in 1..n + 1 : q[i] = v
        OBVIOUS
      <4>1. CASE v = m
        BY <2>8, <4>1
      <4>2. CASE v # m
        <5>1. PICK j \in 1..n : other[j] = v
          BY <2>3, <4>2
        <5>2. PICK i \in 1..n : p[i] = j
          BY <2>6
        <5>3. i \in 1..n + 1 /\ q[i] = v
          BY <2>8, <5>1, <5>2
        <5> QED
          BY <5>3
      <4> QED
        BY <4>1, <4>2
    <3> QED
      BY <3>1, <3>2, <3>3 DEF Bijection, Injection, Surjection, IsInjective
  <2>10. ASSUME NEW i \in 1..n + 1, NEW j \in 1..n + 1, i < j PROVE f[q[i]] <= f[q[j]]
    <3>1. i \in 1..n
      BY <2>10
    <3>2. f[q[i]] = g[p[i]] /\ q[i] \in 1..n + 1
      <4>1. p[i] \in 1..n /\ q[i] = other[p[i]]
        BY <2>6, <2>8, <3>1
      <4> QED
        BY <2>3, <2>4, <4>1
    <3>3. CASE j = n + 1
      BY <2>1, <2>8, <3>2, <3>3
    <3>4. CASE j \in 1..n
      <4>1. p[j] \in 1..n /\ q[j] = other[p[j]]
        BY <2>6, <2>8, <3>4
      <4>2. f[q[j]] = g[p[j]]
        BY <2>4, <4>1
      <4> QED
        BY <2>5, <2>10, <3>1, <3>2, <3>4, <4>2
    <3> QED
      BY <2>8, <3>3, <3>4
  <2> QED
    BY <2>9, <2>10
<1> HIDE DEF S
<1>3. k \in S
  BY <1>1, <1>2, Induct
<1>4. Has(k)
  BY <1>3 DEF S
<1>5. ASSUME NEW f \in [1..k -> Nat]
      PROVE  \E p \in Bijection(1..k, 1..k) : Ascending(Reordered(f, p))
  <2>1. PICK p \in Bijection(1..k, 1..k) : \A i, j \in 1..k : i < j => f[p[i]] <= f[p[j]]
    BY <1>4
  <2>2. DOMAIN f = 1..k
    OBVIOUS
  <2> QED
    BY <2>1, <2>2 DEF Ascending, Reordered
<1> QED
  BY <1>5

LEMMA InOrderReorders ==
  ASSUME NEW k \in Nat, NEW f \in [1..k -> Nat]
  PROVE  /\ \E p \in Bijection(1..k, 1..k) : InOrder(f) = Reordered(f, p)
         /\ Ascending(InOrder(f))
<1> DEFINE Ordering(p) == \A i, j \in 1..k : i < j => f[p[i]] <= f[p[j]]
<1>1. DOMAIN f = 1..k
  OBVIOUS
<1>2. \E p \in Bijection(1..k, 1..k) : Ordering(p)
  BY <1>1, OrderingExists DEF Ascending, Reordered
<1>3. PICK p : p = CHOOSE x \in Bijection(1..k, 1..k) : Ordering(x)
  OBVIOUS
<1>4. p \in Bijection(1..k, 1..k) /\ Ordering(p)
  BY <1>2, <1>3
<1>5. InOrder(f) = [i \in 1..k |-> f[p[i]]]
  BY <1>1, <1>3 DEF InOrder
<1> QED
  BY <1>1, <1>4, <1>5 DEF Ascending, Reordered

-------------------------------------------------------------------------------
(* What a list's order does not touch, and what is left of it then.        *)

HowOften(f, n) == Cardinality({i \in DOMAIN f : f[i] = n})

LEMMA ReorderingKeepsCounts ==
  ASSUME NEW k \in Nat, NEW f, DOMAIN f = 1..k, NEW p \in Bijection(1..k, 1..k), NEW n
  PROVE  HowOften(Reordered(f, p), n) = HowOften(f, n)
<1> DEFINE A == {i \in 1..k : f[p[i]] = n}
           B == {i \in 1..k : f[i] = n}
           h == [i \in A |-> p[i]]
<1>1. /\ p \in [1..k -> 1..k]
      /\ \A i, j \in 1..k : p[i] = p[j] => i = j
      /\ \A v \in 1..k : \E i \in 1..k : p[i] = v
  BY DEF Bijection, Injection, Surjection, IsInjective
<1>2. h \in [A -> B] /\ \A i, j \in A : h[i] = h[j] => i = j
  BY <1>1
<1>3. \A v \in B : \E i \in A : h[i] = v
  <2> SUFFICES ASSUME NEW v \in B PROVE \E i \in A : h[i] = v
    OBVIOUS
  <2>1. PICK i \in 1..k : p[i] = v
    BY <1>1
  <2>2. i \in A /\ h[i] = v
    BY <2>1
  <2> QED
    BY <2>2
<1>4. ExistsBijection(A, B)
  <2>1. h \in Bijection(A, B)
    BY <1>2, <1>3 DEF Bijection, Injection, Surjection, IsInjective
  <2> QED
    BY <2>1 DEF ExistsBijection
<1>5. IsFiniteSet(A)
  BY FS_Interval, FS_Subset
<1>6. Cardinality(A) = Cardinality(B)
  BY <1>4, <1>5, FS_Bijection
<1>7. {i \in DOMAIN Reordered(f, p) : Reordered(f, p)[i] = n} = A
  BY DEF Reordered
<1> QED
  BY <1>6, <1>7 DEF HowOften

\* The places of a list that hold at most n.
AtMost(f, n) == {i \in DOMAIN f : f[i] <= n}

LEMMA AtMostIsFinite ==
  ASSUME NEW k \in Nat, NEW f \in [1..k -> Nat], NEW n \in Nat
  PROVE  /\ IsFiniteSet(AtMost(f, n)) /\ IsFiniteSet({i \in DOMAIN f : f[i] = n})
         /\ Cardinality(AtMost(f, n)) \in Nat
<1>1. IsFiniteSet(1..k)
  BY FS_Interval
<1>2. AtMost(f, n) \in SUBSET (1..k) /\ {i \in DOMAIN f : f[i] = n} \in SUBSET (1..k)
  BY DEF AtMost
<1> QED
  BY <1>1, <1>2, FS_Subset, FS_CardinalityType

LEMMA AtMostGrows ==
  ASSUME NEW k \in Nat, NEW f \in [1..k -> Nat], NEW n \in Nat
  PROVE  Cardinality(AtMost(f, n + 1)) = Cardinality(AtMost(f, n)) + HowOften(f, n + 1)
<1>1. PICK A : A = AtMost(f, n)
  OBVIOUS
<1>2. PICK B : B = {i \in DOMAIN f : f[i] = n + 1}
  OBVIOUS
<1>3. AtMost(f, n + 1) = A \cup B
  <2>1. \A i \in DOMAIN f : f[i] <= n + 1 <=> f[i] <= n \/ f[i] = n + 1
    OBVIOUS
  <2> QED
    BY <2>1, <1>1, <1>2 DEF AtMost
<1>4. A \cap B = {}
  BY <1>1, <1>2 DEF AtMost
<1>5. IsFiniteSet(A) /\ IsFiniteSet(B) /\ Cardinality(A) \in Nat /\ Cardinality(B) \in Nat
  BY <1>1, <1>2, AtMostIsFinite, FS_CardinalityType, n + 1 \in Nat
<1>6. Cardinality(A \cup B) = Cardinality(A) + Cardinality(B) - Cardinality(A \cap B)
  BY <1>5, FS_Union
<1>7. Cardinality(A \cap B) = 0
  BY <1>4, FS_EmptySet
<1>8. HowOften(f, n + 1) = Cardinality(B)
  BY <1>2 DEF HowOften
<1>9. Cardinality(A \cup B) = Cardinality(A) + Cardinality(B)
  BY <1>5, <1>6, <1>7
<1> QED
  BY <1>1, <1>3, <1>8, <1>9, Zenon

LEMMA EqualCountsAddUp ==
  ASSUME NEW M \in Nat, NEW a \in Nat, NEW b \in Nat,
         NEW f \in [1..a -> 1..M], NEW g \in [1..b -> 1..M],
         \A n \in 1..M : HowOften(f, n) = HowOften(g, n)
  PROVE  \A n \in 0..M : Cardinality(AtMost(f, n)) = Cardinality(AtMost(g, n))
<1> DEFINE S == {n \in Nat : n <= M => Cardinality(AtMost(f, n)) = Cardinality(AtMost(g, n))}
<1>1. f \in [1..a -> Nat] /\ g \in [1..b -> Nat]
  OBVIOUS
<1>2. 0 \in S
  <2>1. AtMost(f, 0) = {} /\ AtMost(g, 0) = {}
    BY DEF AtMost
  <2> QED
    BY <2>1
<1>3. ASSUME NEW n \in Nat, n \in S PROVE n + 1 \in S
  <2>1. n + 1 <= M => n <= M /\ n + 1 \in 1..M
    OBVIOUS
  <2>2. /\ Cardinality(AtMost(f, n + 1)) = Cardinality(AtMost(f, n)) + HowOften(f, n + 1)
        /\ Cardinality(AtMost(g, n + 1)) = Cardinality(AtMost(g, n)) + HowOften(g, n + 1)
    BY <1>1, AtMostGrows
  <2>3. n + 1 <= M => Cardinality(AtMost(f, n + 1)) = Cardinality(AtMost(g, n + 1))
    BY <1>3, <2>1, <2>2
  <2> QED
    BY <2>3, n + 1 \in Nat
<1> HIDE DEF S
<1>4. Nat \subseteq S
  BY <1>2, <1>3, Induct
<1>5. \A n \in S : n <= M => Cardinality(AtMost(f, n)) = Cardinality(AtMost(g, n))
  BY DEF S
<1> QED
  BY <1>4, <1>5

(* In an ascending list they are the first so many.                        *)
LEMMA AtMostIsInitial ==
  ASSUME NEW k \in Nat, NEW f \in [1..k -> Nat], Ascending(f), NEW n \in Nat
  PROVE  AtMost(f, n) = 1..Cardinality(AtMost(f, n))
<1>1. PICK T : T = {x \in Nat : x >= 1 /\ x \notin AtMost(f, n)}
  OBVIOUS
<1>2. AtMost(f, n) \subseteq 1..k /\ DOMAIN f = 1..k
  BY DEF AtMost
<1>3. T \subseteq Nat /\ k + 1 \in T
  BY <1>1, <1>2
<1>4. PICK x \in T : \A y \in T : x <= y
  BY <1>3, Least
<1>5. x \in Nat /\ x >= 1 /\ x \notin AtMost(f, n) /\ x <= k + 1
  BY <1>1, <1>3, <1>4
<1>6. ASSUME NEW y \in 1..x - 1 PROVE y \in AtMost(f, n)
  BY <1>1, <1>4, <1>5
<1>7. ASSUME NEW y \in AtMost(f, n) PROVE y \in 1..x - 1
  <2>1. y \in 1..k /\ f[y] <= n /\ f[y] \in Nat
    BY <1>2 DEF AtMost
  <2>2. CASE y < x
    BY <1>5, <2>1, <2>2
  <2>3. CASE x < y
    <3>1. x \in 1..k /\ f[x] \in Nat /\ f[x] <= f[y]
      BY <1>2, <1>5, <2>1, <2>3 DEF Ascending
    <3> QED
      BY <1>2, <1>5, <2>1, <3>1 DEF AtMost
  <2>4. y # x
    BY <1>5
  <2> QED
    BY <1>5, <2>1, <2>2, <2>3, <2>4
<1>8. AtMost(f, n) = 1..x - 1
  BY <1>6, <1>7
<1>9. Cardinality(1..x - 1) = x - 1
  BY <1>5, FS_Interval
<1> QED
  BY <1>8, <1>9

LEMMA CountsLeaveOneOrder ==
  ASSUME NEW M \in Nat, NEW a \in Nat, NEW b \in Nat,
         NEW f \in [1..a -> 1..M], NEW g \in [1..b -> 1..M],
         Ascending(f), Ascending(g), \A n \in 1..M : HowOften(f, n) = HowOften(g, n)
  PROVE  f = g
<1>1. f \in [1..a -> Nat] /\ g \in [1..b -> Nat]
  OBVIOUS
<1>2. \A n \in 0..M : AtMost(f, n) = AtMost(g, n)
  <2>1. \A n \in 0..M : Cardinality(AtMost(f, n)) = Cardinality(AtMost(g, n))
    BY EqualCountsAddUp
  <2>2. \A n \in 0..M : /\ AtMost(f, n) = 1..Cardinality(AtMost(f, n))
                        /\ AtMost(g, n) = 1..Cardinality(AtMost(g, n))
    BY <1>1, AtMostIsInitial, \A n \in 0..M : n \in Nat
  <2> QED
    BY <2>1, <2>2
<1>3. AtMost(f, M) = 1..a /\ AtMost(g, M) = 1..b
  BY DEF AtMost
<1>4. a = b
  <2>1. 1..a = 1..b
    BY <1>2, <1>3
  <2>2. Cardinality(1..a) = a /\ Cardinality(1..b) = b
    BY FS_Interval
  <2> QED
    BY <2>1, <2>2
<1>5. ASSUME NEW i \in 1..a PROVE f[i] = g[i]
  <2>1. i \in DOMAIN f /\ i \in DOMAIN g /\ f[i] \in 1..M /\ g[i] \in 1..M
    BY <1>4
  <2>2. i \in AtMost(f, f[i]) /\ i \in AtMost(g, g[i])
    BY <2>1 DEF AtMost
  <2>3. i \in AtMost(g, f[i]) /\ i \in AtMost(f, g[i])
    BY <1>2, <2>1, <2>2
  <2> QED
    BY <2>1, <2>3 DEF AtMost
<1> QED
  BY <1>4, <1>5

SameCounts(f, g, M) == \A n \in 1..M : HowOften(f, n) = HowOften(g, n)

(* The sorted list is the same exactly when every nonce occurs as often.   *)
LEMMA InOrderIsTheCounts ==
  ASSUME NEW M \in Nat, NEW a \in Nat, NEW b \in Nat,
         NEW f \in [1..a -> 1..M], NEW g \in [1..b -> 1..M]
  PROVE  InOrder(f) = InOrder(g) <=> SameCounts(f, g, M)
<1>1. f \in [1..a -> Nat] /\ g \in [1..b -> Nat] /\ DOMAIN f = 1..a /\ DOMAIN g = 1..b
  OBVIOUS
<1>2. PICK p \in Bijection(1..a, 1..a) : InOrder(f) = Reordered(f, p)
  BY <1>1, InOrderReorders
<1>3. PICK q \in Bijection(1..b, 1..b) : InOrder(g) = Reordered(g, q)
  BY <1>1, InOrderReorders
<1>4. \A n : /\ HowOften(InOrder(f), n) = HowOften(f, n)
             /\ HowOften(InOrder(g), n) = HowOften(g, n)
  BY <1>1, <1>2, <1>3, ReorderingKeepsCounts
<1>5. ASSUME \A n \in 1..M : HowOften(f, n) = HowOften(g, n)
      PROVE  InOrder(f) = InOrder(g)
  <2>1. Ascending(InOrder(f)) /\ Ascending(InOrder(g))
    BY <1>1, InOrderReorders
  <2>2. p \in [1..a -> 1..a] /\ q \in [1..b -> 1..b]
    BY DEF Bijection, Injection, Surjection, IsInjective
  <2>3. InOrder(f) \in [1..a -> 1..M] /\ InOrder(g) \in [1..b -> 1..M]
    BY <1>1, <1>2, <1>3, <2>2 DEF Reordered
  <2>4. \A n \in 1..M : HowOften(InOrder(f), n) = HowOften(InOrder(g), n)
    BY <1>4, <1>5
  <2>5. PICK u, v : u = InOrder(f) /\ v = InOrder(g)
    OBVIOUS
  <2>6. /\ u \in [1..a -> 1..M] /\ Ascending(u) /\ v \in [1..b -> 1..M] /\ Ascending(v)
        /\ \A n \in 1..M : HowOften(u, n) = HowOften(v, n)
    BY <2>1, <2>3, <2>4, <2>5
  <2>7. u = v
    BY <2>6, CountsLeaveOneOrder
  <2> QED
    BY <2>5, <2>7
<1>6. ASSUME InOrder(f) = InOrder(g)
      PROVE  \A n \in 1..M : HowOften(f, n) = HowOften(g, n)
  BY <1>4, <1>6
<1> QED
  BY <1>5, <1>6 DEF SameCounts

LEMMA InOrderKeepsNonces ==
  ASSUME NEW k \in Nat, NEW f \in [1..k -> Nat]
  PROVE  Range(InOrder(f)) = Range(f)
<1>1. PICK p \in Bijection(1..k, 1..k) : InOrder(f) = Reordered(f, p)
  BY InOrderReorders
<1>2. p \in [1..k -> 1..k] /\ \A v \in 1..k : \E i \in 1..k : p[i] = v
  BY DEF Bijection, Injection, Surjection, IsInjective
<1>3. InOrder(f) = [i \in 1..k |-> f[p[i]]]
  BY <1>1 DEF Reordered
<1>4. Range(InOrder(f)) = {f[p[i]] : i \in 1..k} /\ Range(f) = {f[i] : i \in 1..k}
  BY <1>3 DEF Range
<1>5. ASSUME NEW n \in Range(f) PROVE n \in {f[p[i]] : i \in 1..k}
  <2>1. PICK v \in 1..k : n = f[v]
    BY <1>4
  <2>2. PICK i \in 1..k : p[i] = v
    BY <1>2
  <2> QED
    BY <2>1, <2>2
<1>6. ASSUME NEW n \in {f[p[i]] : i \in 1..k} PROVE n \in Range(f)
  BY <1>2, <1>4
<1> QED
  BY <1>4, <1>5, <1>6

-------------------------------------------------------------------------------
(* What holds of every reachable state.                                    *)

Commitments == {Commitment(r) : r \in Reveals}

Rosters == SeqsUpTo(Commitments, MaxRoster)

RoundsTyped ==
  /\ drawn \in 0..MaxDraws
  /\ contribution \in [Participants -> Reveals \cup {None}]
  /\ locked \in [Participants -> [roster : Rosters, at : 0..MaxDraws] \cup {None}]
  /\ posted \subseteq Commitments
  /\ openings \subseteq Reveals

(* Nothing is committed to or opened before it is drawn.                   *)
DrawnFirst ==
  /\ \A c \in posted : c[2] <= drawn
  /\ \A r \in openings : r.nonce <= drawn
  /\ \A p \in Participants : contribution[p] # None =>
       /\ contribution[p].blinding = p
       /\ Commitment(contribution[p]) \in posted

(* Until its owner locks, a nonce is nowhere but in its own commitment.    *)
SecretUntilLocked ==
  \A p \in Participants : contribution[p] # None /\ locked[p] = None =>
    /\ \A r \in openings : r.nonce # contribution[p].nonce
    /\ \A c \in posted : c[2] = contribution[p].nonce => c = Commitment(contribution[p])

(* So a locked roster holds it once, beside others drawn before.           *)
RosterFixed(p) ==
  LET roster == locked[p].roster
      own == contribution[p]
  IN /\ own # None
     /\ locked[p].at <= drawn
     /\ Lockable(own, roster)
     /\ \A i \in DOMAIN roster :
          /\ roster[i][2] <= locked[p].at
          /\ roster[i][2] = own.nonce => roster[i] = Commitment(own)

RostersFixed == \A p \in Participants : locked[p] # None => RosterFixed(p)

(* What a finished session was derived from.                               *)
DerivedFrom(s, nonces) ==
  /\ s.context = Context(nonces, s.metadata)
  /\ s.counts = [n \in 1..MaxDraws |-> HowOften(nonces, n)]
  /\ \A i \in DOMAIN nonces : nonces[i] <= s.at
  /\ \E i, j \in DOMAIN nonces : nonces[i] = s.own /\ nonces[j] # s.own

SessionsDerived ==
  \A s \in sessions :
    /\ s.who \in Participants /\ s.own \in 1..MaxDraws /\ s.at \in 0..drawn
    /\ \E k \in 0..MaxRoster : \E nonces \in [1..k -> 1..MaxDraws] : DerivedFrom(s, nonces)

(* A participant's rounds follow each other: a later nonce is drawn after  *)
(* the earlier roster was locked.                                          *)
RoundsApart ==
  \A s \in sessions :
    /\ contribution[s.who] # None => s.at < contribution[s.who].nonce
    /\ \A t \in sessions : s.who = t.who =>
         s.own = t.own \/ s.at < t.own \/ t.at < s.own

RoundInv ==
  RoundsTyped /\ DrawnFirst /\ SecretUntilLocked /\ RostersFixed /\ SessionsDerived /\ RoundsApart

LEMMA CommitmentParts ==
  ASSUME NEW r, NEW q
  PROVE  /\ Commitment(r)[2] = r.nonce /\ Commitment(r)[3] = r.blinding
         /\ Commitment(r) = Commitment(q) <=> r.nonce = q.nonce /\ r.blinding = q.blinding
BY DEF Commitment

LEMMA RosterShape ==
  ASSUME NEW S, NEW s \in SeqsUpTo(S, MaxRoster)
  PROVE  /\ \E k \in 0..MaxRoster : s \in [1..k -> S] /\ Len(s) = k
         /\ Len(s) \in Nat /\ DOMAIN s = 1..Len(s)
         /\ \A i \in DOMAIN s : s[i] \in S
<1>1. PICK k \in 0..MaxRoster : s \in [1..k -> S]
  BY DEF SeqsUpTo
<1>2. k \in Nat
  BY BoundsAssumption
<1>3. s \in Seq(S) /\ DOMAIN s = 1..k
  BY <1>1, <1>2, SeqDef
<1>4. Len(s) = k
  BY <1>2, <1>3, LenProperties
<1> QED
  BY <1>1, <1>2, <1>3, <1>4

LEMMA SeqsUpToMonotonic ==
  ASSUME NEW S, NEW T, S \subseteq T, NEW s \in SeqsUpTo(S, MaxRoster)
  PROVE  s \in SeqsUpTo(T, MaxRoster)
<1>1. PICK k \in 0..MaxRoster : s \in [1..k -> S]
  BY DEF SeqsUpTo
<1>2. s \in [1..k -> T]
  BY <1>1
<1> QED
  BY <1>2 DEF SeqsUpTo

LEMMA RoundInit == Init => RoundInv
<1> SUFFICES ASSUME Init PROVE RoundInv
  OBVIOUS
<1>1. RoundsTyped
  BY BoundsAssumption DEF Init, RoundsTyped
<1>2. DrawnFirst /\ SecretUntilLocked /\ RostersFixed /\ SessionsDerived /\ RoundsApart
  BY DEF Init, DrawnFirst, SecretUntilLocked, RostersFixed, SessionsDerived, RoundsApart
<1> QED
  BY <1>1, <1>2 DEF RoundInv

(* The parts that only sessions and the live contributions matter to.      *)
LEMMA SessionsFrame ==
  ASSUME RoundInv, drawn' \in 0..MaxDraws, drawn <= drawn', UNCHANGED sessions,
         \A p \in Participants : contribution'[p] # None =>
           contribution'[p] = contribution[p] \/ contribution'[p].nonce = drawn + 1
  PROVE  SessionsDerived' /\ RoundsApart'
<1>1. drawn \in Nat /\ drawn' \in Nat
  BY DEF RoundInv, RoundsTyped
<1>2. SessionsDerived'
  <2>1. \A n \in 0..drawn : n \in 0..drawn'
    BY <1>1
  <2> QED
    BY <2>1 DEF RoundInv, SessionsDerived, DerivedFrom
<1>3. ASSUME NEW s \in sessions, contribution'[s.who] # None
      PROVE  s.at < contribution'[s.who].nonce
  <2>1. s.who \in Participants /\ s.at \in Nat /\ s.at <= drawn
    BY <1>1 DEF RoundInv, SessionsDerived
  <2>2. CASE contribution'[s.who] = contribution[s.who]
    BY <1>3, <2>2 DEF RoundInv, RoundsApart
  <2>3. CASE contribution'[s.who].nonce = drawn + 1
    BY <1>1, <2>1, <2>3
  <2> QED
    BY <1>3, <2>1, <2>2, <2>3
<1>4. RoundsApart'
  BY <1>3 DEF RoundInv, RoundsApart
<1> QED
  BY <1>2, <1>4

(* Rosters already locked stay as they were, for want of later draws.      *)
LEMMA RostersFrame ==
  ASSUME RoundInv, drawn' \in 0..MaxDraws, drawn <= drawn',
         NEW p \in Participants, locked[p] # None,
         UNCHANGED <<locked[p], contribution[p]>>
  PROVE  RosterFixed(p)'
<1>1. RosterFixed(p)
  BY DEF RoundInv, RostersFixed
<1>2. locked[p].at \in Nat /\ drawn \in Nat /\ drawn' \in Nat
  BY DEF RoundInv, RoundsTyped
<1>3. locked[p].at <= drawn'
  BY <1>1, <1>2 DEF RosterFixed
<1> QED
  BY <1>1, <1>3 DEF RosterFixed

LEMMA NewStep ==
  ASSUME RoundInv, NEW p \in Participants, New(p)
  PROVE  RoundInv'
<1>1. PICK own : own = [nonce |-> drawn + 1, blinding |-> p]
  OBVIOUS
<1>2. /\ drawn < MaxDraws /\ contribution[p] = None /\ drawn' = drawn + 1
      /\ contribution' = [contribution EXCEPT ![p] = own]
      /\ posted' = posted \cup {Commitment(own)}
      /\ UNCHANGED <<locked, openings, sessions>>
  BY <1>1 DEF New
<1>3. /\ drawn \in Nat /\ drawn' \in Nat /\ drawn' \in 0..MaxDraws
      /\ own \in Reveals /\ own.nonce = drawn + 1 /\ own.blinding = p
  BY <1>1, <1>2, BoundsAssumption DEF RoundInv, RoundsTyped, Reveals
<1>4. /\ contribution'[p] = own
      /\ \A q \in Participants : q # p => contribution'[q] = contribution[q]
  BY <1>2 DEF RoundInv, RoundsTyped
<1>5. \A q \in Participants : contribution[q] # None =>
        contribution[q] \in Reveals /\ contribution[q].nonce \in Nat /\ contribution[q].nonce <= drawn
  <2> SUFFICES ASSUME NEW q \in Participants, contribution[q] # None
               PROVE  /\ contribution[q] \in Reveals /\ contribution[q].nonce \in Nat
                      /\ contribution[q].nonce <= drawn
    OBVIOUS
  <2>1. contribution[q] \in Reveals /\ Commitment(contribution[q]) \in posted
    BY DEF RoundInv, RoundsTyped, DrawnFirst
  <2>2. Commitment(contribution[q])[2] <= drawn
    BY <2>1 DEF RoundInv, DrawnFirst
  <2> QED
    BY <2>1, <2>2, CommitmentParts DEF Reveals
<1>6. \A c \in posted : c[2] \in Nat /\ c[2] <= drawn
  <2> SUFFICES ASSUME NEW c \in posted PROVE c[2] \in Nat /\ c[2] <= drawn
    OBVIOUS
  <2>1. PICK r \in Reveals : c = Commitment(r)
    BY DEF RoundInv, RoundsTyped, Commitments
  <2> QED
    BY <2>1, CommitmentParts DEF RoundInv, DrawnFirst, Reveals
<1>7. \A r \in openings : r.nonce \in Nat /\ r.nonce <= drawn
  BY DEF RoundInv, RoundsTyped, DrawnFirst, Reveals
<1>8. RoundsTyped'
  <2>1. posted' \subseteq Commitments
    BY <1>2, <1>3 DEF RoundInv, RoundsTyped, Commitments
  <2> QED
    BY <1>2, <1>3, <2>1 DEF RoundInv, RoundsTyped
<1>9. DrawnFirst'
  <2>1. \A c \in posted' : c[2] <= drawn'
    BY <1>2, <1>3, <1>6, CommitmentParts
  <2>2. \A r \in openings' : r.nonce <= drawn'
    BY <1>2, <1>3, <1>7
  <2>3. \A q \in Participants : contribution'[q] # None =>
          contribution'[q].blinding = q /\ Commitment(contribution'[q]) \in posted'
    BY <1>2, <1>3, <1>4 DEF RoundInv, DrawnFirst
  <2> QED
    BY <2>1, <2>2, <2>3 DEF DrawnFirst
<1>10. SecretUntilLocked'
  <2> SUFFICES ASSUME NEW q \in Participants, contribution'[q] # None, locked[q] = None
               PROVE  /\ \A r \in openings : r.nonce # contribution'[q].nonce
                      /\ \A c \in posted' : c[2] = contribution'[q].nonce
                                            => c = Commitment(contribution'[q])
    BY <1>2 DEF SecretUntilLocked
  <2>1. CASE q = p
    <3>1. \A r \in openings : r.nonce # drawn + 1
      BY <1>3, <1>7
    <3>2. \A c \in posted : c[2] # drawn + 1
      BY <1>3, <1>6
    <3> QED
      BY <1>2, <1>3, <1>4, <2>1, <3>1, <3>2
  <2>2. CASE q # p
    <3>1. contribution'[q] = contribution[q] /\ Commitment(own)[2] # contribution[q].nonce
      BY <1>3, <1>4, <1>5, <2>2, CommitmentParts
    <3> QED
      BY <1>2, <3>1 DEF RoundInv, SecretUntilLocked
  <2> QED
    BY <2>1, <2>2
<1>11. RostersFixed'
  <2> SUFFICES ASSUME NEW q \in Participants, locked[q] # None PROVE RosterFixed(q)'
    BY <1>2 DEF RostersFixed
  <2>1. contribution[q] # None
    BY DEF RoundInv, RostersFixed, RosterFixed
  <2>2. UNCHANGED <<locked[q], contribution[q]>>
    BY <1>2, <1>4, <2>1
  <2> QED
    BY <1>2, <1>3, <2>2, RostersFrame
<1>12. SessionsDerived' /\ RoundsApart'
  BY <1>2, <1>3, <1>4, SessionsFrame
<1> QED
  BY <1>8, <1>9, <1>10, <1>11, <1>12 DEF RoundInv

(* Only what is live is secret, so ending a round exposes nothing.         *)
LEMMA DropStep ==
  ASSUME RoundInv, NEW p \in Participants,
         contribution' = [contribution EXCEPT ![p] = None],
         locked' \in {locked, [locked EXCEPT ![p] = None]},
         locked' = locked => locked[p] = None,
         UNCHANGED <<drawn, posted, openings>>
  PROVE  RoundsTyped' /\ DrawnFirst' /\ SecretUntilLocked' /\ RostersFixed'
<1>1. /\ contribution'[p] = None /\ locked'[p] = None
      /\ \A q \in Participants : q # p => contribution'[q] = contribution[q] /\ locked'[q] = locked[q]
  BY DEF RoundInv, RoundsTyped
<1>2. RoundsTyped'
  BY DEF RoundInv, RoundsTyped
<1>3. DrawnFirst'
  BY <1>1 DEF RoundInv, DrawnFirst
<1>4. SecretUntilLocked'
  BY <1>1 DEF RoundInv, SecretUntilLocked
<1>5. RostersFixed'
  <2> SUFFICES ASSUME NEW q \in Participants, locked'[q] # None PROVE RosterFixed(q)'
    BY DEF RostersFixed
  <2>1. UNCHANGED <<locked[q], contribution[q]>> /\ locked[q] # None
    BY <1>1
  <2>2. drawn' \in 0..MaxDraws /\ drawn <= drawn'
    BY <1>2 DEF RoundsTyped
  <2> QED
    BY <2>1, <2>2, RostersFrame
<1> QED
  BY <1>2, <1>3, <1>4, <1>5

LEMMA LockStep ==
  ASSUME RoundInv, NEW p \in Participants, NEW roster \in SeqsUpTo(posted, MaxRoster), Lock(p, roster)
  PROVE  RoundInv'
<1>1. PICK lock : lock = [roster |-> roster, at |-> drawn]
  OBVIOUS
<1>2. /\ contribution[p] # None /\ locked[p] = None /\ Lockable(contribution[p], roster)
      /\ locked' = [locked EXCEPT ![p] = lock]
      /\ UNCHANGED <<drawn, contribution, rounds, posted, openings, sessions>>
  BY <1>1 DEF Lock
<1>3. /\ locked'[p] = lock
      /\ \A q \in Participants : q # p => locked'[q] = locked[q]
  BY <1>2 DEF RoundInv, RoundsTyped
<1>4. roster \in Rosters /\ drawn \in 0..MaxDraws
  BY SeqsUpToMonotonic DEF RoundInv, RoundsTyped, Rosters
<1>5. RoundsTyped'
  <2>1. lock \in [roster : Rosters, at : 0..MaxDraws]
    BY <1>1, <1>4
  <2> QED
    BY <1>2, <2>1 DEF RoundInv, RoundsTyped
<1>6. DrawnFirst'
  BY <1>2 DEF RoundInv, DrawnFirst
<1>7. SecretUntilLocked'
  BY <1>2, <1>3 DEF RoundInv, SecretUntilLocked
<1>8. RostersFixed'
  <2> SUFFICES ASSUME NEW q \in Participants, locked'[q] # None PROVE RosterFixed(q)'
    BY DEF RostersFixed
  <2>1. CASE q = p
    <3>1. \A i \in DOMAIN roster : roster[i] \in posted
      BY RosterShape
    <3>2. \A i \in DOMAIN roster :
            roster[i][2] <= drawn
            /\ (roster[i][2] = contribution[p].nonce => roster[i] = Commitment(contribution[p]))
      BY <1>2, <3>1 DEF RoundInv, DrawnFirst, SecretUntilLocked
    <3>3. drawn <= drawn
      BY <1>4
    <3> QED
      BY <1>1, <1>2, <1>3, <2>1, <3>2, <3>3 DEF RosterFixed
  <2>2. CASE q # p
    <3>1. UNCHANGED <<locked[q], contribution[q]>> /\ locked[q] # None
      BY <1>2, <1>3, <2>2
    <3> QED
      BY <1>2, <1>4, <3>1, RostersFrame
  <2> QED
    BY <2>1, <2>2
<1>9. SessionsDerived' /\ RoundsApart'
  BY <1>2, <1>4, SessionsFrame
<1> QED
  BY <1>5, <1>6, <1>7, <1>8, <1>9 DEF RoundInv

LEMMA LockRefusedStep ==
  ASSUME RoundInv, NEW p \in Participants, NEW roster, LockRefused(p, roster)
  PROVE  RoundInv'
<1>1. RoundsTyped' /\ DrawnFirst' /\ SecretUntilLocked' /\ RostersFixed'
  BY DropStep DEF LockRefused
<1>2. drawn' \in 0..MaxDraws /\ drawn <= drawn' /\ UNCHANGED sessions
  BY <1>1 DEF RoundsTyped, LockRefused
<1>3. \A q \in Participants : contribution'[q] # None => contribution'[q] = contribution[q]
  BY DEF LockRefused, RoundInv, RoundsTyped
<1>4. SessionsDerived' /\ RoundsApart'
  BY <1>2, <1>3, SessionsFrame
<1> QED
  BY <1>1, <1>4 DEF RoundInv

LEMMA FinishRefusedStep ==
  ASSUME RoundInv, NEW p \in Participants, NEW reveals, NEW scratch,
         FinishRefused(p, reveals, scratch)
  PROVE  RoundInv'
<1>1. RoundsTyped' /\ DrawnFirst' /\ SecretUntilLocked' /\ RostersFixed'
  <2>1. locked' = [locked EXCEPT ![p] = None]
    BY DEF FinishRefused, EndRound
  <2>2. locked' = locked => locked[p] = None
    BY <2>1 DEF RoundInv, RoundsTyped
  <2> QED
    BY <2>1, <2>2, DropStep DEF FinishRefused, EndRound
<1>2. drawn' \in 0..MaxDraws /\ drawn <= drawn' /\ UNCHANGED sessions
  BY <1>1 DEF RoundsTyped, FinishRefused, EndRound
<1>3. \A q \in Participants : contribution'[q] # None => contribution'[q] = contribution[q]
  BY DEF FinishRefused, EndRound, RoundInv, RoundsTyped
<1>4. SessionsDerived' /\ RoundsApart'
  BY <1>2, <1>3, SessionsFrame
<1> QED
  BY <1>1, <1>4 DEF RoundInv

(* A reveal is the locked owner's own: nobody else's nonce gets out.       *)
LEMMA RevealStep ==
  ASSUME RoundInv, NEW p \in Participants, Reveal(p)
  PROVE  RoundInv'
<1>1. /\ locked[p] # None /\ openings' = openings \cup {contribution[p]}
      /\ UNCHANGED <<drawn, contribution, locked, rounds, posted, sessions>>
  BY DEF Reveal
<1>2. contribution[p] # None /\ contribution[p] \in Reveals /\ drawn \in 0..MaxDraws
  BY <1>1 DEF RoundInv, RoundsTyped, RostersFixed, RosterFixed
<1>3. /\ contribution[p].blinding = p /\ Commitment(contribution[p]) \in posted
      /\ contribution[p].nonce <= drawn
  BY <1>2, CommitmentParts DEF RoundInv, DrawnFirst
<1>4. RoundsTyped'
  BY <1>1, <1>2 DEF RoundInv, RoundsTyped
<1>5. DrawnFirst'
  BY <1>1, <1>3 DEF RoundInv, DrawnFirst
<1>6. SecretUntilLocked'
  <2> SUFFICES ASSUME NEW q \in Participants, contribution[q] # None, locked[q] = None
               PROVE  /\ \A r \in openings' : r.nonce # contribution[q].nonce
                      /\ \A c \in posted : c[2] = contribution[q].nonce
                                           => c = Commitment(contribution[q])
    BY <1>1 DEF SecretUntilLocked
  <2>1. q # p /\ contribution[q].blinding = q
    BY <1>1 DEF RoundInv, DrawnFirst
  <2>2. contribution[p].nonce # contribution[q].nonce
    <3> SUFFICES ASSUME contribution[p].nonce = contribution[q].nonce PROVE FALSE
      OBVIOUS
    <3>1. Commitment(contribution[p]) = Commitment(contribution[q])
      BY <1>3, CommitmentParts DEF RoundInv, SecretUntilLocked
    <3> QED
      BY <1>3, <2>1, <3>1, CommitmentParts
  <2> QED
    BY <1>1, <2>2 DEF RoundInv, SecretUntilLocked
<1>7. RostersFixed'
  BY <1>1 DEF RoundInv, RostersFixed, RosterFixed
<1>8. SessionsDerived' /\ RoundsApart'
  BY <1>1, <1>2, SessionsFrame
<1> QED
  BY <1>4, <1>5, <1>6, <1>7, <1>8 DEF RoundInv

(* What finish adds: the openings match a roster that was fixed before.    *)
LEMMA FinishDerives ==
  ASSUME NEW p \in Participants, NEW reveals \in SeqsUpTo(openings, MaxRoster),
         NEW metadata, NEW nonces, NEW s, RoundInv,
         locked[p] # None, Opens(contribution[p], locked[p].roster, reveals),
         nonces = [i \in DOMAIN reveals |-> reveals[i].nonce],
         s = [who |-> p, own |-> contribution[p].nonce, at |-> locked[p].at,
              counts |-> [n \in 1..MaxDraws |-> Occurrences(locked[p].roster, n)],
              metadata |-> metadata, context |-> Context(nonces, metadata)]
  PROVE  \E k \in 0..MaxRoster : nonces \in [1..k -> 1..MaxDraws] /\ DerivedFrom(s, nonces)
<1>1. PICK roster : roster = locked[p].roster
  OBVIOUS
<1>2. PICK own : own = contribution[p]
  OBVIOUS
<1>3. /\ roster \in Rosters /\ own # None /\ own \in Reveals
      /\ Lockable(own, roster)
      /\ \A i \in DOMAIN roster :
           /\ roster[i][2] <= locked[p].at
           /\ roster[i][2] = own.nonce => roster[i] = Commitment(own)
  BY <1>1, <1>2 DEF RoundInv, RoundsTyped, RostersFixed, RosterFixed
<1>4. PICK k \in 0..MaxRoster : reveals \in [1..k -> openings] /\ Len(reveals) = k
  BY RosterShape
<1>5. DOMAIN roster = 1..k /\ Len(roster) = k
  BY <1>1, <1>2, <1>3, <1>4, RosterShape DEF Rosters, Opens
<1>6. nonces \in [1..k -> 1..MaxDraws]
  BY <1>4 DEF RoundInv, RoundsTyped, Reveals
<1>7. \A i \in 1..k : Commitment(reveals[i]) = roster[i] /\ roster[i][2] = nonces[i]
  BY <1>1, <1>2, <1>4, <1>5, CommitmentParts DEF Opens
<1>8. ASSUME NEW n \in 1..MaxDraws PROVE Occurrences(roster, n) = HowOften(nonces, n)
  <2>1. {i \in DOMAIN roster : roster[i][2] = n} = {i \in DOMAIN nonces : nonces[i] = n}
    BY <1>5, <1>6, <1>7
  <2> QED
    BY <2>1 DEF Occurrences, HowOften
<1>9. \A i \in DOMAIN nonces : nonces[i] <= locked[p].at
  BY <1>3, <1>5, <1>6, <1>7
<1>10. \E i, j \in DOMAIN nonces : nonces[i] = own.nonce /\ nonces[j] # own.nonce
  <2>1. PICK i \in 1..k : roster[i] = Commitment(own)
    BY <1>3, <1>5 DEF Lockable, Range
  <2>2. nonces[i] = own.nonce
    <3>1. Commitment(own)[2] = own.nonce
      BY CommitmentParts
    <3> QED
      BY <1>7, <2>1, <3>1
  <2>3. PICK j \in 1..k : j # i
    <3>1. k >= 2 /\ k \in Nat
      BY <1>3, <1>5, BoundsAssumption DEF Lockable
    <3>2. 1 \in 1..k /\ 2 \in 1..k
      BY <3>1
    <3>3. CASE i = 1
      BY <3>2, <3>3
    <3>4. CASE i # 1
      BY <3>2, <3>4
    <3> QED
      BY <3>3, <3>4
  <2>4. roster[j] # roster[i]
    BY <1>3, <1>5, <2>3 DEF Lockable, IsInjective
  <2>5. nonces[j] # own.nonce
    BY <1>3, <1>5, <1>7, <2>1, <2>4
  <2> QED
    BY <1>6, <2>2, <2>5
<1>11. DerivedFrom(s, nonces)
  BY <1>1, <1>2, <1>8, <1>9, <1>10 DEF DerivedFrom
<1> QED
  BY <1>6, <1>11

LEMMA FinishStep ==
  ASSUME RoundInv, NEW p \in Participants, NEW reveals \in SeqsUpTo(openings, MaxRoster),
         NEW scratch, NEW metadata, Finish(p, reveals, scratch, metadata)
  PROVE  RoundInv'
<1>1. PICK nonces : nonces = [i \in DOMAIN reveals |-> reveals[i].nonce]
  OBVIOUS
<1>2. PICK s : s = [who |-> p, own |-> contribution[p].nonce, at |-> locked[p].at,
                    counts |-> [n \in 1..MaxDraws |-> Occurrences(locked[p].roster, n)],
                    metadata |-> metadata, context |-> Context(nonces, metadata)]
  OBVIOUS
<1>3. /\ locked[p] # None /\ Opens(contribution[p], locked[p].roster, reveals)
      /\ sessions' = sessions \cup {s}
      /\ contribution' = [contribution EXCEPT ![p] = None]
      /\ locked' = [locked EXCEPT ![p] = None]
      /\ UNCHANGED <<drawn, rounds, posted, openings>>
  BY <1>1, <1>2 DEF Finish, Finishes, EndRound
<1>4. RoundsTyped' /\ DrawnFirst' /\ SecretUntilLocked' /\ RostersFixed'
  <2>1. locked' = locked => locked[p] = None
    BY <1>3 DEF RoundInv, RoundsTyped
  <2> QED
    BY <1>3, <2>1, DropStep
<1>5. \E k \in 0..MaxRoster : nonces \in [1..k -> 1..MaxDraws] /\ DerivedFrom(s, nonces)
  BY <1>1, <1>2, <1>3, FinishDerives
<1>6. /\ contribution[p] # None /\ contribution[p] \in Reveals
      /\ locked[p].at \in 0..MaxDraws /\ locked[p].at <= drawn /\ drawn \in Nat
  BY <1>3 DEF RoundInv, RoundsTyped, RostersFixed, RosterFixed
<1>7. s.who = p /\ s.own = contribution[p].nonce /\ s.at = locked[p].at
  BY <1>2
<1>8. SessionsDerived'
  <2>1. s.who \in Participants /\ s.own \in 1..MaxDraws /\ s.at \in 0..drawn
    BY <1>6, <1>7 DEF Reveals
  <2>2. \A t \in sessions' : t \in sessions \/ t = s
    BY <1>3
  <2>3. ASSUME NEW t \in sessions'
        PROVE  /\ t.who \in Participants /\ t.own \in 1..MaxDraws /\ t.at \in 0..drawn
               /\ \E k \in 0..MaxRoster : \E f \in [1..k -> 1..MaxDraws] : DerivedFrom(t, f)
    <3>1. CASE t \in sessions
      BY <3>1 DEF RoundInv, SessionsDerived
    <3>2. CASE t = s
      BY <1>5, <2>1, <3>2
    <3> QED
      BY <2>2, <3>1, <3>2
  <2> QED
    BY <1>3, <2>3 DEF SessionsDerived, DerivedFrom
<1>9. RoundsApart'
  <2>1. /\ contribution'[p] = None
        /\ \A q \in Participants : q # p => contribution'[q] = contribution[q]
    BY <1>3 DEF RoundInv, RoundsTyped
  <2>2. \A t \in sessions' : t.who \in Participants /\ (t \in sessions \/ t = s)
    BY <1>3, <1>7 DEF RoundInv, SessionsDerived
  <2>3. \A t \in sessions' : contribution'[t.who] # None => t.at < contribution'[t.who].nonce
    BY <1>7, <2>1, <2>2 DEF RoundInv, RoundsApart
  <2>4. \A t \in sessions : t.who = p => t.at < s.own
    BY <1>6, <1>7 DEF RoundInv, RoundsApart
  <2>5. \A t, u \in sessions' : t.who = u.who => t.own = u.own \/ t.at < u.own \/ u.at < t.own
    BY <1>7, <2>2, <2>4 DEF RoundInv, RoundsApart
  <2> QED
    BY <2>3, <2>5 DEF RoundsApart
<1> QED
  BY <1>4, <1>8, <1>9 DEF RoundInv

(* The stranger's own nonces are fresh, copied or open already.            *)
LEMMA StrangerStep ==
  ASSUME RoundInv, StrangerDraws \/ StrangerCopies \/ StrangerOpens
  PROVE  RoundInv'
<1>1. UNCHANGED <<contribution, locked, rounds, sessions>>
  BY DEF StrangerDraws, StrangerCopies, StrangerOpens
<1>2. drawn \in Nat /\ drawn \in 0..MaxDraws /\ drawn' \in 0..MaxDraws /\ drawn <= drawn'
  BY BoundsAssumption DEF RoundInv, RoundsTyped, StrangerDraws, StrangerCopies, StrangerOpens
\* What is added, of either kind.
<1>3. /\ \A c \in posted' : c \in posted \/ \E r \in Reveals :
           /\ c = Commitment(r) /\ r.nonce <= drawn'
           /\ r.nonce = drawn + 1 \/ \E seen \in openings : r.nonce = seen.nonce
      /\ \A r \in openings' : r \in openings \/
           /\ r \in Reveals /\ r.nonce <= drawn' /\ r.blinding = Stranger
           /\ r.nonce = drawn + 1 \/ Commitment(r) \in posted
      /\ posted \subseteq posted'
  <2>1. CASE StrangerDraws
    <3>1. PICK r : r = [nonce |-> drawn + 1, blinding |-> Stranger]
      OBVIOUS
    <3>2. drawn < MaxDraws /\ drawn' = drawn + 1
      BY <2>1 DEF StrangerDraws
    <3>3. r \in Reveals /\ r.nonce = drawn + 1 /\ r.nonce <= drawn' /\ r.blinding = Stranger
      BY <1>2, <3>1, <3>2, BoundsAssumption DEF Reveals
    <3>4. \/ posted' = posted \cup {Commitment(r)} /\ openings' = openings
          \/ openings' = openings \cup {r} /\ posted' = posted
      BY <2>1, <3>1 DEF StrangerDraws
    <3> QED
      BY <3>3, <3>4
  <2>2. CASE StrangerCopies
    <3>1. drawn' = drawn /\ openings' = openings
      BY <2>2 DEF StrangerCopies
    <3>2. PICK seen \in openings :
            posted' = posted \cup {Commitment([nonce |-> seen.nonce, blinding |-> Stranger])}
      BY <2>2 DEF StrangerCopies
    <3>3. PICK r : r = [nonce |-> seen.nonce, blinding |-> Stranger]
      OBVIOUS
    <3>4. r \in Reveals /\ r.nonce = seen.nonce /\ r.nonce <= drawn'
      BY <3>1, <3>3 DEF RoundInv, RoundsTyped, DrawnFirst, Reveals
    <3> QED
      BY <3>1, <3>2, <3>3, <3>4
  <2>3. CASE StrangerOpens
    <3>1. drawn' = drawn /\ posted' = posted
      BY <2>3 DEF StrangerOpens
    <3>2. PICK r \in Reveals : /\ r.blinding = Stranger /\ Commitment(r) \in posted
                               /\ openings' = openings \cup {r}
      BY <2>3 DEF StrangerOpens
    <3>3. r.nonce <= drawn'
      BY <3>1, <3>2, CommitmentParts DEF RoundInv, DrawnFirst
    <3> QED
      BY <3>1, <3>2, <3>3
  <2> QED
    BY <2>1, <2>2, <2>3
<1>4. RoundsTyped'
  <2>1. posted' \subseteq Commitments /\ openings' \subseteq Reveals
    BY <1>3 DEF RoundInv, RoundsTyped, Commitments
  <2> QED
    BY <1>1, <1>2, <2>1 DEF RoundInv, RoundsTyped
<1>5. DrawnFirst'
  <2>1. \A c \in posted : c[2] <= drawn'
    <3> SUFFICES ASSUME NEW c \in posted PROVE c[2] <= drawn'
      OBVIOUS
    <3>1. PICK r \in Reveals : c = Commitment(r)
      BY DEF RoundInv, RoundsTyped, Commitments
    <3> QED
      BY <1>2, <3>1, CommitmentParts DEF RoundInv, DrawnFirst, Reveals
  <2>2. \A r \in openings : r.nonce <= drawn'
    BY <1>2 DEF RoundInv, RoundsTyped, DrawnFirst, Reveals
  <2>3. \A c \in posted' : c[2] <= drawn'
    BY <1>3, <2>1, CommitmentParts
  <2>4. \A r \in openings' : r.nonce <= drawn'
    BY <1>3, <2>2
  <2> QED
    BY <1>1, <1>3, <2>3, <2>4 DEF RoundInv, DrawnFirst
<1>6. SecretUntilLocked'
  <2> SUFFICES ASSUME NEW q \in Participants, contribution[q] # None, locked[q] = None
               PROVE  /\ \A r \in openings' : r.nonce # contribution[q].nonce
                      /\ \A c \in posted' : c[2] = contribution[q].nonce
                                            => c = Commitment(contribution[q])
    BY <1>1 DEF SecretUntilLocked
  <2>1. /\ \A r \in openings : r.nonce # contribution[q].nonce
        /\ \A c \in posted : c[2] = contribution[q].nonce => c = Commitment(contribution[q])
        /\ contribution[q].blinding = q /\ q # Stranger
    BY StrangerAssumption DEF RoundInv, SecretUntilLocked, DrawnFirst
  <2>2. contribution[q].nonce # drawn + 1
    <3>1. Commitment(contribution[q]) \in posted /\ contribution[q] \in Reveals
      BY DEF RoundInv, RoundsTyped, DrawnFirst
    <3>2. contribution[q].nonce \in Nat /\ contribution[q].nonce <= drawn
      BY <3>1, CommitmentParts DEF RoundInv, DrawnFirst, Reveals
    <3> QED
      BY <1>2, <3>2
  <2>3. ASSUME NEW r \in openings' PROVE r.nonce # contribution[q].nonce
    <3>1. CASE Commitment(r) \in posted /\ r.blinding = Stranger
      BY <2>1, <3>1, CommitmentParts
    <3> QED
      BY <1>3, <2>1, <2>2, <3>1
  <2>4. ASSUME NEW c \in posted', c[2] = contribution[q].nonce
        PROVE  c = Commitment(contribution[q])
    <3>1. CASE c \in posted
      BY <2>1, <2>4, <3>1
    <3>2. CASE c \notin posted
      <4>1. PICK r \in Reveals :
              /\ c = Commitment(r)
              /\ r.nonce = drawn + 1 \/ \E seen \in openings : r.nonce = seen.nonce
        BY <1>3, <3>2
      <4> QED
        BY <2>1, <2>2, <2>4, <4>1, CommitmentParts
    <3> QED
      BY <3>1, <3>2
  <2> QED
    BY <2>3, <2>4
<1>7. RostersFixed'
  <2> SUFFICES ASSUME NEW q \in Participants, locked[q] # None PROVE RosterFixed(q)'
    BY <1>1 DEF RostersFixed
  <2>1. UNCHANGED <<locked[q], contribution[q]>>
    BY <1>1
  <2> QED
    BY <1>2, <2>1, RostersFrame
<1>8. SessionsDerived' /\ RoundsApart'
  BY <1>1, <1>2, SessionsFrame
<1> QED
  BY <1>4, <1>5, <1>6, <1>7, <1>8 DEF RoundInv

LEMMA RoundStep == RoundInv /\ [Next]_vars => RoundInv'
<1> SUFFICES ASSUME RoundInv, [Next]_vars PROVE RoundInv'
  OBVIOUS
<1>1. CASE UNCHANGED vars
  BY <1>1 DEF vars, RoundInv, RoundsTyped, DrawnFirst, SecretUntilLocked, RostersFixed,
    RosterFixed, SessionsDerived, DerivedFrom, RoundsApart
<1>2. ASSUME NEW p \in Participants, New(p) PROVE RoundInv'
  BY <1>2, NewStep
<1>3. ASSUME NEW p \in Participants, NEW roster \in SeqsUpTo(posted, MaxRoster), Lock(p, roster)
      PROVE  RoundInv'
  BY <1>3, LockStep
<1>4. ASSUME NEW p \in Participants, LockRefused(p, << >>) PROVE RoundInv'
  BY <1>4, LockRefusedStep
<1>5. ASSUME NEW p \in Participants, Reveal(p) PROVE RoundInv'
  BY <1>5, RevealStep
<1>6. ASSUME NEW p \in Participants, NEW reveals \in SeqsUpTo(openings, MaxRoster), NEW scratch,
             NEW metadata, Finish(p, reveals, scratch, metadata)
      PROVE  RoundInv'
  BY <1>6, FinishStep
<1>7. ASSUME NEW p \in Participants, FinishRefused(p, << >>, MaxRoster) PROVE RoundInv'
  BY <1>7, FinishRefusedStep
<1>8. CASE StrangerDraws \/ StrangerCopies \/ StrangerOpens
  BY <1>8, StrangerStep
<1> QED
  BY <1>1, <1>2, <1>3, <1>4, <1>5, <1>6, <1>7, <1>8 DEF Next

(* Every reachable state keeps what RoundInv says.                         *)
THEOREM RoundsInductive == Spec => []RoundInv
BY RoundInit, RoundStep, PTL DEF Spec

-------------------------------------------------------------------------------
(* What it says of the sessions.                                           *)

LEMMA SessionNonces ==
  ASSUME RoundInv, NEW s \in sessions
  PROVE  /\ \A n \in Nonces(s) : n \in Nat /\ n <= s.at
         /\ s.own \in Nonces(s) /\ \E n \in Nonces(s) : n # s.own
<1>1. PICK k \in 0..MaxRoster : \E nonces \in [1..k -> 1..MaxDraws] : DerivedFrom(s, nonces)
  BY DEF RoundInv, SessionsDerived
<1>2. PICK nonces \in [1..k -> 1..MaxDraws] : DerivedFrom(s, nonces)
  BY <1>1
<1>3. k \in Nat /\ nonces \in [1..k -> Nat]
  BY BoundsAssumption
<1>4. Nonces(s) = Range(nonces)
  BY <1>2, <1>3, InOrderKeepsNonces DEF DerivedFrom, Context, Nonces
<1> QED
  BY <1>2, <1>3, <1>4 DEF DerivedFrom, Range

LEMMA FixedFirst == RoundInv => ContributionsFixedFirst
BY SessionNonces DEF ContributionsFixedFirst

(* Nobody answers a reveal: a session's nonces were all drawn before its   *)
(* participant locked, and so before its own was opened                    *)
(* (live_auth.rs, Contribution::lock and Locked::finish).                  *)
THEOREM NobodyAnswersAReveal == Spec => []ContributionsFixedFirst
BY RoundsInductive, FixedFirst, PTL

LEMMA AnotherIn == RoundInv => AnotherContributes
<1> SUFFICES ASSUME RoundInv, NEW s \in sessions
             PROVE  s.own \in Nonces(s) /\ Nonces(s) # {s.own}
  BY DEF AnotherContributes
<1> QED
  BY SessionNonces

(* No session is its participant's echo: a nonce other than its own went   *)
(* in, though strangers copy what is open and hosts reflect what is posted.*)
THEOREM NoSessionIsAnEcho == Spec => []AnotherContributes
BY RoundsInductive, AnotherIn, PTL

LEMMA PseudonymsApart == RoundInv => NoPseudonymTwice
<1> SUFFICES ASSUME RoundInv, NEW s \in sessions, NEW t \in sessions,
                    Pseudonym(s.who, s.context, Agora) = Pseudonym(t.who, t.context, Agora)
             PROVE  s.own = t.own
  BY DEF NoPseudonymTwice
<1>1. s.who = t.who /\ s.context = t.context
  BY DEF Pseudonym
<1>2. Nonces(s) = Nonces(t)
  BY <1>1 DEF Nonces
<1>3. s.own \in Nat /\ t.own \in Nat /\ s.own <= t.at /\ t.own <= s.at
  BY <1>2, SessionNonces
<1>4. s.at \in Nat /\ t.at \in Nat
  BY DEF RoundInv, RoundsTyped, SessionsDerived
<1> QED
  BY <1>1, <1>3, <1>4 DEF RoundInv, RoundsApart

(* A pseudonym never returns in another round of the same participant,     *)
(* whatever rosters and reveals of earlier rounds the hosts replay.        *)
THEOREM PseudonymsNeverReturn == Spec => []NoPseudonymTwice
BY RoundsInductive, PseudonymsApart, PTL

LEMMA ContextsAgree == RoundInv => ContextsAgreeExactly
<1> SUFFICES ASSUME RoundInv, NEW s \in sessions, NEW t \in sessions
             PROVE  Sas(s.context) = Sas(t.context) <=>
                      s.metadata = t.metadata /\ s.counts = t.counts
  BY DEF ContextsAgreeExactly
<1>1. PICK a \in 0..MaxRoster : \E f \in [1..a -> 1..MaxDraws] : DerivedFrom(s, f)
  BY DEF RoundInv, SessionsDerived
<1>2. PICK f \in [1..a -> 1..MaxDraws] : DerivedFrom(s, f)
  BY <1>1
<1>3. PICK b \in 0..MaxRoster : \E g \in [1..b -> 1..MaxDraws] : DerivedFrom(t, g)
  BY DEF RoundInv, SessionsDerived
<1>4. PICK g \in [1..b -> 1..MaxDraws] : DerivedFrom(t, g)
  BY <1>3
<1>5. a \in Nat /\ b \in Nat /\ MaxDraws \in Nat
  BY BoundsAssumption
<1>6. s.context = Context(f, s.metadata) /\ t.context = Context(g, t.metadata)
  BY <1>2, <1>4 DEF DerivedFrom
<1>7. Sas(s.context) = Sas(t.context) <=>
        Len(f) = Len(g) /\ InOrder(f) = InOrder(g) /\ s.metadata = t.metadata
  BY <1>6 DEF Sas, Context
<1>8. s.counts = t.counts <=> \A n \in 1..MaxDraws : HowOften(f, n) = HowOften(g, n)
  <2>1. /\ s.counts = [n \in 1..MaxDraws |-> HowOften(f, n)]
        /\ t.counts = [n \in 1..MaxDraws |-> HowOften(g, n)]
    BY <1>2, <1>4 DEF DerivedFrom
  <2>2. ASSUME s.counts = t.counts, NEW n \in 1..MaxDraws PROVE HowOften(f, n) = HowOften(g, n)
    <3>1. s.counts[n] = HowOften(f, n) /\ t.counts[n] = HowOften(g, n)
      BY <2>1
    <3> QED
      BY <2>2, <3>1
  <2>3. ASSUME \A n \in 1..MaxDraws : HowOften(f, n) = HowOften(g, n) PROVE s.counts = t.counts
    BY <2>1, <2>3
  <2> QED
    BY <2>2, <2>3
<1>9. InOrder(f) = InOrder(g) <=> \A n \in 1..MaxDraws : HowOften(f, n) = HowOften(g, n)
  <2>1. InOrder(f) = InOrder(g) <=> SameCounts(f, g, MaxDraws)
    BY <1>5, InOrderIsTheCounts
  <2> QED
    BY <2>1 DEF SameCounts
<1>10. InOrder(f) = InOrder(g) => Len(f) = Len(g)
  <2>1. DOMAIN InOrder(f) = 1..a /\ DOMAIN InOrder(g) = 1..b
    BY DEF InOrder
  <2>2. Len(f) = a /\ Len(g) = b
    <3>1. f \in Seq(1..MaxDraws) /\ g \in Seq(1..MaxDraws)
      BY <1>5, SeqDef
    <3> QED
      BY <1>5, <3>1, LenProperties
  <2>3. Cardinality(1..a) = a /\ Cardinality(1..b) = b
    BY <1>5, FS_Interval
  <2> QED
    BY <2>1, <2>2, <2>3
<1> QED
  BY <1>7, <1>8, <1>9, <1>10

(* The string shown is the same exactly when the same contributions, as    *)
(* often each, went in over the same channel: the order the hosts listed   *)
(* them in is sorted away, and nothing else is                             *)
(* (nymora-crypto/src/live_auth.rs, context).                              *)
THEOREM StringsAgreeExactly == Spec => []ContextsAgreeExactly
BY RoundsInductive, ContextsAgree, PTL
================================================================================
