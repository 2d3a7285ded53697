---------------------------- MODULE SequenceLemmas ----------------------------
(***************************************************************************)
(* Facts about sequences that the proofs rest on.  A sequence is taken     *)
(* over its own range, so that no set of elements has to be named.         *)
(***************************************************************************)
EXTENDS Naturals, SequencesExt, FiniteSets, SequenceTheorems,
        FiniteSetTheorems, WellFoundedInduction, TLAPS

IsSequence(s) == s \in Seq(Range(s))

-------------------------------------------------------------------------------
(* Induction over the naturals, from the well-foundedness of <.            *)

LEMMA Least ==
  ASSUME NEW T, T \subseteq Nat, T # {}
  PROVE  \E x \in T : \A y \in T : x <= y
<1>1. IsWellFoundedOn(OpToRel(<, Nat), Nat)
  BY NatLessThanWellFounded
<1>2. PICK x \in T : \A y \in T : ~(<<y, x>> \in OpToRel(<, Nat))
  BY <1>1, WFMin
<1>3. ASSUME NEW y \in T PROVE x <= y
  <2>1. x \in Nat /\ y \in Nat
    OBVIOUS
  <2>2. ~(y < x)
    <3>1. <<y, x>> \in Nat \X Nat
      BY <2>1
    <3>2. SUFFICES ASSUME y < x PROVE FALSE
      OBVIOUS
    <3>3. <<y, x>> \in OpToRel(<, Nat)
      BY <3>1, <3>2 DEF OpToRel
    <3> QED
      BY <1>2, <3>3
  <2> QED
    BY <2>1, <2>2
<1> QED
  BY <1>3

LEMMA Induct ==
  ASSUME NEW S, 0 \in S, \A n \in Nat : n \in S => n + 1 \in S
  PROVE  Nat \subseteq S
<1> SUFFICES ASSUME NEW k \in Nat, k \notin S PROVE FALSE
  OBVIOUS
<1> DEFINE T == {n \in Nat : n \notin S}
<1>1. PICK x \in T : \A y \in T : x <= y
  <2>1. T \subseteq Nat /\ T # {}
    OBVIOUS
  <2> QED
    BY <2>1, Least
<1>2. x # 0 /\ x - 1 \in Nat /\ x - 1 \in S
  BY <1>1
<1> QED
  BY <1>1, <1>2

(* Where an index past the first of two parts falls in the second.         *)
LEMMA Shift ==
  ASSUME NEW a \in Nat, NEW b \in Nat, NEW j \in 1..a + b, ~(j <= a)
  PROVE  j - a \in 1..b /\ a + (j - a) = j
OBVIOUS

-------------------------------------------------------------------------------
(* The shape of a sequence.                                                *)

LEMMA SequenceShape ==
  ASSUME NEW s, IsSequence(s)
  PROVE  /\ Len(s) \in Nat
         /\ DOMAIN s = 1..Len(s)
         /\ s \in [1..Len(s) -> Range(s)]
         /\ Range(s) = {s[i] : i \in 1..Len(s)}
         /\ s # << >> => Len(s) > 0
BY LenProperties, RangeEquality, EmptySeq DEF IsSequence

LEMMA SequenceOver ==
  ASSUME NEW S, NEW s \in Seq(S)
  PROVE  IsSequence(s) /\ Range(s) \subseteq S
BY SeqOfRange, RangeOfSeq DEF IsSequence

LEMMA SequenceIn ==
  ASSUME NEW S, NEW s, IsSequence(s), Range(s) \subseteq S
  PROVE  s \in Seq(S)
BY SeqMonotonic DEF IsSequence

LEMMA FunctionIsSequence ==
  ASSUME NEW n \in Nat, NEW s, s = [i \in 1..n |-> s[i]]
  PROVE  IsSequence(s) /\ Len(s) = n
<1>1. s \in [1..n -> Range(s)]
  BY DEF Range
<1>2. s \in Seq(Range(s))
  BY <1>1, SeqDef
<1> QED
  BY <1>2, LenProperties, <1>1 DEF IsSequence

LEMMA SameElements ==
  ASSUME NEW s, NEW t, IsSequence(s), IsSequence(t), Len(s) = Len(t),
         \A i \in 1..Len(s) : s[i] = t[i]
  PROVE  s = t
<1> DEFINE S == Range(s) \cup Range(t)
<1>1. s \in Seq(S) /\ t \in Seq(S)
  BY SequenceIn
<1> QED
  BY <1>1, SeqEqual

LEMMA ConcatShape ==
  ASSUME NEW s, NEW t, IsSequence(s), IsSequence(t)
  PROVE  /\ IsSequence(s \o t)
         /\ Len(s \o t) = Len(s) + Len(t)
         /\ \A i \in 1..Len(s) : (s \o t)[i] = s[i]
         /\ \A i \in 1..Len(t) : (s \o t)[Len(s) + i] = t[i]
         /\ Range(s \o t) = Range(s) \cup Range(t)
<1> DEFINE S == Range(s) \cup Range(t)
<1>1. s \in Seq(S) /\ t \in Seq(S)
  BY SequenceIn
<1>2. /\ s \o t \in Seq(S)
      /\ Len(s \o t) = Len(s) + Len(t)
      /\ \A i \in 1 .. Len(s) + Len(t) : (s \o t)[i] = IF i <= Len(s) THEN s[i] ELSE t[i - Len(s)]
  BY <1>1, ConcatProperties
<1>3. Len(s) \in Nat /\ Len(t) \in Nat
  BY SequenceShape
<1>4. ASSUME NEW i \in 1..Len(t) PROVE (s \o t)[Len(s) + i] = t[i]
  <2>1. /\ Len(s) + i \in 1..Len(s) + Len(t) /\ ~(Len(s) + i <= Len(s))
        /\ Len(s) + i - Len(s) = i
    BY <1>3
  <2> QED
    BY <1>2, <2>1
<1>5. \A i \in 1..Len(s) : (s \o t)[i] = s[i]
  BY <1>2, <1>3
<1>6. Range(s \o t) = Range(s) \cup Range(t)
  BY <1>1, RangeConcatenation
<1> QED
  BY <1>2, <1>4, <1>5, <1>6, SequenceOver

LEMMA AppendShape ==
  ASSUME NEW s, NEW x, IsSequence(s)
  PROVE  /\ IsSequence(Append(s, x))
         /\ Len(Append(s, x)) = Len(s) + 1
         /\ \A i \in 1..Len(s) : Append(s, x)[i] = s[i]
         /\ Append(s, x)[Len(s) + 1] = x
         /\ Range(Append(s, x)) = Range(s) \cup {x}
<1> DEFINE S == Range(s) \cup {x}
<1>1. s \in Seq(S)
  BY SequenceIn
<1>2. /\ Append(s, x) \in Seq(S)
      /\ Len(Append(s, x)) = Len(s) + 1
      /\ \A i \in 1..Len(s) : Append(s, x)[i] = s[i]
      /\ Append(s, x)[Len(s) + 1] = x
  BY <1>1, AppendProperties
<1>3. Range(Append(s, x)) = Range(s) \cup {x}
  <2>1. Len(s) \in Nat /\ Range(s) = {s[i] : i \in 1..Len(s)}
    BY SequenceShape
  <2>2. Range(Append(s, x)) = {Append(s, x)[i] : i \in 1..Len(s) + 1}
    BY <1>2, RangeEquality
  <2> QED
    BY <1>2, <2>1, <2>2
<1> QED
  BY <1>2, <1>3, SequenceOver

LEMMA PrefixShape ==
  ASSUME NEW s, IsSequence(s), NEW n \in 0..Len(s)
  PROVE  /\ IsSequence(SubSeq(s, 1, n))
         /\ Len(SubSeq(s, 1, n)) = n
         /\ \A i \in 1..n : SubSeq(s, 1, n)[i] = s[i]
<1>1. Len(s) \in Nat /\ \A i \in 1..n : s[i] \in Range(s)
  BY SequenceShape
<1>2. /\ SubSeq(s, 1, n) \in Seq(Range(s))
      /\ Len(SubSeq(s, 1, n)) = IF 1 <= n THEN n - 1 + 1 ELSE 0
      /\ \A i \in 1..n - 1 + 1 : SubSeq(s, 1, n)[i] = s[1 + i - 1]
  BY <1>1, SubSeqProperties
<1>3. n \in Nat /\ n - 1 + 1 = n /\ \A i \in 1..n : 1 + i - 1 = i
  BY <1>1
<1>4. \A i \in 1..n : SubSeq(s, 1, n)[i] = s[i]
  BY <1>2, <1>3
<1>5. Len(SubSeq(s, 1, n)) = n
  BY <1>2, <1>3
<1>6. IsSequence(SubSeq(s, 1, n))
  BY <1>2, SequenceOver
<1> QED
  BY <1>4, <1>5, <1>6

(* A slice of a sequence that spells another one out is that sequence.     *)
LEMMA SliceIs ==
  ASSUME NEW s, NEW t, IsSequence(t), NEW k \in Nat,
         \A i \in 1..Len(t) : s[k + i] = t[i]
  PROVE  SubSeq(s, k + 1, k + Len(t)) = t
<1>1. Len(t) \in Nat /\ \A i \in 1..Len(t) : t[i] \in Range(t)
  BY SequenceShape
<1>2. ASSUME NEW j \in k + 1..k + Len(t) PROVE s[j] \in Range(t)
  <2>1. j - k \in 1..Len(t) /\ k + (j - k) = j
    BY <1>1
  <2> QED
    BY <1>1, <2>1
<1>3. k + 1 \in Int /\ k + Len(t) \in Int
  BY <1>1
<1> DEFINE a == k + 1
           b == k + Len(t)
<1>4. a \in Int /\ b \in Int /\ \A j \in a..b : s[j] \in Range(t)
  BY <1>2, <1>3
<1> HIDE DEF a, b
<1>5. /\ SubSeq(s, a, b) \in Seq(Range(t))
      /\ Len(SubSeq(s, a, b)) = IF a <= b THEN b - a + 1 ELSE 0
      /\ \A i \in 1..b - a + 1 : SubSeq(s, a, b)[i] = s[a + i - 1]
  BY <1>4, SubSeqProperties
<1>6. Len(SubSeq(s, a, b)) = Len(t)
  BY <1>1, <1>5 DEF a, b
<1>7. ASSUME NEW i \in 1..Len(t) PROVE SubSeq(s, a, b)[i] = t[i]
  <2>1. i \in 1..b - a + 1 /\ a + i - 1 = k + i
    BY <1>1 DEF a, b
  <2>2. s[k + i] = t[i]
    OBVIOUS
  <2>3. SubSeq(s, a, b)[i] = s[a + i - 1]
    BY <1>5, <2>1
  <2> QED
    BY <2>1, <2>2, <2>3
<1>8. IsSequence(SubSeq(s, a, b))
  BY <1>5, SequenceOver
<1>9. SubSeq(s, a, b) = t
  BY <1>6, <1>7, <1>8, SameElements
<1> QED
  BY <1>9 DEF a, b

LEMMA SmallSequences ==
  ASSUME NEW x, NEW y
  PROVE  /\ IsSequence(<< >>) /\ Len(<< >>) = 0
         /\ IsSequence(<<x>>) /\ Len(<<x>>) = 1
         /\ IsSequence(<<x, y>>) /\ Len(<<x, y>>) = 2
<1>1. << >> \in Seq({}) /\ Len(<< >>) = 0
  BY EmptySeq
<1>2. <<x>> \in Seq({x}) /\ Len(<<x>>) = 1
  OBVIOUS
<1>3. <<x, y>> \in Seq({x, y}) /\ Len(<<x, y>>) = 2
  OBVIOUS
<1> QED
  BY <1>1, <1>2, <1>3, SequenceOver

-------------------------------------------------------------------------------
(* Flattening.                                                             *)

(* The function FlattenSeq is defined by exists.                           *)
LEMMA FlattenUnfolds ==
  ASSUME NEW seqs, IsSequence(seqs), seqs # << >>
  PROVE  \E f : /\ f = [i \in 1..Len(seqs) |->
                          IF i = 1 THEN seqs[i] ELSE f[i - 1] \o seqs[i]]
                /\ FlattenSeq(seqs) = f[Len(seqs)]
<1> DEFINE Built(g, n) == g = [i \in 1..n |-> IF i = 1 THEN seqs[i] ELSE g[i - 1] \o seqs[i]]
           S == {n \in Nat : \E g : Built(g, n)}
<1>1. Nat \subseteq S
  <2>1. 0 \in S
    <3>1. Built([i \in 1..0 |-> << >>], 0)
      OBVIOUS
    <3> QED
      BY <3>1
  <2>2. ASSUME NEW n \in Nat, n \in S PROVE n + 1 \in S
    <3>1. PICK g : Built(g, n)
      BY <2>2
    <3> DEFINE h == [i \in 1..n + 1 |->
                       IF i = 1 THEN seqs[i]
                       ELSE IF i = n + 1 THEN g[n] \o seqs[i] ELSE g[i]]
    <3>2. ASSUME NEW i \in 1..n + 1, i # 1 PROVE h[i] = h[i - 1] \o seqs[i]
      <4>1. CASE i = n + 1
        <5>0. n \in 1..n /\ n \in 1..n + 1 /\ i - 1 = n /\ n # n + 1
          BY <3>2, <4>1
        <5>1. h[i] = g[n] \o seqs[i]
          BY <3>2, <4>1
        <5>2. h[n] = g[n]
          BY <3>1, <5>0
        <5> QED
          BY <5>0, <5>1, <5>2
      <4>2. CASE i # n + 1
        <5>1. i \in 1..n /\ i - 1 \in 1..n /\ i - 1 \in 1..n + 1 /\ i - 1 # n + 1
          BY <3>2, <4>2
        <5>2. h[i] = g[i] /\ g[i] = g[i - 1] \o seqs[i]
          BY <3>1, <3>2, <4>2, <5>1
        <5>3. h[i - 1] = g[i - 1]
          BY <3>1, <5>1
        <5> QED
          BY <5>2, <5>3
      <4> QED
        BY <4>1, <4>2
    <3>3. h[1] = seqs[1]
      OBVIOUS
    <3> HIDE DEF h
    <3>4. h = [i \in 1..n + 1 |-> IF i = 1 THEN seqs[i] ELSE h[i - 1] \o seqs[i]]
      BY <3>2, <3>3 DEF h
    <3>5. Built(h, n + 1)
      BY <3>4
    <3> HIDE DEF Built
    <3> QED
      BY <3>5
  <2> HIDE DEF S
  <2> QED
    BY <2>1, <2>2, Induct
<1>2. Len(seqs) \in Nat /\ Len(seqs) # 0
  BY SequenceShape
<1>3. \E g : Built(g, Len(seqs))
  BY <1>1, <1>2
<1> DEFINE f == CHOOSE g : Built(g, Len(seqs))
<1>4. Built(f, Len(seqs))
  BY <1>3
<1>5. FlattenSeq(seqs) = f[Len(seqs)]
  BY <1>2 DEF FlattenSeq
<1> QED
  BY <1>4, <1>5

(* Flattening keeps the order: every element of the result comes from a    *)
(* block, later elements from the same block or a later one.               *)
LEMMA FlattenInOrder ==
  ASSUME NEW seqs, IsSequence(seqs), \A i \in 1..Len(seqs) : IsSequence(seqs[i])
  PROVE  /\ IsSequence(FlattenSeq(seqs))
         /\ \E block : 
              \A j \in 1..Len(FlattenSeq(seqs)) :
                /\ block[j] \in 1..Len(seqs)
                /\ FlattenSeq(seqs)[j] \in Range(seqs[block[j]])
                /\ \A k \in 1..Len(FlattenSeq(seqs)) : j < k => block[j] <= block[k]
<1>1. CASE seqs = << >>
  <2>1. Len(seqs) = 0 /\ FlattenSeq(seqs) = seqs
    BY <1>1, EmptySeq DEF FlattenSeq
  <2> QED
    BY <2>1
<1>2. CASE seqs # << >>
  <2>1. PICK f : /\ f = [i \in 1..Len(seqs) |-> IF i = 1 THEN seqs[i] ELSE f[i - 1] \o seqs[i]]
                 /\ FlattenSeq(seqs) = f[Len(seqs)]
    BY <1>2, FlattenUnfolds
  <2>2. Len(seqs) \in Nat /\ Len(seqs) # 0
    BY <1>2, SequenceShape
  <2> DEFINE Ordered(n, block) ==
               \A j \in 1..Len(f[n]) :
                 /\ block[j] \in 1..n
                 /\ f[n][j] \in Range(seqs[block[j]])
                 /\ \A k \in 1..Len(f[n]) : j < k => block[j] <= block[k]
             S == {n \in Nat : n + 1 \in 1..Len(seqs) =>
                                 IsSequence(f[n + 1]) /\ \E block : Ordered(n + 1, block)}
  <2>3. 0 \in S
    <3>1. f[1] = seqs[1] /\ IsSequence(f[1])
      BY <2>1, <2>2
    <3>2. \A j \in 1..Len(f[1]) : f[1][j] \in Range(seqs[1])
      BY <3>1, SequenceShape
    <3>3. Ordered(1, [j \in 1..Len(f[1]) |-> 1])
      BY <3>2
    <3> QED
      BY <3>1, <3>3
  <2>4. ASSUME NEW n \in Nat, n \in S PROVE n + 1 \in S
    <3> SUFFICES ASSUME (n + 1) + 1 \in 1..Len(seqs)
                 PROVE  IsSequence(f[(n + 1) + 1]) /\ \E block : Ordered((n + 1) + 1, block)
      OBVIOUS
    <3> DEFINE m == n + 1
    <3>1. m \in 1..Len(seqs) /\ m + 1 \in 1..Len(seqs) /\ m + 1 # 1 /\ (m + 1) - 1 = m /\ m \in Nat
      BY <2>2
    <3>2. IsSequence(f[m]) /\ \E block : Ordered(m, block)
      BY <2>4, <3>1
    <3>3. PICK block : Ordered(m, block)
      BY <3>2
    <3> HIDE DEF m
    <3>4. f[m + 1] = f[m] \o seqs[m + 1]
      BY <2>1, <3>1
    <3>a. IsSequence(seqs[m + 1])
      BY <3>1
    <3>5. /\ IsSequence(f[m + 1]) /\ Len(f[m + 1]) = Len(f[m]) + Len(seqs[m + 1])
          /\ \A j \in 1..Len(f[m]) : f[m + 1][j] = f[m][j]
          /\ \A j \in 1..Len(seqs[m + 1]) : f[m + 1][Len(f[m]) + j] = seqs[m + 1][j]
      <4> DEFINE s == f[m]
                 t == seqs[m + 1]
      <4>1. IsSequence(s) /\ IsSequence(t) /\ f[m + 1] = s \o t
        BY <3>2, <3>4, <3>a
      <4> HIDE DEF s, t
      <4>2. /\ IsSequence(s \o t) /\ Len(s \o t) = Len(s) + Len(t)
            /\ \A j \in 1..Len(s) : (s \o t)[j] = s[j]
            /\ \A j \in 1..Len(t) : (s \o t)[Len(s) + j] = t[j]
        BY <4>1, ConcatShape
      <4> QED
        BY <4>1, <4>2 DEF s, t
    <3>6. Len(f[m]) \in Nat /\ Len(seqs[m + 1]) \in Nat
      BY <3>1, <3>2, SequenceShape
    <3> DEFINE next == [j \in 1..Len(f[m + 1]) |-> IF j <= Len(f[m]) THEN block[j] ELSE m + 1]
    <3>7. ASSUME NEW j \in 1..Len(f[m + 1])
          PROVE  /\ next[j] \in 1..m + 1
                 /\ f[m + 1][j] \in Range(seqs[next[j]])
                 /\ j > Len(f[m]) => next[j] = m + 1
                 /\ j <= Len(f[m]) => next[j] = block[j]
      <4>1. CASE j <= Len(f[m])
        <5>1. j \in 1..Len(f[m]) /\ next[j] = block[j]
          BY <3>6, <4>1
        <5>2. block[j] \in 1..m /\ f[m][j] \in Range(seqs[block[j]])
          BY <3>3, <5>1
        <5> QED
          BY <3>1, <3>5, <4>1, <5>1, <5>2
      <4>2. CASE ~(j <= Len(f[m]))
        <5>0. j \in 1..Len(f[m]) + Len(seqs[m + 1])
          BY <3>5
        <5>1. j - Len(f[m]) \in 1..Len(seqs[m + 1]) /\ Len(f[m]) + (j - Len(f[m])) = j
          BY <3>6, <4>2, <5>0, Shift
        <5>2. f[m + 1][j] = seqs[m + 1][j - Len(f[m])]
          BY <3>5, <5>1
        <5>3. f[m + 1][j] \in Range(seqs[m + 1])
          BY <3>1, <5>1, <5>2, SequenceShape
        <5> QED
          BY <3>1, <4>2, <5>3
      <4> QED
        BY <4>1, <4>2
    <3>8. ASSUME NEW j \in 1..Len(f[m + 1]), NEW k \in 1..Len(f[m + 1]), j < k
          PROVE  next[j] <= next[k]
      <4>1. next[j] \in 1..m + 1 /\ next[k] \in 1..m + 1
        BY <3>7
      <4>2. CASE k <= Len(f[m])
        <5>1. j \in 1..Len(f[m]) /\ k \in 1..Len(f[m]) /\ j <= Len(f[m])
          BY <3>6, <3>8, <4>2
        <5> QED
          BY <3>3, <3>7, <3>8, <4>2, <5>1
      <4>3. CASE ~(k <= Len(f[m]))
        <5>1. next[k] = m + 1
          BY <3>6, <3>7, <4>3
        <5> QED
          BY <3>1, <4>1, <5>1
      <4> QED
        BY <4>2, <4>3
    <3> HIDE DEF next
    <3>9. Ordered(m + 1, next)
      BY <3>7, <3>8
    <3> QED
      BY <3>5, <3>9 DEF m
  <2>5. Nat \subseteq S
    <3> HIDE DEF S
    <3> QED
      BY <2>3, <2>4, Induct
  <2>6. Len(seqs) - 1 \in Nat /\ (Len(seqs) - 1) + 1 = Len(seqs) /\ Len(seqs) \in 1..Len(seqs)
    BY <2>2
  <2>7. IsSequence(f[Len(seqs)]) /\ \E block : Ordered(Len(seqs), block)
    BY <2>5, <2>6
  <2> QED
    BY <2>1, <2>7
<1> QED
  BY <1>1, <1>2

(* Pairs, flattened, lie side by side.                                     *)
LEMMA FlattenPairs ==
  ASSUME NEW seqs, IsSequence(seqs),
         \A i \in 1..Len(seqs) : IsSequence(seqs[i]) /\ Len(seqs[i]) = 2
  PROVE  /\ IsSequence(FlattenSeq(seqs))
         /\ Len(FlattenSeq(seqs)) = 2 * Len(seqs)
         /\ \A i \in 1..Len(seqs) : /\ FlattenSeq(seqs)[2 * i - 1] = seqs[i][1]
                                    /\ FlattenSeq(seqs)[2 * i] = seqs[i][2]
<1>1. CASE seqs = << >>
  <2>1. Len(seqs) = 0 /\ FlattenSeq(seqs) = seqs
    BY <1>1, EmptySeq DEF FlattenSeq
  <2> QED
    BY <2>1
<1>2. CASE seqs # << >>
  <2>1. PICK f : /\ f = [i \in 1..Len(seqs) |-> IF i = 1 THEN seqs[i] ELSE f[i - 1] \o seqs[i]]
                 /\ FlattenSeq(seqs) = f[Len(seqs)]
    BY <1>2, FlattenUnfolds
  <2>2. Len(seqs) \in Nat /\ Len(seqs) # 0
    BY <1>2, SequenceShape
  <2> DEFINE Paired(n) ==
               /\ IsSequence(f[n])
               /\ Len(f[n]) = 2 * n
               /\ \A i \in 1..n : f[n][2 * i - 1] = seqs[i][1] /\ f[n][2 * i] = seqs[i][2]
             S == {n \in Nat : n + 1 \in 1..Len(seqs) => Paired(n + 1)}
  <2>3. 0 \in S
    <3>1. f[1] = seqs[1] /\ IsSequence(seqs[1]) /\ Len(seqs[1]) = 2
      BY <2>1, <2>2
    <3> QED
      BY <3>1
  <2>4. ASSUME NEW n \in Nat, n \in S PROVE n + 1 \in S
    <3> SUFFICES ASSUME (n + 1) + 1 \in 1..Len(seqs)
                 PROVE  Paired((n + 1) + 1)
      OBVIOUS
    <3> DEFINE m == n + 1
    <3>1. m \in 1..Len(seqs) /\ m + 1 \in 1..Len(seqs) /\ m + 1 # 1 /\ (m + 1) - 1 = m /\ m \in Nat
      BY <2>2
    <3>2. Paired(m)
      BY <2>4, <3>1
    <3> HIDE DEF m
    <3>3. IsSequence(seqs[m + 1]) /\ Len(seqs[m + 1]) = 2
      BY <3>1
    <3> DEFINE s == f[m]
               t == seqs[m + 1]
    <3>a. IsSequence(s) /\ IsSequence(t)
      BY <3>2, <3>3
    <3>4. f[m + 1] = s \o t /\ Len(s) = 2 * m /\ Len(t) = 2
      BY <2>1, <3>1, <3>2, <3>3
    <3> HIDE DEF s, t
    <3>5. /\ IsSequence(s \o t) /\ Len(s \o t) = Len(s) + Len(t)
          /\ \A j \in 1..Len(s) : (s \o t)[j] = s[j]
          /\ \A j \in 1..Len(t) : (s \o t)[Len(s) + j] = t[j]
      BY <3>a, ConcatShape
    <3>6. ASSUME NEW i \in 1..m + 1
          PROVE  (s \o t)[2 * i - 1] = seqs[i][1] /\ (s \o t)[2 * i] = seqs[i][2]
      <4>1. CASE i = m + 1
        <5>1. 2 * i - 1 = Len(s) + 1 /\ 2 * i = Len(s) + 2 /\ 1 \in 1..Len(t) /\ 2 \in 1..Len(t)
          BY <3>1, <3>4, <4>1
        <5>2. (s \o t)[Len(s) + 1] = t[1] /\ (s \o t)[Len(s) + 2] = t[2]
          BY <3>5, <5>1
        <5> QED
          BY <4>1, <5>1, <5>2 DEF t
      <4>2. CASE i # m + 1
        <5>1. i \in 1..m /\ 2 * i - 1 \in 1..Len(s) /\ 2 * i \in 1..Len(s)
          BY <3>1, <3>4, <4>2
        <5>2. s[2 * i - 1] = seqs[i][1] /\ s[2 * i] = seqs[i][2]
          BY <3>2, <5>1 DEF s
        <5> QED
          BY <3>5, <5>1, <5>2
      <4> QED
        BY <4>1, <4>2
    <3>7. Len(s \o t) = 2 * (m + 1)
      BY <3>1, <3>4, <3>5
    <3>8. Paired(m + 1)
      BY <3>4, <3>5, <3>6, <3>7
    <3> HIDE DEF Paired
    <3> QED
      BY <3>8 DEF m
  <2>5. Nat \subseteq S
    <3> HIDE DEF S
    <3> QED
      BY <2>3, <2>4, Induct
  <2>6. Len(seqs) - 1 \in Nat /\ (Len(seqs) - 1) + 1 = Len(seqs) /\ Len(seqs) \in 1..Len(seqs)
    BY <2>2
  <2>7. Paired(Len(seqs))
    BY <2>5, <2>6
  <2> QED
    BY <2>1, <2>7
<1> QED
  BY <1>1, <1>2

-------------------------------------------------------------------------------
(* A finite set, listed, is what is listed.                                *)
LEMMA SetToSeqShape ==
  ASSUME NEW S, IsFiniteSet(S)
  PROVE  IsSequence(SetToSeq(S)) /\ Range(SetToSeq(S)) = S
<1> DEFINE n == Cardinality(S)
           f == SetToSeq(S)
<1>1. n \in Nat /\ ExistsBijection(1..n, S)
  BY FS_CardinalityType
<1>2. PICK b : b \in [1..n -> S] /\ IsInjective(b)
  BY <1>1 DEF ExistsBijection, Bijection, Injection, IsInjective
<1>3. f \in [1..n -> S] /\ IsInjective(f)
  BY <1>2 DEF SetToSeq
<1> HIDE DEF f
<1>4. f \in Injection(1..n, S)
  BY <1>3 DEF Injection, IsInjective
<1>5. Cardinality(1..n) = n
  BY <1>1, FS_Interval
<1>6. f \in Surjection(1..n, S)
  BY <1>4, <1>5, FS_Injection
<1>7. Range(f) = S
  BY <1>3, <1>6 DEF Surjection, Range
<1>8. f \in Seq(S)
  BY <1>1, <1>3, SeqDef
<1> QED
  BY <1>7, <1>8, SequenceOver DEF f
===============================================================================
