--------------------------- MODULE AccumulatorProofs ---------------------------
(***************************************************************************)
(* That paths and absence witnesses prove what they should and nothing     *)
(* else, and that the circuit's copy of both structures agrees.            *)
(*                                                                         *)
(* The argument.  A node at level n, place i, is the block of leaves       *)
(* i * 2^n + 1 up to i * 2^n + 2^n, filled up with empty ones (Block);     *)
(* both the levels computed at once and the copy's branch by branch come   *)
(* to these blocks (LevelsAre, PoseidonTreeIs).  A path of the tree's own  *)
(* siblings therefore folds to the root (ClimbComplete), and a path of     *)
(* any nodes puts its leaf at its own place of what it folds to            *)
(* (ClimbSound), so that a fold equal to a root shows the leaf that root   *)
(* has there.  A key's rank - how many keys are at or below it - numbers   *)
(* the keys and names the gap it falls in; no key lies strictly inside a   *)
(* gap (NothingInside, RankNamesGap).                                      *)
(***************************************************************************)
EXTENDS Accumulators, SequenceLemmas

-------------------------------------------------------------------------------
(* Powers of two, from the number of subsets of a set of n elements.       *)

LEMMA PowerIs ==
  ASSUME NEW n \in Nat
  PROVE  /\ 2^n \in Nat
         /\ IsFiniteSet(SUBSET (1..n)) /\ Cardinality(SUBSET (1..n)) = 2^n
<1>1. IsFiniteSet(1..n) /\ Cardinality(1..n) = n
  BY FS_Interval
<1>2. IsFiniteSet(SUBSET (1..n)) /\ Cardinality(SUBSET (1..n)) = 2^n
  BY <1>1, FS_SUBSET
<1> QED
  BY <1>2, FS_CardinalityType

LEMMA Doubling ==
  ASSUME NEW n \in Nat
  PROVE  2^(n + 1) = 2 * 2^n
<1> DEFINE Old == SUBSET (1..n)
           All == SUBSET (1..(n + 1))
           New == {s \in All : n + 1 \in s}
           grow == [s \in Old |-> s \cup {n + 1}]
<1>1. /\ IsFiniteSet(Old) /\ Cardinality(Old) = 2^n
      /\ IsFiniteSet(All) /\ Cardinality(All) = 2^(n + 1) /\ 2^n \in Nat
  BY PowerIs
<1>2. 1..(n + 1) = (1..n) \cup {n + 1} /\ n + 1 \notin 1..n
  OBVIOUS
<1>3. grow \in Bijection(Old, New)
  <2>1. grow \in [Old -> New]
    BY <1>2
  <2>2. ASSUME NEW s \in Old, NEW t \in Old, grow[s] = grow[t] PROVE s = t
    <3>1. s \cup {n + 1} = t \cup {n + 1} /\ n + 1 \notin s /\ n + 1 \notin t
      BY <1>2, <2>2
    <3> QED
      BY <3>1
  <2>3. ASSUME NEW t \in New PROVE \E s \in Old : grow[s] = t
    <3>1. t \ {n + 1} \in Old /\ (t \ {n + 1}) \cup {n + 1} = t
      BY <1>2
    <3> QED
      BY <3>1
  <2> HIDE DEF Old, New, grow
  <2> QED
    BY <2>1, <2>2, <2>3 DEF Bijection, Injection, IsInjective, Surjection
<1>4. IsFiniteSet(New) /\ Cardinality(New) = 2^n
  BY <1>1, <1>3, FS_Bijection DEF ExistsBijection
<1>5. Old \cup New = All /\ Old \cap New = {}
  BY <1>2
<1> HIDE DEF Old, All, New
<1>6. Cardinality(Old \cup New) = Cardinality(Old) + Cardinality(New) - Cardinality(Old \cap New)
  BY <1>1, <1>4, FS_Union
<1>7. Cardinality(Old \cap New) = 0
  BY <1>5, FS_EmptySet
<1>8. 2^(n + 1) = 2^n + 2^n - 0 /\ 2^n \in Nat
  BY <1>1, <1>4, <1>5, <1>6, <1>7
<1> DEFINE p == 2^n
           q == 2^(n + 1)
<1> HIDE DEF p, q
<1>9. q = p + p - 0 /\ p \in Nat
  BY <1>8 DEF p, q
<1>10. q = 2 * p
  BY <1>9
<1> QED
  BY <1>10 DEF p, q

LEMMA Powers ==
  /\ 2^0 = 1
  /\ \A n \in Nat : 2^n \in Nat /\ 2^n > 0 /\ 2^(n + 1) = 2 * 2^n
<1>1. 2^0 = 1
  OBVIOUS
<1>2. \A n \in Nat : 2^n \in Nat /\ 2^(n + 1) = 2 * 2^n
  BY PowerIs, Doubling
<1> DEFINE S == {n \in Nat : 2^n > 0}
<1>3. 0 \in S
  BY <1>1
<1>4. ASSUME NEW n \in Nat, n \in S PROVE n + 1 \in S
  BY <1>2, <1>4
<1> HIDE DEF S
<1>5. Nat \subseteq S
  BY <1>3, <1>4, Induct
<1> QED
  BY <1>1, <1>2, <1>5 DEF S

LEMMA PowersGrow ==
  ASSUME NEW n \in Nat, NEW m \in Nat, n <= m
  PROVE  2^n <= 2^m
<1> DEFINE S == {d \in Nat : 2^n <= 2^(n + d)}
<1>1. 0 \in S
  BY Powers
<1>2. ASSUME NEW d \in Nat, d \in S PROVE d + 1 \in S
  <2>1. 2^((n + d) + 1) = 2 * 2^(n + d) /\ 2^(n + d) \in Nat /\ 2^n \in Nat
    BY Powers
  <2>2. (n + d) + 1 = n + (d + 1)
    OBVIOUS
  <2> QED
    BY <1>2, <2>1, <2>2
<1> HIDE DEF S
<1>3. m - n \in S
  BY <1>1, <1>2, Induct
<1> QED
  BY <1>3 DEF S

-------------------------------------------------------------------------------
(* The tree over a sequence of leaves, filled up with empty ones.          *)

At(leaves, j) == IF j <= Len(leaves) THEN leaves[j] ELSE EmptyLeaf

(* What the node at level n, place i stands for.                           *)
Block(leaves, n, i) == [k \in 1..(2^n) |-> At(leaves, i * 2^n + k)]

IsNode(node, n) == IsSequence(node) /\ Len(node) = 2^n

LEMMA BlockShape ==
  ASSUME NEW leaves, NEW n \in Nat, NEW i \in Nat
  PROVE  /\ IsNode(Block(leaves, n, i), n)
         /\ \A k \in 1..(2^n) : Block(leaves, n, i)[k] = At(leaves, i * 2^n + k)
<1> DEFINE b == Block(leaves, n, i)
<1>1. b = [k \in 1..(2^n) |-> b[k]] /\ \A k \in 1..(2^n) : b[k] = At(leaves, i * 2^n + k)
  BY DEF Block
<1>2. 2^n \in Nat
  BY Powers
<1> HIDE DEF b
<1>3. IsSequence(b) /\ Len(b) = 2^n
  BY <1>1, <1>2, FunctionIsSequence
<1> QED
  BY <1>1, <1>3 DEF b, IsNode

LEMMA NodesJoin ==
  ASSUME NEW n \in Nat, NEW x, NEW y, IsNode(x, n), IsNode(y, n)
  PROVE  /\ IsNode(HashNode(x, y), n + 1)
         /\ \A k \in 1..(2^n) : HashNode(x, y)[k] = x[k] /\ HashNode(x, y)[2^n + k] = y[k]
<1>1. /\ IsSequence(x \o y) /\ Len(x \o y) = Len(x) + Len(y)
      /\ \A k \in 1..Len(x) : (x \o y)[k] = x[k]
      /\ \A k \in 1..Len(y) : (x \o y)[Len(x) + k] = y[k]
  BY ConcatShape DEF IsNode
<1>2. 2^n \in Nat /\ 2^(n + 1) = 2 * 2^n
  BY Powers
<1> DEFINE p == 2^n
           q == 2^(n + 1)
<1>3. Len(x) = p /\ Len(y) = p /\ p \in Nat /\ q = 2 * p
  BY <1>2 DEF IsNode
<1> HIDE DEF p, q
<1>4. Len(x \o y) = q
  BY <1>1, <1>3
<1> QED
  BY <1>1, <1>3, <1>4 DEF IsNode, HashNode, p, q

LEMMA SameNode ==
  ASSUME NEW n \in Nat, NEW x, NEW y, IsNode(x, n), IsNode(y, n),
         \A k \in 1..(2^n) : x[k] = y[k]
  PROVE  x = y
BY SameElements DEF IsNode

LEMMA HalfIndex ==
  ASSUME NEW p \in Nat, NEW q \in Nat, NEW i \in Nat, NEW j \in Nat, q = 2 * p
  PROVE  (i * 2) * p + j = i * q + j /\ (i * 2 + 1) * p + j = i * q + (p + j)
<1>1. (i * 2) * p = i * q /\ (i * 2 + 1) * p = i * q + p
  OBVIOUS
<1> QED
  BY <1>1

(* The two nodes below a node are its halves.                              *)
LEMMA BlockSplits ==
  ASSUME NEW leaves, NEW n \in Nat, NEW i \in Nat
  PROVE  Block(leaves, n + 1, i) = HashNode(Block(leaves, n, i * 2), Block(leaves, n, i * 2 + 1))
<1> DEFINE x == Block(leaves, n, i * 2)
           y == Block(leaves, n, i * 2 + 1)
           z == Block(leaves, n + 1, i)
           p == 2^n
           q == 2^(n + 1)
<1>1. /\ IsNode(x, n) /\ IsNode(y, n) /\ IsNode(z, n + 1)
      /\ \A k \in 1..p : x[k] = At(leaves, (i * 2) * p + k) /\ y[k] = At(leaves, (i * 2 + 1) * p + k)
      /\ \A k \in 1..q : z[k] = At(leaves, i * q + k)
  BY BlockShape
<1>2. p \in Nat /\ q \in Nat /\ q = 2 * p
  BY Powers
<1>3. /\ IsNode(HashNode(x, y), n + 1)
      /\ \A k \in 1..p : HashNode(x, y)[k] = x[k] /\ HashNode(x, y)[p + k] = y[k]
  BY <1>1, NodesJoin
<1> HIDE DEF x, y, z, p, q
<1>4. ASSUME NEW k \in 1..q PROVE z[k] = HashNode(x, y)[k]
  <2>1. CASE k <= p
    <3>1. k \in 1..p /\ k \in Nat
      BY <1>2, <2>1
    <3> QED
      BY <1>1, <1>2, <1>3, <3>1, HalfIndex
  <2>2. CASE ~(k <= p)
    <3>1. k - p \in 1..p /\ k - p \in Nat /\ p + (k - p) = k
      BY <1>2, <2>2
    <3>2. y[k - p] = At(leaves, i * q + k)
      BY <1>1, <1>2, <3>1, HalfIndex
    <3>3. HashNode(x, y)[k] = y[k - p]
      BY <1>3, <3>1
    <3> QED
      BY <1>1, <3>2, <3>3
  <2> QED
    BY <2>1, <2>2
<1> QED
  BY <1>1, <1>3, <1>4, SameNode DEF x, y, z, q

LEMMA BlockEmpty ==
  ASSUME NEW leaves, Len(leaves) \in Nat, NEW n \in 0..(TreeDepth + GapDepth), NEW i \in Nat,
         ~(i * 2^n < Len(leaves))
  PROVE  Block(leaves, n, i) = EmptyNode[n]
<1> DEFINE p == 2^n
<1>1. p \in Nat
  BY Powers, WidthAssumption
<1>2. ASSUME NEW k \in 1..p PROVE At(leaves, i * p + k) = EmptyLeaf
  <2>1. i * p \in Nat
    BY <1>1
  <2>2. i * p >= Len(leaves)
    BY <2>1
  <2> HIDE DEF p
  <2>3. ~(i * p + k <= Len(leaves))
    BY <1>1, <2>1, <2>2
  <2> QED
    BY <2>3 DEF At
<1> QED
  BY <1>2 DEF Block, EmptyNode

(* How many nodes of a level are occupied.                                 *)
Count(leaves, n) == (Len(leaves) + (2^n - 1)) \div (2^n)

LEMMA CeilingIs ==
  ASSUME NEW p \in Nat, p > 0, NEW length \in Nat
  PROVE  /\ (length + (p - 1)) \div p \in Nat
         /\ \A i \in Nat : i < (length + (p - 1)) \div p <=> i * p < length
<1> DEFINE x == length + (p - 1)
           c == x \div p
<1>1. x \in Nat
  OBVIOUS
<1> HIDE DEF x
<1>2. c \in Nat /\ c * p <= x /\ x < c * p + p
  BY <1>1
<1> HIDE DEF c
<1>3. ASSUME NEW i \in Nat PROVE i < c <=> i * p < length
  <2>1. CASE i < c
    <3>1. (i + 1) * p <= c * p
      BY <1>2, <2>1
    <3>2. (i + 1) * p = i * p + p
      OBVIOUS
    <3>3. c * p \in Nat /\ i * p \in Nat
      BY <1>2
    <3>4. i * p < length
      BY <1>2, <3>1, <3>2, <3>3 DEF x
    <3> QED
      BY <2>1, <3>4
  <2>2. CASE ~(i < c)
    <3>1. c * p <= i * p
      BY <1>2, <2>2
    <3>2. c * p \in Nat /\ i * p \in Nat
      BY <1>2
    <3>3. ~(i * p < length)
      BY <1>2, <3>1, <3>2 DEF x
    <3> QED
      BY <2>2, <3>3
  <2> QED
    BY <2>1, <2>2
<1> QED
  BY <1>2, <1>3 DEF c, x

LEMMA CountIs ==
  ASSUME NEW leaves, Len(leaves) \in Nat, NEW n \in Nat
  PROVE  Count(leaves, n) \in Nat /\ \A i \in Nat : i < Count(leaves, n) <=> i * 2^n < Len(leaves)
<1>1. 2^n \in Nat /\ 2^n > 0
  BY Powers
<1> QED
  BY <1>1, CeilingIs DEF Count

LEMMA CountHalves ==
  ASSUME NEW leaves, Len(leaves) \in Nat, NEW n \in Nat
  PROVE  Count(leaves, n + 1) = Width(Count(leaves, n))
<1> DEFINE c == Count(leaves, n)
           d == Count(leaves, n + 1)
           p == 2^n
           q == 2^(n + 1)
<1>1. /\ c \in Nat /\ \A i \in Nat : i < c <=> i * p < Len(leaves)
      /\ d \in Nat /\ \A i \in Nat : i < d <=> i * q < Len(leaves)
  <2>1. n + 1 \in Nat
    OBVIOUS
  <2> QED
    BY <2>1, CountIs
<1>2. p \in Nat /\ q \in Nat /\ q = 2 * p
  BY Powers
<1> HIDE DEF c, d, p, q
<1>3. ASSUME NEW i \in Nat PROVE i < d <=> i * 2 < c
  <2>1. (i * 2) * p = i * q
    BY <1>2
  <2> QED
    BY <1>1, <2>1
<1> DEFINE w == Width(c)
<1>4. w \in Nat /\ \A i \in Nat : i < w <=> i * 2 < c
  BY <1>1 DEF Width
<1> HIDE DEF w
<1>5. \A i \in Nat : i < d <=> i < w
  BY <1>3, <1>4
<1>6. d = w
  BY <1>1, <1>4, <1>5
<1> QED
  BY <1>6 DEF c, d, w

-------------------------------------------------------------------------------
(* The levels the tree computes.                                           *)

Depths == 0..(TreeDepth + GapDepth)
LevelOf(leaves, n) == [i \in 1..Count(leaves, n) |-> Block(leaves, n, i - 1)]

LEMMA DepthsAre ==
  /\ TreeDepth \in Depths /\ GapDepth \in Depths
  /\ \A depth \in Depths : depth \in Nat /\ \A n \in 0..depth : n \in Nat /\ n \in Depths
BY WidthAssumption DEF Depths

LEMMA LevelShape ==
  ASSUME NEW leaves, Len(leaves) \in Nat, NEW n \in Depths
  PROVE  /\ IsSequence(LevelOf(leaves, n)) /\ Len(LevelOf(leaves, n)) = Count(leaves, n)
         /\ \A i \in Nat : NodeAt(LevelOf(leaves, n), i, n) = Block(leaves, n, i)
<1> DEFINE level == LevelOf(leaves, n)
           c == Count(leaves, n)
<1>0. n \in Nat
  BY DepthsAre
<1>1. c \in Nat /\ \A i \in Nat : i < c <=> i * 2^n < Len(leaves)
  BY <1>0, CountIs
<1>2. level = [i \in 1..c |-> level[i]] /\ \A i \in 1..c : level[i] = Block(leaves, n, i - 1)
  BY DEF LevelOf
<1> HIDE DEF level, c
<1>3. IsSequence(level) /\ Len(level) = c
  BY <1>1, <1>2, FunctionIsSequence
<1>4. ASSUME NEW i \in Nat PROVE NodeAt(level, i, n) = Block(leaves, n, i)
  <2>1. CASE i < c
    <3>1. i + 1 \in 1..c /\ (i + 1) - 1 = i
      BY <1>1, <2>1
    <3>2. level[i + 1] = Block(leaves, n, i)
      BY <1>2, <3>1
    <3> QED
      BY <1>3, <2>1, <3>2 DEF NodeAt
  <2>2. CASE ~(i < c)
    <3>1. Block(leaves, n, i) = EmptyNode[n]
      BY <1>1, <2>2, BlockEmpty DEF Depths
    <3> QED
      BY <1>3, <2>2, <3>1 DEF NodeAt
  <2> QED
    BY <2>1, <2>2
<1> QED
  BY <1>3, <1>4 DEF level, c

LEMMA LevelZero ==
  ASSUME NEW leaves, IsSequence(leaves)
  PROVE  /\ LevelOf(leaves, 0) = [i \in DOMAIN leaves |-> <<leaves[i]>>]
         /\ Count(leaves, 0) = Len(leaves)
         /\ \A j \in Nat : Block(leaves, 0, j) = <<At(leaves, j + 1)>>
<1>1. Len(leaves) \in Nat /\ DOMAIN leaves = 1..Len(leaves) /\ 2^0 = 1
  BY SequenceShape, Powers
<1>2. Count(leaves, 0) = Len(leaves)
  <2> DEFINE c == Count(leaves, 0)
             l == Len(leaves)
  <2>1. c \in Nat /\ l \in Nat /\ \A i \in Nat : i < c <=> i * 2^0 < l
    BY <1>1, CountIs
  <2> HIDE DEF c, l
  <2>2. \A i \in Nat : i < c <=> i < l
    BY <1>1, <2>1
  <2>3. c = l
    BY <2>1, <2>2
  <2> QED
    BY <2>3 DEF c, l
<1>3. ASSUME NEW j \in Nat PROVE Block(leaves, 0, j) = <<At(leaves, j + 1)>>
  <2>1. Block(leaves, 0, j) = [k \in 1..1 |-> At(leaves, j * 1 + k)]
    BY <1>1 DEF Block
  <2>2. \A k \in 1..1 : At(leaves, j * 1 + k) = At(leaves, j + 1)
    OBVIOUS
  <2>3. <<At(leaves, j + 1)>> = [k \in 1..1 |-> At(leaves, j + 1)]
    OBVIOUS
  <2> QED
    BY <2>1, <2>2, <2>3
<1>4. ASSUME NEW i \in 1..Len(leaves) PROVE Block(leaves, 0, i - 1) = <<leaves[i]>>
  <2>1. i - 1 \in Nat /\ (i - 1) + 1 = i
    BY <1>1
  <2>2. At(leaves, i) = leaves[i]
    BY <1>1 DEF At
  <2> QED
    BY <1>3, <2>1, <2>2
<1> QED
  BY <1>1, <1>2, <1>3, <1>4 DEF LevelOf

(* One level pairs the nodes of the one below.                             *)
LEMMA LevelPairs ==
  ASSUME NEW leaves, Len(leaves) \in Nat, NEW n \in Depths, n + 1 \in Depths
  PROVE  LevelOf(leaves, n + 1) =
           [pair \in 1..Width(Len(LevelOf(leaves, n))) |->
              HashNode(NodeAt(LevelOf(leaves, n), 2 * pair - 2, n),
                       NodeAt(LevelOf(leaves, n), 2 * pair - 1, n))]
<1>0. n \in Nat
  BY DepthsAre
<1>1. /\ Len(LevelOf(leaves, n)) = Count(leaves, n)
      /\ \A i \in Nat : NodeAt(LevelOf(leaves, n), i, n) = Block(leaves, n, i)
  BY LevelShape
<1>2. Width(Len(LevelOf(leaves, n))) = Count(leaves, n + 1) /\ Count(leaves, n + 1) \in Nat
  BY <1>0, <1>1, CountHalves, CountIs
<1>3. ASSUME NEW pair \in 1..Count(leaves, n + 1)
      PROVE  Block(leaves, n + 1, pair - 1) =
               HashNode(NodeAt(LevelOf(leaves, n), 2 * pair - 2, n),
                        NodeAt(LevelOf(leaves, n), 2 * pair - 1, n))
  <2>1. /\ pair - 1 \in Nat /\ 2 * pair - 2 = (pair - 1) * 2 /\ 2 * pair - 1 = (pair - 1) * 2 + 1
        /\ 2 * pair - 2 \in Nat /\ 2 * pair - 1 \in Nat
    BY <1>2
  <2>2. Block(leaves, n + 1, pair - 1)
          = HashNode(Block(leaves, n, 2 * pair - 2), Block(leaves, n, 2 * pair - 1))
    BY <1>0, <2>1, BlockSplits
  <2> QED
    BY <1>1, <2>1, <2>2
<1> QED
  BY <1>2, <1>3 DEF LevelOf

LEMMA LevelsAre ==
  ASSUME NEW leaves, IsSequence(leaves), NEW depth \in Depths
  PROVE  \A n \in 0..depth : OccupiedLevels(leaves, depth)[n] = LevelOf(leaves, n)
<1> DEFINE first == [i \in DOMAIN leaves |-> <<leaves[i]>>]
           above(row, n) == [pair \in 1..Width(Len(row)) |->
                               HashNode(NodeAt(row, 2 * pair - 2, n), NodeAt(row, 2 * pair - 1, n))]
           Built(f) == f = [n \in 0..depth |-> IF n = 0 THEN first ELSE above(f[n - 1], n - 1)]
           g == [n \in 0..depth |-> LevelOf(leaves, n)]
           levels == CHOOSE f : Built(f)
<1>1. Len(leaves) \in Nat /\ depth \in Nat
  BY SequenceShape, DepthsAre
<1>2. Built(g)
  <2>1. ASSUME NEW n \in 0..depth
        PROVE  LevelOf(leaves, n) = IF n = 0 THEN first ELSE above(g[n - 1], n - 1)
    <3>1. CASE n = 0
      BY <3>1, LevelZero
    <3>2. CASE n # 0
      <4>1. n - 1 \in 0..depth /\ n - 1 \in Depths /\ (n - 1) + 1 = n /\ n \in Depths
        BY <1>1, <3>2, DepthsAre
      <4>2. g[n - 1] = LevelOf(leaves, n - 1)
        BY <4>1
      <4>3. LevelOf(leaves, n) = above(LevelOf(leaves, n - 1), n - 1)
        BY <1>1, <4>1, LevelPairs
      <4> QED
        BY <3>2, <4>2, <4>3
    <3> QED
      BY <3>1, <3>2
  <2> HIDE DEF first, above
  <2> QED
    BY <2>1
<1>3. OccupiedLevels(leaves, depth) = levels
  BY DEF OccupiedLevels
<1>4. Built(levels)
  <2> HIDE DEF Built, g
  <2> QED
    BY <1>2
<1> DEFINE S == {n \in Nat : n <= depth => levels[n] = g[n]}
<1> HIDE DEF first, above, g, levels
<1>5. 0 \in S
  <2>1. 0 \in 0..depth
    BY <1>1
  <2> QED
    BY <1>2, <1>4, <2>1
<1>6. ASSUME NEW n \in Nat, n \in S PROVE n + 1 \in S
  <2> SUFFICES ASSUME n + 1 <= depth PROVE levels[n + 1] = g[n + 1]
    OBVIOUS
  <2>1. n + 1 \in 0..depth /\ n \in 0..depth /\ n + 1 # 0 /\ (n + 1) - 1 = n
    BY <1>1
  <2>2. levels[n] = g[n]
    BY <1>1, <1>6
  <2>3. levels[n + 1] = above(levels[n], n) /\ g[n + 1] = above(g[n], n)
    BY <1>2, <1>4, <2>1
  <2> QED
    BY <2>2, <2>3
<1> HIDE DEF S
<1>7. Nat \subseteq S
  BY <1>5, <1>6, Induct
<1>8. ASSUME NEW n \in 0..depth PROVE levels[n] = LevelOf(leaves, n)
  <2>1. n \in Nat /\ n <= depth
    BY <1>1
  <2>2. n \in S
    BY <1>7, <2>1
  <2>3. levels[n] = g[n]
    BY <2>1, <2>2 DEF S
  <2> QED
    BY <2>3 DEF g
<1> QED
  BY <1>3, <1>8

(* The root, and the siblings of a witness.                                *)
LEMMA RootIs ==
  ASSUME NEW leaves, IsSequence(leaves), NEW depth \in Depths
  PROVE  RootOf(leaves, depth) = Block(leaves, depth, 0)
<1>1. depth \in 0..depth /\ Len(leaves) \in Nat
  BY SequenceShape, DepthsAre
<1> QED
  BY <1>1, LevelsAre, LevelShape DEF RootOf

LEMMA NeighbourIs ==
  ASSUME NEW i \in Nat
  PROVE  /\ Neighbour(i) \in Nat
         /\ i % 2 = 1 => Neighbour(i) = (i \div 2) * 2 /\ i = (i \div 2) * 2 + 1
         /\ i % 2 # 1 => Neighbour(i) = (i \div 2) * 2 + 1 /\ i = (i \div 2) * 2
BY DEF Neighbour

LEMMA WitnessIs ==
  ASSUME NEW leaves, IsSequence(leaves), NEW depth \in Depths, NEW position \in Nat
  PROVE  /\ WitnessFor(leaves, depth, position).index = position
         /\ \A n \in 0..(depth - 1) : 
              /\ position \div 2^n \in Nat
              /\ WitnessFor(leaves, depth, position).siblings[n]
                   = Block(leaves, n, Neighbour(position \div 2^n))
<1>1. ASSUME NEW n \in 0..(depth - 1)
      PROVE  /\ position \div 2^n \in Nat
             /\ NodeAt(OccupiedLevels(leaves, depth)[n], Neighbour(position \div 2^n), n)
                  = Block(leaves, n, Neighbour(position \div 2^n))
  <2>1. n \in 0..depth /\ n \in Nat /\ n \in Depths /\ Len(leaves) \in Nat
    BY SequenceShape, DepthsAre
  <2>2. 2^n \in Nat /\ 2^n > 0
    BY <2>1, Powers
  <2>3. position \div 2^n \in Nat
    BY <2>2
  <2>4. Neighbour(position \div 2^n) \in Nat
    BY <2>3, NeighbourIs
  <2> QED
    BY <2>1, <2>3, <2>4, LevelsAre, LevelShape
<1> QED
  BY <1>1 DEF WitnessFor
-------------------------------------------------------------------------------
(* Folding a leaf up its path.                                             *)

(* The recursion of Fold and of PathRoot: right holds the levels at which  *)
(* the node is a right child.                                              *)
Climbs(f, first, right, siblings, depth) ==
  f = [n \in 0..depth |->
         IF n = 0 THEN first
         ELSE IF n - 1 \in right THEN HashNode(siblings[n - 1], f[n - 1])
                                 ELSE HashNode(f[n - 1], siblings[n - 1])]

LEMMA ClimbExists ==
  ASSUME NEW depth \in Nat, NEW first, NEW right, NEW siblings
  PROVE  \E f : Climbs(f, first, right, siblings, depth)
<1> DEFINE S == {n \in Nat : \E f : Climbs(f, first, right, siblings, n)}
<1>1. 0 \in S
  <2>1. Climbs([n \in 0..0 |-> first], first, right, siblings, 0)
    BY DEF Climbs
  <2> QED
    BY <2>1
<1>2. ASSUME NEW d \in Nat, d \in S PROVE d + 1 \in S
  <2>1. PICK g : Climbs(g, first, right, siblings, d)
    BY <1>2
  <2> DEFINE above == IF d \in right THEN HashNode(siblings[d], g[d]) ELSE HashNode(g[d], siblings[d])
             h == [n \in 0..(d + 1) |-> IF n = d + 1 THEN above ELSE g[n]]
  <2>2. ASSUME NEW n \in 0..(d + 1)
        PROVE  h[n] = IF n = 0 THEN first
                      ELSE IF n - 1 \in right THEN HashNode(siblings[n - 1], h[n - 1])
                                              ELSE HashNode(h[n - 1], siblings[n - 1])
    <3>1. CASE n = d + 1
      <4>1. n # 0 /\ n - 1 = d /\ d \in 0..(d + 1) /\ d # d + 1
        BY <3>1
      <4>2. h[n] = above /\ h[d] = g[d]
        BY <3>1, <4>1
      <4> HIDE DEF h
      <4> QED
        BY <4>1, <4>2
    <3>2. CASE n # d + 1
      <4>1. n \in 0..d /\ (n # 0 => n - 1 \in 0..(d + 1) /\ n - 1 # d + 1)
        BY <3>2
      <4>2. h[n] = g[n] /\ (n # 0 => h[n - 1] = g[n - 1])
        BY <3>2, <4>1
      <4>3. g[n] = IF n = 0 THEN first
                   ELSE IF n - 1 \in right THEN HashNode(siblings[n - 1], g[n - 1])
                                           ELSE HashNode(g[n - 1], siblings[n - 1])
        BY <2>1, <4>1 DEF Climbs
      <4> HIDE DEF h
      <4> QED
        BY <4>2, <4>3
    <3> QED
      BY <3>1, <3>2
  <2>3. h = [n \in 0..(d + 1) |-> h[n]]
    OBVIOUS
  <2> HIDE DEF h
  <2>4. Climbs(h, first, right, siblings, d + 1)
    BY <2>2, <2>3 DEF Climbs
  <2> QED
    BY <2>4
<1> HIDE DEF S
<1>3. depth \in S
  BY <1>1, <1>2, Induct
<1> QED
  BY <1>3 DEF S

(* The levels at which a place is on the right.                            *)
RightTurns(index, depth) == {n \in 0..(depth - 1) : (index \div 2^n) % 2 = 1}

LEMMA FoldUnfolds ==
  ASSUME NEW leaf, NEW witness, NEW depth \in Nat
  PROVE  \E f : /\ Climbs(f, <<leaf>>, RightTurns(witness.index, depth), witness.siblings, depth)
                /\ Fold(leaf, witness, depth) = f[depth]
<1> DEFINE Built(f) == f = [n \in 0..depth |->
                              IF n = 0 THEN <<leaf>>
                              ELSE IF (witness.index \div 2^(n - 1)) % 2 = 1
                                THEN HashNode(witness.siblings[n - 1], f[n - 1])
                                ELSE HashNode(f[n - 1], witness.siblings[n - 1])]
           right == RightTurns(witness.index, depth)
           node == CHOOSE f : Built(f)
<1>1. ASSUME NEW n \in 0..depth, n # 0
      PROVE  (witness.index \div 2^(n - 1)) % 2 = 1 <=> n - 1 \in right
  BY <1>1 DEF RightTurns
<1>2. ASSUME NEW f PROVE Built(f) <=> Climbs(f, <<leaf>>, right, witness.siblings, depth)
  <2> HIDE DEF right
  <2> QED
    BY <1>1 DEF Climbs
<1>3. PICK g : Climbs(g, <<leaf>>, right, witness.siblings, depth)
  BY ClimbExists
<1>4. Built(node)
  <2>1. Built(g)
    BY <1>2, <1>3
  <2> HIDE DEF Built
  <2> QED
    BY <2>1
<1>5. Fold(leaf, witness, depth) = node[depth]
  BY DEF Fold
<1> HIDE DEF node, Built
<1> QED
  BY <1>2, <1>4, <1>5

LEMMA PathUnfolds ==
  ASSUME NEW leaf, NEW path, NEW depth \in Nat
  PROVE  \E f : /\ Climbs(f, <<leaf>>, {n \in 0..(depth - 1) : path.bits[n]}, path.siblings, depth)
                /\ PathRoot(leaf, path, depth) = f[depth]
<1> DEFINE Built(f) == f = [n \in 0..depth |->
                              IF n = 0 THEN <<leaf>>
                              ELSE IF path.bits[n - 1]
                                THEN HashNode(path.siblings[n - 1], f[n - 1])
                                ELSE HashNode(f[n - 1], path.siblings[n - 1])]
           right == {n \in 0..(depth - 1) : path.bits[n]}
           node == CHOOSE f : Built(f)
<1>1. ASSUME NEW n \in 0..depth, n # 0
      PROVE  path.bits[n - 1] <=> n - 1 \in right
  BY <1>1
<1>2. ASSUME NEW f PROVE Built(f) <=> Climbs(f, <<leaf>>, right, path.siblings, depth)
  <2> HIDE DEF right
  <2> QED
    BY <1>1 DEF Climbs
<1>3. PICK g : Climbs(g, <<leaf>>, right, path.siblings, depth)
  BY ClimbExists
<1>4. Built(node)
  <2>1. Built(g)
    BY <1>2, <1>3
  <2> HIDE DEF Built
  <2> QED
    BY <2>1
<1>5. PathRoot(leaf, path, depth) = node[depth]
  BY DEF PathRoot
<1> HIDE DEF node, Built
<1> QED
  BY <1>2, <1>4, <1>5

LEMMA QuotientHalves ==
  ASSUME NEW x \in Nat, NEW p \in Nat, p > 0, NEW q \in Nat, q = 2 * p
  PROVE  x \div q = (x \div p) \div 2
<1> DEFINE a == x \div p
           c == a \div 2
           e == x \div q
<1>1. a \in Nat /\ a * p <= x /\ x < a * p + p
  OBVIOUS
<1>2. e \in Nat /\ e * q <= x /\ x < e * q + q
  OBVIOUS
<1> HIDE DEF a, e
<1>3. c \in Nat /\ c * 2 <= a /\ a <= c * 2 + 1
  BY <1>1
<1> HIDE DEF c
<1>4. c * q <= x
  <2>1. (c * 2) * p <= a * p
    BY <1>1, <1>3
  <2>2. (c * 2) * p = c * q
    BY <1>3
  <2>3. c * q \in Nat /\ a * p \in Nat
    BY <1>1, <1>3
  <2> QED
    BY <1>1, <2>1, <2>2, <2>3
<1>5. x < c * q + q
  <2>1. a * p <= (c * 2 + 1) * p
    BY <1>1, <1>3
  <2>2. (c * 2 + 1) * p = c * q + p
    BY <1>3
  <2>3. c * q \in Nat /\ a * p \in Nat
    BY <1>1, <1>3
  <2> QED
    BY <1>1, <2>1, <2>2, <2>3
<1>6. e = c
  <2>1. ~(e < c)
    <3>1. SUFFICES ASSUME e + 1 <= c PROVE FALSE
      BY <1>2, <1>3
    <3>2. (e + 1) * q <= c * q
      BY <1>2, <1>3, <3>1
    <3>3. (e + 1) * q = e * q + q /\ e * q \in Nat /\ c * q \in Nat
      BY <1>2, <1>3
    <3> QED
      BY <1>2, <1>4, <3>2, <3>3
  <2>2. ~(c < e)
    <3>1. SUFFICES ASSUME c + 1 <= e PROVE FALSE
      BY <1>2, <1>3
    <3>2. (c + 1) * q <= e * q
      BY <1>2, <1>3, <3>1
    <3>3. (c + 1) * q = c * q + q /\ e * q \in Nat /\ c * q \in Nat
      BY <1>2, <1>3
    <3> QED
      BY <1>2, <1>5, <3>2, <3>3
  <2> QED
    BY <1>2, <1>3, <2>1, <2>2
<1> QED
  BY <1>6 DEF a, c, e

LEMMA Turns ==
  ASSUME NEW index \in Nat, NEW n \in Nat
  PROVE  LET i == index \div 2^n
             j == index \div 2^(n + 1)
         IN /\ i \in Nat /\ j \in Nat
            /\ i % 2 = 1 => i = j * 2 + 1 /\ Neighbour(i) = j * 2
            /\ i % 2 # 1 => i = j * 2 /\ Neighbour(i) = j * 2 + 1
<1> DEFINE i == index \div 2^n
           j == index \div 2^(n + 1)
<1>1. 2^n \in Nat /\ 2^n > 0 /\ 2^(n + 1) = 2 * 2^n /\ 2^(n + 1) \in Nat
  BY Powers
<1>2. i \in Nat /\ j = i \div 2
  <2> DEFINE p == 2^n
             q == 2^(n + 1)
  <2> HIDE DEF p, q
  <2>1. p \in Nat /\ p > 0 /\ q \in Nat /\ q = 2 * p
    BY <1>1 DEF p, q
  <2>2. index \div p \in Nat
    BY <2>1
  <2>3. index \div q = (index \div p) \div 2
    BY <2>1, QuotientHalves
  <2> QED
    BY <2>2, <2>3 DEF p, q
<1> HIDE DEF i, j
<1>3. /\ i \in Nat /\ j \in Nat
      /\ i % 2 = 1 => i = j * 2 + 1 /\ Neighbour(i) = j * 2
      /\ i % 2 # 1 => i = j * 2 /\ Neighbour(i) = j * 2 + 1
  BY <1>2, NeighbourIs
<1> QED
  BY <1>3 DEF i, j

(* A path of the tree's own nodes leads from its leaf to the root.         *)
LEMMA ClimbComplete ==
  ASSUME NEW leaves, NEW depth \in Depths, NEW position \in Nat, NEW f, NEW siblings,
         Climbs(f, Block(leaves, 0, position), RightTurns(position, depth), siblings, depth),
         \A n \in 0..(depth - 1) : siblings[n] = Block(leaves, n, Neighbour(position \div 2^n))
  PROVE  f[depth] = Block(leaves, depth, position \div 2^depth)
<1> DEFINE S == {n \in Nat : n <= depth => f[n] = Block(leaves, n, position \div 2^n)}
<1>0. depth \in Nat
  BY DepthsAre
<1>1. 0 \in S
  <2>1. 0 \in 0..depth /\ position \div 2^0 = position
    BY <1>0, Powers
  <2> QED
    BY <2>1 DEF Climbs
<1>2. ASSUME NEW n \in Nat, n \in S PROVE n + 1 \in S
  <2> SUFFICES ASSUME n + 1 <= depth PROVE f[n + 1] = Block(leaves, n + 1, position \div 2^(n + 1))
    OBVIOUS
  <2> DEFINE i == position \div 2^n
             j == position \div 2^(n + 1)
  <2>1. /\ n + 1 \in 0..depth /\ n + 1 # 0 /\ (n + 1) - 1 = n /\ n \in 0..(depth - 1)
    BY <1>0
  <2>2. f[n] = Block(leaves, n, i) /\ siblings[n] = Block(leaves, n, Neighbour(i))
    BY <1>0, <1>2, <2>1
  <2>3. n \in RightTurns(position, depth) <=> i % 2 = 1
    BY <2>1 DEF RightTurns
  <2>4. f[n + 1] = IF n \in RightTurns(position, depth) THEN HashNode(siblings[n], f[n])
                                                         ELSE HashNode(f[n], siblings[n])
    BY <2>1 DEF Climbs
  <2>5. /\ i \in Nat /\ j \in Nat
        /\ i % 2 = 1 => i = j * 2 + 1 /\ Neighbour(i) = j * 2
        /\ i % 2 # 1 => i = j * 2 /\ Neighbour(i) = j * 2 + 1
    BY Turns
  <2> HIDE DEF i, j
  <2>6. Block(leaves, n + 1, j) = HashNode(Block(leaves, n, j * 2), Block(leaves, n, j * 2 + 1))
    BY <2>5, BlockSplits
  <2>7. f[n + 1] = Block(leaves, n + 1, j)
    BY <2>2, <2>3, <2>4, <2>5, <2>6
  <2> QED
    BY <2>7 DEF j
<1> HIDE DEF S
<1>3. depth \in S
  BY <1>0, <1>1, <1>2, Induct
<1> QED
  BY <1>0, <1>3 DEF S

(* Whatever the siblings, a leaf comes to stand at its own place.          *)
LEMMA ClimbSound ==
  ASSUME NEW depth \in Nat, NEW index \in Nat, NEW f, NEW siblings, NEW leaf,
         Climbs(f, <<leaf>>, RightTurns(index, depth), siblings, depth),
         \A n \in 0..(depth - 1) : IsNode(siblings[n], n),
         index < 2^depth
  PROVE  IsNode(f[depth], depth) /\ index + 1 \in 1..(2^depth) /\ f[depth][index + 1] = leaf
<1> DEFINE place(n) == index - (index \div 2^n) * 2^n + 1
           S == {n \in Nat : n <= depth => /\ IsNode(f[n], n)
                                           /\ place(n) \in 1..(2^n) /\ f[n][place(n)] = leaf}
<1>1. 0 \in S
  <2>1. 0 \in 0..depth /\ 2^0 = 1 /\ index \div 1 = index
    BY Powers
  <2>2. f[0] = <<leaf>>
    BY <2>1 DEF Climbs
  <2>3. IsSequence(<<leaf>>) /\ Len(<<leaf>>) = 1 /\ <<leaf>>[1] = leaf
    BY SmallSequences
  <2>4. place(0) = 1
    BY <2>1
  <2> HIDE DEF place
  <2> QED
    BY <2>1, <2>2, <2>3, <2>4 DEF IsNode
<1>2. ASSUME NEW n \in Nat, n \in S PROVE n + 1 \in S
  <2> SUFFICES ASSUME n + 1 <= depth
               PROVE  /\ IsNode(f[n + 1], n + 1)
                      /\ place(n + 1) \in 1..(2^(n + 1)) /\ f[n + 1][place(n + 1)] = leaf
    OBVIOUS
  <2> DEFINE i == index \div 2^n
             j == index \div 2^(n + 1)
             p == 2^n
             q == 2^(n + 1)
             u == place(n)
             v == place(n + 1)
  <2>1. n + 1 \in 0..depth /\ n + 1 # 0 /\ (n + 1) - 1 = n /\ n \in 0..(depth - 1)
    OBVIOUS
  <2>2. IsNode(f[n], n) /\ u \in 1..p /\ f[n][u] = leaf /\ IsNode(siblings[n], n)
    <3> HIDE DEF place
    <3> QED
      BY <1>2, <2>1
  <2>3. n \in RightTurns(index, depth) <=> i % 2 = 1
    BY <2>1 DEF RightTurns
  <2>4. f[n + 1] = IF n \in RightTurns(index, depth) THEN HashNode(siblings[n], f[n])
                                                      ELSE HashNode(f[n], siblings[n])
    BY <2>1 DEF Climbs
  <2>5. /\ i \in Nat /\ j \in Nat
        /\ i % 2 = 1 => i = j * 2 + 1
        /\ i % 2 # 1 => i = j * 2
    BY Turns
  <2>6. p \in Nat /\ q = 2 * p
    BY Powers
  <2>7. u = index - i * p + 1 /\ v = index - j * q + 1
    OBVIOUS
  <2>8. /\ IsNode(HashNode(siblings[n], f[n]), n + 1)
        /\ IsNode(HashNode(f[n], siblings[n]), n + 1)
        /\ HashNode(siblings[n], f[n])[p + u] = leaf
        /\ HashNode(f[n], siblings[n])[u] = leaf
    <3> HIDE DEF u, v, i, j
    <3> QED
      BY <2>2, NodesJoin
  <2> HIDE DEF i, j, p, q, u, v, place
  <2>9. u \in Nat /\ u \in 1..q /\ p + u \in 1..q
    BY <2>2, <2>6
  <2>10. CASE i % 2 = 1
    <3>1. i * p = j * q + p /\ j * q \in Nat
      BY <2>5, <2>6, <2>10
    <3>2. v = p + u
      BY <2>6, <2>7, <3>1
    <3>3. f[n + 1] = HashNode(siblings[n], f[n])
      BY <2>3, <2>4, <2>10
    <3> QED
      BY <2>8, <2>9, <3>2, <3>3 DEF q, v
  <2>11. CASE i % 2 # 1
    <3>1. i * p = j * q /\ j * q \in Nat
      BY <2>5, <2>6, <2>11
    <3>2. v = u
      BY <2>6, <2>7, <3>1
    <3>3. f[n + 1] = HashNode(f[n], siblings[n])
      BY <2>3, <2>4, <2>11
    <3> QED
      BY <2>8, <2>9, <3>2, <3>3 DEF q, v
  <2> QED
    BY <2>10, <2>11
<1>3. place(depth) = index + 1
  <2>1. 2^depth \in Nat /\ 2^depth > 0
    BY Powers
  <2>2. index \div 2^depth = 0
    BY <2>1
  <2> QED
    BY <2>1, <2>2
<1> HIDE DEF S
<1>4. depth \in S
  BY <1>1, <1>2, Induct
<1> HIDE DEF place
<1> QED
  BY <1>3, <1>4 DEF S

LEMMA LeafBlock ==
  ASSUME NEW leaves, IsSequence(leaves), NEW depth \in Depths, NEW j \in Nat, j < 2^depth
  PROVE  /\ IsNode(Block(leaves, depth, 0), depth)
         /\ Block(leaves, depth, 0)[j + 1] = At(leaves, j + 1)
<1>1. 2^depth \in Nat /\ depth \in Nat
  BY Powers, DepthsAre
<1>2. j + 1 \in 1..(2^depth) /\ 0 * 2^depth + (j + 1) = j + 1
  BY <1>1
<1> QED
  BY <1>1, <1>2, BlockShape

(* The path of a tree's own siblings leads to its root ...                 *)
LEMMA FoldComplete ==
  ASSUME NEW leaves, IsSequence(leaves), NEW depth \in Depths, NEW witness,
         witness.index \in Nat, witness.index < 2^depth,
         \A n \in 0..(depth - 1) :
           witness.siblings[n] = WitnessFor(leaves, depth, witness.index).siblings[n]
  PROVE  Fold(At(leaves, witness.index + 1), witness, depth) = RootOf(leaves, depth)
<1> DEFINE position == witness.index
           leaf == At(leaves, position + 1)
<1>1. depth \in Nat /\ 2^depth \in Nat /\ 2^depth > 0
  BY DepthsAre, Powers
<1>2. PICK f : /\ Climbs(f, <<leaf>>, RightTurns(position, depth), witness.siblings, depth)
               /\ Fold(leaf, witness, depth) = f[depth]
  BY <1>1, FoldUnfolds
<1>3. \A n \in 0..(depth - 1) : witness.siblings[n] = Block(leaves, n, Neighbour(position \div 2^n))
  BY WitnessIs
<1>4. <<leaf>> = Block(leaves, 0, position)
  BY LevelZero
<1>5. position \div 2^depth = 0
  BY <1>1
<1> HIDE DEF leaf, position
<1>6. position \in Nat
  BY DEF position
<1>7. f[depth] = Block(leaves, depth, 0)
  BY <1>2, <1>3, <1>4, <1>5, <1>6, ClimbComplete
<1> QED
  BY <1>2, <1>7, RootIs DEF leaf, position

(* ... and a path that leads to the root shows the leaf at its place,      *)
(* whatever nodes it is made of.                                           *)
LEMMA FoldSound ==
  ASSUME NEW leaves, IsSequence(leaves), NEW depth \in Depths, NEW witness, NEW leaf,
         witness.index \in Nat, witness.index < 2^depth,
         \A n \in 0..(depth - 1) : IsNode(witness.siblings[n], n),
         Fold(leaf, witness, depth) = RootOf(leaves, depth)
  PROVE  leaf = At(leaves, witness.index + 1)
<1>1. depth \in Nat
  BY DepthsAre
<1>2. PICK f : /\ Climbs(f, <<leaf>>, RightTurns(witness.index, depth), witness.siblings, depth)
               /\ Fold(leaf, witness, depth) = f[depth]
  BY <1>1, FoldUnfolds
<1>3. f[depth][witness.index + 1] = leaf
  BY <1>1, <1>2, ClimbSound
<1>4. f[depth] = Block(leaves, depth, 0)
  BY <1>2, RootIs
<1> QED
  BY <1>3, <1>4, LeafBlock

LEMMA SiblingsAreNodes ==
  ASSUME NEW leaves, IsSequence(leaves), NEW depth \in Depths, NEW position \in Nat,
         NEW n \in 0..(depth - 1)
  PROVE  IsNode(WitnessFor(leaves, depth, position).siblings[n], n)
<1>1. position \div 2^n \in Nat /\ n \in Nat
  BY WitnessIs, DepthsAre
<1>2. WitnessFor(leaves, depth, position).siblings[n] = Block(leaves, n, Neighbour(position \div 2^n))
  BY WitnessIs
<1> DEFINE i == Neighbour(position \div 2^n)
<1>3. i \in Nat
  BY <1>1, NeighbourIs
<1> HIDE DEF i
<1>4. IsNode(Block(leaves, n, i), n)
  BY <1>1, <1>3, BlockShape
<1> QED
  BY <1>2, <1>4 DEF i

-------------------------------------------------------------------------------
(* Delivered paths: cut at the occupied height and refilled.               *)

LEMMA HeightIs ==
  ASSUME NEW leaves, IsSequence(leaves), Len(leaves) <= 2^TreeDepth
  PROVE  OccupiedHeight(leaves) \in 0..TreeDepth /\ Len(leaves) <= 2^OccupiedHeight(leaves)
<1>1. Len(leaves) \in Nat /\ TreeDepth \in Nat /\ 2^0 = 1
  BY SequenceShape, WidthAssumption, Powers
<1>2. CASE Len(leaves) <= 1
  BY <1>1, <1>2 DEF OccupiedHeight
<1>3. CASE ~(Len(leaves) <= 1)
  <2> DEFINE Tall == {h \in Nat : Len(leaves) <= 2^h}
  <2>1. TreeDepth \in Tall
    BY <1>1
  <2>2. PICK h \in Tall : \A y \in Tall : h <= y
    BY <2>1, Least
  <2>3. h \in Nat /\ h # 0 /\ h <= TreeDepth
    BY <1>1, <1>3, <2>1, <2>2
  <2>4. h - 1 \in Nat /\ h - 1 \notin Tall
    BY <2>2, <2>3
  <2>5. 2^(h - 1) \in Nat
    BY <2>4, Powers
  <2>6. h \in 1..TreeDepth /\ 2^(h - 1) < Len(leaves) /\ Len(leaves) <= 2^h
    BY <1>1, <2>2, <2>3, <2>4, <2>5
  <2> DEFINE Occupied(x) == 2^(x - 1) < Len(leaves) /\ Len(leaves) <= 2^x
             height == CHOOSE x \in 1..TreeDepth : Occupied(x)
  <2>7. height \in 1..TreeDepth /\ Occupied(height)
    <3>1. Occupied(h)
      BY <2>6
    <3> HIDE DEF Occupied
    <3> QED
      BY <2>6, <3>1
  <2>8. OccupiedHeight(leaves) = height
    BY <1>3 DEF OccupiedHeight
  <2> HIDE DEF height
  <2> QED
    BY <1>1, <2>7, <2>8
<1> QED
  BY <1>2, <1>3

LEMMA DeliveredIs ==
  ASSUME NEW leaves, IsSequence(leaves), Len(leaves) <= 2^TreeDepth,
         NEW p \in Nat, p < Len(leaves)
  PROVE  /\ FromPrefix(p, DeliveredPath(leaves, p)).index = p
         /\ \A n \in 0..(TreeDepth - 1) :
              FromPrefix(p, DeliveredPath(leaves, p)).siblings[n]
                = WitnessFor(leaves, TreeDepth, p).siblings[n]
<1> DEFINE siblings == WitnessFor(leaves, TreeDepth, p).siblings
           height == OccupiedHeight(leaves)
           prefix == DeliveredPath(leaves, p)
<1>1. Len(leaves) \in Nat /\ TreeDepth \in Nat /\ height \in 0..TreeDepth /\ height \in Nat
  BY SequenceShape, WidthAssumption, HeightIs
<1>2. prefix = [i \in 1..height |-> prefix[i]] /\ \A i \in 1..height : prefix[i] = siblings[i - 1]
  BY DEF DeliveredPath
<1>3. Len(leaves) <= 2^height
  BY HeightIs
<1> HIDE DEF prefix, height
<1>4. Len(prefix) = height
  BY <1>1, <1>2, FunctionIsSequence
<1>5. ASSUME NEW n \in 0..(TreeDepth - 1), ~(n < height) PROVE siblings[n] = EmptyNode[n]
  <2>1. n \in Nat /\ height <= n /\ n \in Depths /\ TreeDepth \in Depths
    BY <1>1, <1>5, DepthsAre
  <2>2. 2^n \in Nat /\ 2^height \in Nat /\ 2^height <= 2^n
    BY <1>1, <2>1, Powers, PowersGrow
  <2>3. p \div 2^n = 0
    BY <1>1, <1>3, <2>2
  <2>4. Neighbour(p \div 2^n) = 1
    BY <2>3, NeighbourIs
  <2>5. ~(1 * 2^n < Len(leaves))
    BY <1>1, <1>3, <2>2
  <2>6. Block(leaves, n, 1) = EmptyNode[n]
    BY <1>1, <2>1, <2>5, BlockEmpty DEF Depths
  <2> QED
    BY <2>1, <2>4, <2>6, WitnessIs
<1>6. ASSUME NEW n \in 0..(TreeDepth - 1)
      PROVE  FromPrefix(p, prefix).siblings[n] = siblings[n]
  <2>1. FromPrefix(p, prefix).siblings[n] = IF n < Len(prefix) THEN prefix[n + 1] ELSE EmptyNode[n]
    BY DEF FromPrefix
  <2> HIDE DEF siblings
  <2>2. CASE n < height
    <3>1. n + 1 \in 1..height /\ (n + 1) - 1 = n
      BY <1>1, <2>2
    <3>2. prefix[n + 1] = siblings[n]
      BY <1>2, <3>1
    <3> QED
      BY <1>4, <2>1, <2>2, <3>2
  <2>3. CASE ~(n < height)
    BY <1>4, <1>5, <2>1, <2>3
  <2> QED
    BY <2>2, <2>3
<1>7. FromPrefix(p, prefix).index = p
  BY DEF FromPrefix
<1> QED
  BY <1>6, <1>7 DEF prefix

-------------------------------------------------------------------------------
(* The class tree.                                                         *)

(* Leaves come in pairs, a commitment and the padding after it.            *)
Paired(leaves) ==
  \A i \in 1..Len(leaves) :
    IF i % 2 = 1 THEN \E v \in Commitments : leaves[i] = <<v>> ELSE leaves[i] = EmptyLeaf

SlotsInv ==
  /\ IsSequence(slots) /\ Len(slots) <= 2^TreeDepth /\ Len(slots) % 2 = 0
  /\ Paired(slots)

KeysInv == IsFiniteSet(keys) /\ keys \subseteq 0..Upper

AccumulatorInv == SlotsInv /\ KeysInv

LEMMA LandKeepsPairs ==
  ASSUME SlotsInv, NEW v \in Commitments, Land(v)
  PROVE  SlotsInv'
<1> DEFINE pair == <<<<v>>, EmptyLeaf>>
           n == Len(slots)
           long == slots \o pair
<1>1. IsSequence(pair) /\ Len(pair) = 2 /\ pair[1] = <<v>> /\ pair[2] = EmptyLeaf
  BY SmallSequences
<1>2. n \in Nat /\ n % 2 = 0 /\ n + 2 <= 2^TreeDepth
  BY SequenceShape DEF SlotsInv, Land
<1>3. /\ IsSequence(long) /\ Len(long) = n + 2
      /\ \A i \in 1..n : long[i] = slots[i]
      /\ long[n + 1] = <<v>> /\ long[n + 2] = EmptyLeaf
  <2> HIDE DEF pair
  <2>0. IsSequence(slots) /\ IsSequence(pair)
    BY <1>1 DEF SlotsInv
  <2>1. /\ IsSequence(long) /\ Len(long) = n + Len(pair)
        /\ \A i \in 1..n : long[i] = slots[i]
        /\ \A i \in 1..Len(pair) : long[n + i] = pair[i]
    BY <2>0, ConcatShape
  <2>2. 1 \in 1..Len(pair) /\ 2 \in 1..Len(pair)
    BY <1>1
  <2> QED
    BY <1>1, <2>1, <2>2
<1>4. slots' = long
  BY DEF Land
<1> HIDE DEF pair, long, n
<1>5. ASSUME NEW i \in 1..(n + 2)
      PROVE  IF i % 2 = 1 THEN \E w \in Commitments : long[i] = <<w>> ELSE long[i] = EmptyLeaf
  <2>1. CASE i \in 1..n
    BY <1>3, <2>1 DEF SlotsInv, Paired, n
  <2>2. CASE i \notin 1..n
    <3>1. (i = n + 1 /\ i % 2 = 1) \/ (i = n + 2 /\ i % 2 = 0)
      BY <1>2, <2>2
    <3> QED
      BY <1>3, <3>1
  <2> QED
    BY <2>1, <2>2
<1>6. (n + 2) % 2 = 0
  BY <1>2
<1> QED
  BY <1>2, <1>3, <1>4, <1>5, <1>6 DEF SlotsInv, Paired

LEMMA InsertKeepsKeys ==
  ASSUME KeysInv, NEW key \in 0..(Modulus - 1), Insert(key)
  PROVE  KeysInv'
<1>1. TruncateKey(key) \in 0..Upper
  BY WidthAssumption DEF TruncateKey
<1>2. IsFiniteSet(keys \cup {TruncateKey(key)})
  BY FS_AddElement DEF KeysInv
<1> QED
  BY <1>1, <1>2 DEF KeysInv, Insert

(* Every reachable tree is a sequence of padded commitments that fits its  *)
(* depth, and every key of the exclusion set is truncated: what            *)
(* ClassState::land and ExclusionSet::insert keep.                         *)
THEOREM AccumulatorsInductive == Spec => []AccumulatorInv
<1>1. Init => AccumulatorInv
  <2> SUFFICES ASSUME Init PROVE AccumulatorInv
    OBVIOUS
  <2>1. 2^TreeDepth \in Nat
    BY Powers, WidthAssumption
  <2>2. IsSequence(<< >>) /\ Len(<< >>) = 0
    BY SmallSequences
  <2>3. SlotsInv
    BY <2>1, <2>2 DEF Init, SlotsInv, Paired
  <2>4. KeysInv
    BY FS_EmptySet DEF Init, KeysInv
  <2> QED
    BY <2>3, <2>4 DEF AccumulatorInv
<1>2. AccumulatorInv /\ [Next]_vars => AccumulatorInv'
  <2> SUFFICES ASSUME AccumulatorInv, [Next]_vars PROVE AccumulatorInv'
    OBVIOUS
  <2>1. ASSUME NEW v \in Commitments, Land(v) PROVE AccumulatorInv'
    <3>1. keys' = keys
      BY <2>1 DEF Land
    <3> QED
      BY <2>1, <3>1, LandKeepsPairs DEF AccumulatorInv, KeysInv
  <2>2. ASSUME NEW key \in 0..(Modulus - 1), Insert(key) PROVE AccumulatorInv'
    <3>1. slots' = slots
      BY <2>2 DEF Insert
    <3> QED
      BY <2>2, <3>1, InsertKeepsKeys DEF AccumulatorInv, SlotsInv, Paired
  <2>3. CASE UNCHANGED vars
    BY <2>3 DEF vars, AccumulatorInv, SlotsInv, Paired, KeysInv
  <2> QED
    BY <2>1, <2>2, <2>3 DEF Next
<1> QED
  BY <1>1, <1>2, PTL DEF Spec

LEMMA PositionsAre ==
  ASSUME SlotsInv, NEW p \in Positions
  PROVE  /\ p \in Nat /\ p < Len(slots) /\ p + 1 \in 1..Len(slots) /\ p < 2^TreeDepth
         /\ \E v \in Commitments : slots[p + 1] = <<v>>
<1>1. Len(slots) \in Nat /\ 2^TreeDepth \in Nat
  BY SequenceShape, Powers, WidthAssumption DEF SlotsInv
<1>2. p \in Nat /\ p < Len(slots) /\ p + 1 \in 1..Len(slots) /\ (p + 1) % 2 = 1
  BY <1>1 DEF Positions
<1> QED
  BY <1>1, <1>2 DEF SlotsInv, Paired

LEMMA DeliveredFolds ==
  ASSUME NEW leaves, IsSequence(leaves), Len(leaves) <= 2^TreeDepth,
         NEW p \in Nat, p < Len(leaves)
  PROVE  Fold(leaves[p + 1], FromPrefix(p, DeliveredPath(leaves, p)), TreeDepth)
           = RootOf(leaves, TreeDepth)
<1> DEFINE w == FromPrefix(p, DeliveredPath(leaves, p))
<1>1. /\ w.index = p
      /\ \A n \in 0..(TreeDepth - 1) : w.siblings[n] = WitnessFor(leaves, TreeDepth, p).siblings[n]
  BY DeliveredIs
<1>2. TreeDepth \in Depths /\ 2^TreeDepth \in Nat /\ Len(leaves) \in Nat
  BY DepthsAre, Powers, SequenceShape
<1>3. At(leaves, p + 1) = leaves[p + 1]
  BY <1>2 DEF At
<1> HIDE DEF w
<1>4. Fold(At(leaves, p + 1), w, TreeDepth) = RootOf(leaves, TreeDepth)
  BY <1>1, <1>2, FoldComplete
<1> QED
  BY <1>3, <1>4 DEF w

LEMMA DeliveredVerifies ==
  ASSUME SlotsInv
  PROVE  DeliveredPathsVerify
<1> SUFFICES ASSUME NEW p \in Positions
             PROVE  Verifies(slots[p + 1][1], FromPrefix(p, DeliveredPath(slots, p)), ClassRoot)
  BY DEF DeliveredPathsVerify
<1>1. PICK v \in Commitments : slots[p + 1] = <<v>>
  BY PositionsAre
<1>2. <<slots[p + 1][1]>> = slots[p + 1]
  BY <1>1
<1>3. Fold(slots[p + 1], FromPrefix(p, DeliveredPath(slots, p)), TreeDepth) = RootOf(slots, TreeDepth)
  BY PositionsAre, DeliveredFolds DEF SlotsInv
<1> QED
  BY <1>2, <1>3 DEF Verifies, ClassRoot

(* A shorter tree with the same first leaves has another root.             *)
LEMMA EarlierRootDiffers ==
  ASSUME SlotsInv, NEW n \in 1..Len(slots), n % 2 = 0, n # Len(slots)
  PROVE  RootOf(Earlier(n), TreeDepth) # RootOf(slots, TreeDepth)
<1>1. TreeDepth \in Depths /\ 2^TreeDepth \in Nat /\ Len(slots) \in Nat /\ Len(slots) <= 2^TreeDepth
  BY DepthsAre, Powers, SequenceShape DEF SlotsInv
<1>2. IsSequence(slots) /\ IsSequence(Earlier(n)) /\ Len(Earlier(n)) = n
  BY <1>1, PrefixShape DEF SlotsInv, Earlier
<1>3. n \in Nat /\ n < 2^TreeDepth /\ n + 1 \in 1..Len(slots) /\ (n + 1) % 2 = 1
  BY <1>1
<1>4. At(Earlier(n), n + 1) = EmptyLeaf
  BY <1>2, <1>3 DEF At
<1>5. PICK v \in Commitments : slots[n + 1] = <<v>>
  BY <1>3 DEF SlotsInv, Paired
<1>6. At(slots, n + 1) = <<v>>
  BY <1>1, <1>3, <1>5 DEF At
<1>7. <<v>> # EmptyLeaf
  BY SmallSequences DEF EmptyLeaf
<1>8. /\ Block(Earlier(n), TreeDepth, 0)[n + 1] = EmptyLeaf
      /\ Block(slots, TreeDepth, 0)[n + 1] = <<v>>
  BY <1>1, <1>2, <1>3, <1>4, <1>6, LeafBlock
<1> QED
  BY <1>1, <1>2, <1>7, <1>8, RootIs

LEMMA StaleFails ==
  ASSUME SlotsInv
  PROVE  StaleAndForeignPathsFail
<1> SUFFICES ASSUME NEW n \in 1..Len(slots), NEW p \in {q \in Positions : q < n}, NEW v \in Commitments,
                    n % 2 = 0,
                    Verifies(v, FromPrefix(p, DeliveredPath(Earlier(n), p)), ClassRoot)
             PROVE  n = Len(slots) /\ slots[p + 1] = <<v>>
  BY DEF StaleAndForeignPathsFail
<1> DEFINE w == FromPrefix(p, DeliveredPath(Earlier(n), p))
<1>1. TreeDepth \in Depths /\ 2^TreeDepth \in Nat /\ Len(slots) \in Nat /\ Len(slots) <= 2^TreeDepth
  BY DepthsAre, Powers, SequenceShape DEF SlotsInv
<1>2. p \in Nat /\ p < n /\ p + 1 \in 1..n /\ p + 1 \in 1..Len(slots) /\ p < 2^TreeDepth
  BY <1>1, PositionsAre
<1>3. /\ IsSequence(slots) /\ IsSequence(Earlier(n)) /\ Len(Earlier(n)) = n
      /\ Earlier(n)[p + 1] = slots[p + 1]
  BY <1>1, <1>2, PrefixShape DEF SlotsInv, Earlier
<1>4. /\ w.index = p
      /\ \A m \in 0..(TreeDepth - 1) :
           w.siblings[m] = WitnessFor(Earlier(n), TreeDepth, p).siblings[m]
  BY <1>1, <1>2, <1>3, DeliveredIs
<1>5. \A m \in 0..(TreeDepth - 1) : IsNode(w.siblings[m], m)
  BY <1>1, <1>2, <1>3, <1>4, SiblingsAreNodes
<1>6. Fold(<<v>>, w, TreeDepth) = RootOf(slots, TreeDepth)
  BY DEF Verifies, ClassRoot
<1>7. Fold(slots[p + 1], w, TreeDepth) = RootOf(Earlier(n), TreeDepth)
  BY <1>1, <1>2, <1>3, DeliveredFolds
<1> HIDE DEF w
<1>8. <<v>> = At(slots, p + 1)
  BY <1>1, <1>2, <1>3, <1>4, <1>5, <1>6, FoldSound
<1>9. slots[p + 1] = <<v>>
  BY <1>1, <1>2, <1>8 DEF At
<1>10. RootOf(Earlier(n), TreeDepth) = RootOf(slots, TreeDepth)
  BY <1>6, <1>7, <1>9
<1> QED
  BY <1>9, <1>10, EarlierRootDiffers

(* A path cut at the occupied height and refilled with empty values        *)
(* verifies the member's leaf under the current root, and no path - stale, *)
(* or used for another leaf - verifies anything else (occupied_height,     *)
(* MembershipWitness::from_prefix and verifies in nymora-accumulator).     *)
THEOREM PathsVerifyExactlyInvariant == Spec => []PathsVerifyExactly
<1>1. AccumulatorInv => PathsVerifyExactly
  BY DeliveredVerifies, StaleFails DEF AccumulatorInv, PathsVerifyExactly
<1> QED
  BY <1>1, AccumulatorsInductive, PTL

-------------------------------------------------------------------------------
(* The gaps of a set of keys.                                              *)

KeySet(set) == IsFiniteSet(set) /\ set \subseteq 0..Upper

LEMMA RankIs ==
  ASSUME NEW set, KeySet(set)
  PROVE  /\ Cardinality(set) \in Nat
         /\ \A t \in Nat : Rank(set, t) \in 0..Cardinality(set)
         /\ \A s, t \in Nat : s <= t => Rank(set, s) <= Rank(set, t)
         /\ \A s \in Nat : \A t \in set : s < t => Rank(set, s) < Rank(set, t)
         /\ \A t \in set : Rank(set, t) \in 1..Cardinality(set)
<1> DEFINE below(t) == {k \in set : k <= t}
<1>0. IsFiniteSet(set) /\ Cardinality(set) \in Nat /\ \A k \in set : k \in Nat
  BY FS_CardinalityType DEF KeySet
<1>1. ASSUME NEW t \in Nat
      PROVE  IsFiniteSet(below(t)) /\ Rank(set, t) \in 0..Cardinality(set)
  <2>1. below(t) \in SUBSET set
    OBVIOUS
  <2> HIDE DEF below
  <2>2. IsFiniteSet(below(t)) /\ Cardinality(below(t)) <= Cardinality(set)
    BY <1>0, <2>1, FS_Subset
  <2>3. Cardinality(below(t)) \in Nat
    BY <2>2, FS_CardinalityType
  <2> QED
    BY <1>0, <2>2, <2>3 DEF Rank, below
<1>2. ASSUME NEW s \in Nat, NEW t \in Nat, s <= t PROVE below(s) \in SUBSET below(t)
  BY <1>0, <1>2
<1>3. ASSUME NEW s \in Nat, NEW t \in Nat, s <= t PROVE Rank(set, s) <= Rank(set, t)
  <2>1. below(s) \in SUBSET below(t) /\ IsFiniteSet(below(t))
    BY <1>1, <1>2, <1>3
  <2> HIDE DEF below
  <2> QED
    BY <2>1, FS_Subset DEF Rank, below
<1>4. ASSUME NEW s \in Nat, NEW t \in set, s < t PROVE Rank(set, s) < Rank(set, t)
  <2>1. t \in Nat /\ s <= t
    BY <1>0, <1>4
  <2>2. below(s) \in SUBSET below(t) /\ IsFiniteSet(below(t))
    BY <1>1, <1>2, <2>1
  <2>3. t \in below(t) /\ t \notin below(s)
    BY <1>4, <2>1
  <2> HIDE DEF below
  <2>4. Cardinality(below(s)) <= Cardinality(below(t)) /\ Cardinality(below(s)) # Cardinality(below(t))
    BY <2>2, <2>3, FS_Subset
  <2>5. Cardinality(below(s)) = Rank(set, s) /\ Cardinality(below(t)) = Rank(set, t)
    BY DEF Rank, below
  <2>6. Rank(set, s) \in Nat /\ Rank(set, t) \in Nat
    BY <1>0, <1>1, <2>1
  <2> QED
    BY <2>4, <2>5, <2>6
<1>5. ASSUME NEW t \in set PROVE Rank(set, t) \in 1..Cardinality(set)
  <2>1. t \in Nat /\ t \in below(t) /\ IsFiniteSet(below(t))
    BY <1>0, <1>1
  <2> HIDE DEF below
  <2>2. Cardinality(below(t)) # 0
    BY <2>1, FS_EmptySet
  <2> QED
    BY <1>0, <1>1, <2>1, <2>2 DEF Rank, below
<1> QED
  BY <1>0, <1>1, <1>3, <1>4, <1>5

LEMMA SortedIs ==
  ASSUME NEW set, KeySet(set)
  PROVE  \A i \in 1..Cardinality(set) : Sorted(set)[i] \in set /\ Rank(set, Sorted(set)[i]) = i
<1> DEFINE n == Cardinality(set)
           rank == [k \in set |-> Rank(set, k)]
<1>0. IsFiniteSet(set) /\ \A k \in set : k \in Nat
  BY DEF KeySet
<1>1. n \in Nat /\ IsFiniteSet(set) /\ \A k \in set : k \in Nat
  BY <1>0, RankIs
<1>2. rank \in [set -> 1..n]
  BY RankIs
<1>3. ASSUME NEW a \in set, NEW b \in set, rank[a] = rank[b] PROVE a = b
  <2>1. a \in Nat /\ b \in Nat /\ Rank(set, a) = Rank(set, b) /\ Rank(set, a) \in 1..n
    BY <1>1, <1>3, RankIs
  <2>2. ~(a < b) /\ ~(b < a)
    BY <2>1, RankIs
  <2> QED
    BY <2>1, <2>2
<1> HIDE DEF rank, n
<1>4. rank \in Injection(set, 1..n)
  BY <1>2, <1>3 DEF Injection, IsInjective
<1>5. IsFiniteSet(1..n) /\ Cardinality(1..n) = n
  BY <1>1, FS_Interval
<1>6. rank \in Surjection(set, 1..n)
  BY <1>1, <1>4, <1>5, FS_Injection DEF n
<1>7. ASSUME NEW i \in 1..n PROVE \E k \in set : Rank(set, k) = i
  <2>1. \E k \in set : rank[k] = i
    BY <1>6 DEF Surjection
  <2> QED
    BY <2>1 DEF rank
<1>8. ASSUME NEW i \in 1..n PROVE Sorted(set)[i] = CHOOSE k \in set : Rank(set, k) = i
  BY DEF Sorted, n
<1> QED
  BY <1>7, <1>8 DEF n

(* The bounds of the gaps: the sentinels, and the keys between them.       *)
BoundOf(set, i) ==
  IF i = 0 THEN 0 ELSE IF i = Cardinality(set) + 1 THEN Upper ELSE Sorted(set)[i]

LEMMA GapsAre ==
  ASSUME NEW set, KeySet(set)
  PROVE  /\ IsSequence(Gaps(set)) /\ Len(Gaps(set)) = Cardinality(set) + 1
         /\ \A i \in 1..(Cardinality(set) + 1) :
              Gaps(set)[i] = <<BoundOf(set, i - 1), BoundOf(set, i)>>
<1> DEFINE n == Cardinality(set)
           keysInOrder == Sorted(set)
           bounds == <<0>> \o Sorted(set) \o <<Upper>>
<1>1. n \in Nat
  BY RankIs
<1>2. IsSequence(keysInOrder) /\ Len(keysInOrder) = n
  <2>1. keysInOrder = [i \in 1..n |-> keysInOrder[i]]
    BY DEF Sorted
  <2> HIDE DEF keysInOrder, n
  <2> QED
    BY <1>1, <2>1, FunctionIsSequence
<1>3. /\ IsSequence(<<0>>) /\ Len(<<0>>) = 1 /\ <<0>>[1] = 0
      /\ IsSequence(<<Upper>>) /\ Len(<<Upper>>) = 1 /\ <<Upper>>[1] = Upper
  BY SmallSequences
<1> DEFINE front == <<0>> \o keysInOrder
<1>4. /\ IsSequence(front) /\ Len(front) = n + 1 /\ front[1] = 0
      /\ \A i \in 1..n : front[i + 1] = keysInOrder[i]
  <2> HIDE DEF keysInOrder
  <2>1. /\ IsSequence(front) /\ Len(front) = 1 + n
        /\ \A i \in 1..1 : front[i] = <<0>>[i]
        /\ \A i \in 1..n : front[1 + i] = keysInOrder[i]
    BY <1>2, <1>3, ConcatShape
  <2> HIDE DEF front
  <2> QED
    BY <1>1, <1>3, <2>1
<1>5. /\ Len(bounds) = n + 2
      /\ \A i \in 0..(n + 1) : bounds[i + 1] = BoundOf(set, i)
  <2>0. bounds = front \o <<Upper>>
    OBVIOUS
  <2> HIDE DEF front, bounds
  <2>1. /\ Len(bounds) = (n + 1) + 1
        /\ \A i \in 1..(n + 1) : bounds[i] = front[i]
        /\ \A i \in 1..1 : bounds[(n + 1) + i] = <<Upper>>[i]
    BY <1>3, <1>4, <2>0, ConcatShape
  <2>2. bounds[1] = BoundOf(set, 0)
    <3>1. 1 \in 1..(n + 1)
      BY <1>1
    <3> QED
      BY <1>4, <2>1, <3>1 DEF BoundOf
  <2>3. ASSUME NEW i \in 1..n PROVE bounds[i + 1] = BoundOf(set, i)
    <3>1. i + 1 \in 1..(n + 1) /\ i # 0 /\ i # n + 1
      BY <1>1
    <3> QED
      BY <1>4, <2>1, <3>1 DEF BoundOf
  <2>4. bounds[(n + 1) + 1] = BoundOf(set, n + 1)
    <3>1. n + 1 # 0 /\ 1 \in 1..1
      BY <1>1
    <3> QED
      BY <1>3, <2>1, <3>1 DEF BoundOf
  <2>5. Len(bounds) = n + 2 /\ \A i \in 0..(n + 1) : i = 0 \/ i \in 1..n \/ i = n + 1
    BY <1>1, <2>1
  <2> QED
    BY <2>2, <2>3, <2>4, <2>5
<1>6. Gaps(set) = [i \in 1..(Len(bounds) - 1) |-> <<bounds[i], bounds[i + 1]>>]
  BY DEF Gaps
<1> DEFINE gaps == Gaps(set)
<1> HIDE DEF bounds, n, gaps
<1>7. gaps = [i \in 1..(n + 1) |-> <<bounds[i], bounds[i + 1]>>]
  BY <1>1, <1>5, <1>6 DEF gaps
<1>8. IsSequence(gaps) /\ Len(gaps) = n + 1
  <2>1. n + 1 \in Nat /\ gaps = [i \in 1..(n + 1) |-> gaps[i]]
    BY <1>1, <1>7
  <2> QED
    BY <2>1, FunctionIsSequence
<1>9. ASSUME NEW i \in 1..(n + 1) PROVE gaps[i] = <<BoundOf(set, i - 1), BoundOf(set, i)>>
  <2>1. i - 1 \in 0..(n + 1) /\ (i - 1) + 1 = i /\ i \in 0..(n + 1)
    BY <1>1
  <2>2. bounds[i] = BoundOf(set, i - 1) /\ bounds[i + 1] = BoundOf(set, i)
    BY <1>5, <2>1
  <2> QED
    BY <1>7, <2>2
<1> QED
  BY <1>8, <1>9 DEF n, gaps

LEMMA BoundsAre ==
  ASSUME NEW set, KeySet(set), NEW i \in 0..(Cardinality(set) + 1)
  PROVE  /\ BoundOf(set, i) \in 0..Upper
         /\ i \in 1..Cardinality(set) => BoundOf(set, i) \in set /\ Rank(set, BoundOf(set, i)) = i
<1>1. Cardinality(set) \in Nat /\ Upper \in Nat
  BY RankIs, WidthAssumption
<1>2. CASE i \in 1..Cardinality(set)
  <2>1. BoundOf(set, i) = Sorted(set)[i]
    BY <1>1, <1>2 DEF BoundOf
  <2> QED
    BY <1>2, <2>1, SortedIs DEF KeySet
<1>3. CASE i \notin 1..Cardinality(set)
  BY <1>1, <1>3 DEF BoundOf
<1> QED
  BY <1>2, <1>3

(* No key lies strictly inside a gap.                                      *)
LEMMA NothingInside ==
  ASSUME NEW set, KeySet(set), NEW i \in 1..(Cardinality(set) + 1), NEW t \in set
  PROVE  ~(BoundOf(set, i - 1) < t /\ t < BoundOf(set, i))
<1> SUFFICES ASSUME BoundOf(set, i - 1) < t, t < BoundOf(set, i) PROVE FALSE
  OBVIOUS
<1> DEFINE n == Cardinality(set)
           low == BoundOf(set, i - 1)
           high == BoundOf(set, i)
<1>0. t \in Nat
  BY DEF KeySet
<1>1. n \in Nat /\ t \in Nat /\ Rank(set, t) \in 1..n /\ i \in Nat
  BY <1>0, RankIs
<1>2. i - 1 \in 0..(n + 1) /\ i \in 0..(n + 1)
  BY <1>1
<1>3. Rank(set, t) > i - 1
  <2>1. CASE i = 1
    BY <1>1, <2>1
  <2>2. CASE i # 1
    <3>1. i - 1 \in 1..n
      BY <1>1, <2>2
    <3>2. low \in set /\ Rank(set, low) = i - 1 /\ low \in Nat
      BY <1>2, <3>1, BoundsAre
    <3> HIDE DEF low
    <3>3. Rank(set, low) < Rank(set, t)
      BY <3>2, RankIs DEF low
    <3> QED
      BY <1>1, <3>2, <3>3
  <2> QED
    BY <2>1, <2>2
<1>4. Rank(set, t) < i
  <2>1. CASE i = n + 1
    BY <1>1, <2>1
  <2>2. CASE i # n + 1
    <3>1. i \in 1..n
      BY <1>1, <2>2
    <3>2. high \in set /\ Rank(set, high) = i
      BY <1>2, <3>1, BoundsAre
    <3>3. Rank(set, t) < Rank(set, high)
      BY <1>1, <3>2, RankIs
    <3> QED
      BY <3>2, <3>3
  <2> QED
    BY <2>1, <2>2
<1> QED
  BY <1>1, <1>3, <1>4

(* The gap a key falls in is the one its rank names.                       *)
LEMMA RankNamesGap ==
  ASSUME NEW set, KeySet(set), NEW t \in 0..(Upper - 1)
  PROVE  /\ BoundOf(set, Rank(set, t)) <= t /\ t < BoundOf(set, Rank(set, t) + 1)
         /\ t # 0 => (BoundOf(set, Rank(set, t)) < t <=> t \notin set)
<1> DEFINE n == Cardinality(set)
           r == Rank(set, t)
           low == BoundOf(set, r)
           high == BoundOf(set, r + 1)
<1>1. n \in Nat /\ t \in Nat /\ t < Upper /\ r \in 0..n /\ Upper \in Nat
  BY RankIs, WidthAssumption
<1>2. r \in 0..(n + 1) /\ r + 1 \in 0..(n + 1)
  BY <1>1
<1>3. /\ low \in 0..Upper /\ (r \in 1..n => low \in set /\ Rank(set, low) = r)
      /\ high \in 0..Upper /\ (r + 1 \in 1..n => high \in set /\ Rank(set, high) = r + 1)
  <2> HIDE DEF r
  <2> QED
    BY <1>2, BoundsAre
<1>4. r = 0 => low = 0
  BY DEF BoundOf
<1>5. r = n => high = Upper
  BY <1>1 DEF BoundOf
<1> HIDE DEF low, high
<1>6. low <= t
  <2>1. CASE r = 0
    BY <1>1, <1>4, <2>1
  <2>2. CASE r # 0
    <3>1. low \in set /\ Rank(set, low) = r /\ low \in Nat
      BY <1>1, <1>3, <2>2
    <3>2. ~(t < low)
      <4>1. SUFFICES ASSUME t < low PROVE FALSE
        OBVIOUS
      <4>2. Rank(set, t) < Rank(set, low)
        BY <1>1, <3>1, <4>1, RankIs
      <4> QED
        BY <1>1, <3>1, <4>2
    <3> QED
      BY <1>1, <3>1, <3>2
  <2> QED
    BY <2>1, <2>2
<1>7. t < high
  <2>1. CASE r = n
    BY <1>1, <1>5, <2>1
  <2>2. CASE r # n
    <3>1. high \in set /\ Rank(set, high) = r + 1 /\ high \in Nat
      BY <1>1, <1>3, <2>2
    <3>2. ~(high <= t)
      <4>1. SUFFICES ASSUME high <= t PROVE FALSE
        OBVIOUS
      <4>2. Rank(set, high) <= Rank(set, t)
        BY <1>1, <3>1, <4>1, RankIs
      <4> QED
        BY <1>1, <3>1, <4>2
    <3> QED
      BY <1>1, <3>1, <3>2
  <2> QED
    BY <2>1, <2>2
<1>8. ASSUME t # 0 PROVE low < t <=> t \notin set
  <2>1. ASSUME t \in set PROVE ~(low < t)
    <3>1. r \in 1..n
      BY <1>1, <2>1, RankIs
    <3>2. low \in set /\ Rank(set, low) = r /\ low \in Nat
      BY <1>3, <3>1
    <3>3. SUFFICES ASSUME low < t PROVE FALSE
      OBVIOUS
    <3>4. Rank(set, low) < Rank(set, t)
      BY <2>1, <3>2, <3>3, RankIs
    <3> QED
      BY <1>1, <3>2, <3>4
  <2>2. ASSUME t \notin set PROVE low < t
    <3>1. CASE r = 0
      BY <1>1, <1>4, <1>8, <3>1
    <3>2. CASE r # 0
      <4>1. low \in set /\ low \in Nat
        BY <1>1, <1>3, <3>2
      <4> QED
        BY <1>1, <1>6, <2>2, <4>1
    <3> QED
      BY <3>1, <3>2
  <2> QED
    BY <2>1, <2>2
<1> QED
  BY <1>6, <1>7, <1>8 DEF low, high

LEMMA GapLeavesAre ==
  ASSUME NEW set, KeySet(set)
  PROVE  /\ IsSequence(GapLeaves(set))
         /\ Len(GapLeaves(set)) = IF Cardinality(set) + 1 <= 2^GapDepth THEN Cardinality(set) + 1
                                                                        ELSE 2^GapDepth
         /\ \A i \in 1..Len(GapLeaves(set)) :
              /\ i \in 1..(Cardinality(set) + 1)
              /\ GapLeaves(set)[i] = <<BoundOf(set, i - 1), BoundOf(set, i)>>
<1> DEFINE n == Cardinality(set)
           room == 2^GapDepth
           m == IF n + 1 <= room THEN n + 1 ELSE room
           leaves == GapLeaves(set)
           gaps == Gaps(set)
<1>1. n \in Nat /\ room \in Nat
  BY RankIs, Powers, WidthAssumption
<1>2. /\ Len(gaps) = n + 1
      /\ \A i \in 1..(n + 1) : gaps[i] = <<BoundOf(set, i - 1), BoundOf(set, i)>>
  BY GapsAre
<1>3. leaves = [i \in 1..m |-> GapLeaf(gaps[i][1], gaps[i][2])]
  <2>1. leaves = [i \in 1..(IF Len(gaps) <= room THEN Len(gaps) ELSE room) |->
                    GapLeaf(gaps[i][1], gaps[i][2])]
    BY DEF GapLeaves
  <2> HIDE DEF gaps, room, leaves
  <2> QED
    BY <1>2, <2>1
<1> HIDE DEF n, room, leaves, gaps
<1>4. m \in Nat /\ \A i \in 1..m : i \in 1..(n + 1)
  BY <1>1
<1> HIDE DEF m
<1>5. IsSequence(leaves) /\ Len(leaves) = m
  <2>1. leaves = [i \in 1..m |-> leaves[i]]
    BY <1>3
  <2> QED
    BY <1>4, <2>1, FunctionIsSequence
<1>6. ASSUME NEW i \in 1..m PROVE leaves[i] = <<BoundOf(set, i - 1), BoundOf(set, i)>>
  <2>1. i \in 1..(n + 1)
    BY <1>4
  <2>2. leaves[i] = GapLeaf(BoundOf(set, i - 1), BoundOf(set, i))
    BY <1>2, <1>3, <2>1
  <2>3. i - 1 \in 0..(n + 1) /\ i \in 0..(n + 1)
    BY <1>1, <2>1
  <2>4. BoundOf(set, i - 1) \in 0..Upper /\ BoundOf(set, i) \in 0..Upper
    BY <2>3, BoundsAre DEF n
  <2>5. \A x \in 0..Upper : x % Modulus = x
    BY WidthAssumption
  <2> QED
    BY <2>2, <2>4, <2>5 DEF GapLeaf
<1> QED
  BY <1>4, <1>5, <1>6 DEF n, room, leaves, m

LEMMA Truncated ==
  ASSUME NEW x \in Nat
  PROVE  TruncateKey(x) \in 0..Upper /\ (TruncateKey(x) = x => x \in 0..Upper)
         /\ (x \in 0..Upper => TruncateKey(x) = x)
BY WidthAssumption DEF TruncateKey

LEMMA AbsentVerifies ==
  ASSUME KeysInv
  PROVE  AbsentKeysHaveWitnesses
<1> SUFFICES ASSUME Cardinality(keys) < 2^GapDepth, NEW key \in 0..(Modulus - 1),
                    TruncateKey(key) \in 1..(Upper - 1)
             PROVE  /\ HasWitness(keys, key)
                    /\ VerifiesAbsent(key, AbsenceWitness(keys, key), ExclusionRoot(keys))
                         <=> TruncateKey(key) \notin keys
  BY DEF AbsentKeysHaveWitnesses
<1> DEFINE n == Cardinality(keys)
           t == TruncateKey(key)
           r == Rank(keys, t)
           leaves == GapLeaves(keys)
           w == AbsenceWitness(keys, key)
           low == BoundOf(keys, r)
           high == BoundOf(keys, r + 1)
<1>1. KeySet(keys)
  BY DEF KeysInv, KeySet
<1>2. n \in Nat /\ 2^GapDepth \in Nat /\ GapDepth \in Depths /\ Upper \in Nat
  BY <1>1, RankIs, Powers, WidthAssumption, DepthsAre
<1>3. t \in Nat /\ t \in 0..(Upper - 1) /\ t # 0
  BY <1>2
<1>4. r \in 0..n
  <2> HIDE DEF t
  <2> QED
    BY <1>1, <1>3, RankIs
<1>5. /\ IsSequence(leaves) /\ Len(leaves) = n + 1
      /\ \A i \in 1..(n + 1) : leaves[i] = <<BoundOf(keys, i - 1), BoundOf(keys, i)>>
  BY <1>1, <1>2, GapLeavesAre
<1>6. HasWitness(keys, key)
  BY <1>2, <1>4, <1>5 DEF HasWitness, GapIndex
<1>7. w.low = low /\ w.high = high /\ w.path = WitnessFor(leaves, GapDepth, r)
  <2>1. r + 1 \in 1..(n + 1) /\ (r + 1) - 1 = r
    BY <1>2, <1>4
  <2>2. Gaps(keys)[r + 1] = <<low, high>>
    <3> HIDE DEF r
    <3> QED
      BY <1>1, <2>1, GapsAre
  <2>3. GapIndex(keys, key) = r
    BY DEF GapIndex
  <2> HIDE DEF r, low, high
  <2> QED
    BY <2>2, <2>3 DEF AbsenceWitness
<1> HIDE DEF t
<1>8. low \in 0..Upper /\ high \in 0..Upper
  <2>1. r \in 0..(n + 1) /\ r + 1 \in 0..(n + 1)
    BY <1>2, <1>4
  <2> HIDE DEF r
  <2> QED
    BY <1>1, <2>1, BoundsAre
<1>9. low <= t /\ t < high /\ (low < t <=> t \notin keys)
  BY <1>1, <1>3, RankNamesGap
<1> HIDE DEF r, low, high, leaves, w
<1>10. InDomain(low) /\ InDomain(high)
  BY <1>8, Truncated DEF InDomain
<1>11. GapLeaf(low, high) = At(leaves, r + 1)
  <2>1. r + 1 \in 1..(n + 1) /\ (r + 1) - 1 = r /\ r + 1 <= Len(leaves)
    BY <1>2, <1>4, <1>5
  <2>2. At(leaves, r + 1) = <<low, high>>
    BY <1>5, <2>1 DEF At, low, high
  <2>3. \A x \in 0..Upper : x % Modulus = x
    BY WidthAssumption
  <2> QED
    BY <1>8, <2>2, <2>3 DEF GapLeaf
<1>12. Fold(GapLeaf(low, high), w.path, GapDepth) = ExclusionRoot(keys)
  <2>1. r \in Nat /\ r < 2^GapDepth
    BY <1>2, <1>4
  <2>2. w.path.index = r
    BY <1>2, <1>5, <1>7, <2>1, WitnessIs
  <2>3. Fold(At(leaves, w.path.index + 1), w.path, GapDepth) = RootOf(leaves, GapDepth)
    BY <1>2, <1>5, <1>7, <2>1, <2>2, FoldComplete
  <2> QED
    BY <1>11, <2>2, <2>3 DEF ExclusionRoot, leaves
<1>13. VerifiesAbsent(key, w, ExclusionRoot(keys)) <=> t \notin keys
  BY <1>7, <1>9, <1>10, <1>12 DEF VerifiesAbsent, Inside, t
<1> QED
  BY <1>6, <1>13 DEF w, t

(* Whatever path leads to the root of a set, the bounds it shows are those *)
(* of a gap of that set, and no key lies between them.                     *)
LEMMA ShownIsAGap ==
  ASSUME NEW set, KeySet(set), NEW low \in Nat, NEW high \in Nat, NEW path, NEW t \in set,
         InDomain(low), InDomain(high),
         path.index \in Nat, path.index < 2^GapDepth,
         \A n \in 0..(GapDepth - 1) : IsNode(path.siblings[n], n),
         Fold(GapLeaf(low, high), path, GapDepth) = ExclusionRoot(set)
  PROVE  ~Inside(low, t, high)
<1> DEFINE leaves == GapLeaves(set)
           i == path.index + 1
<1>1. GapDepth \in Depths /\ IsSequence(leaves) /\ Len(leaves) \in Nat
  BY DepthsAre, GapLeavesAre, SequenceShape
<1>2. low \in 0..Upper /\ high \in 0..Upper
  BY Truncated DEF InDomain
<1>3. GapLeaf(low, high) = <<low, high>>
  <2>1. \A x \in 0..Upper : x % Modulus = x
    BY WidthAssumption
  <2> QED
    BY <1>2, <2>1 DEF GapLeaf
<1>4. <<low, high>> = At(leaves, i)
  <2> HIDE DEF leaves
  <2>1. Fold(GapLeaf(low, high), path, GapDepth) = RootOf(leaves, GapDepth)
    BY DEF ExclusionRoot, leaves
  <2> QED
    BY <1>1, <1>3, <2>1, FoldSound
<1>5. <<low, high>> # EmptyLeaf
  BY SmallSequences DEF EmptyLeaf
<1>6. i \in 1..Len(leaves) /\ leaves[i] = <<low, high>>
  <2>1. i \in Nat /\ i >= 1
    OBVIOUS
  <2> HIDE DEF leaves, i
  <2>2. i <= Len(leaves) /\ leaves[i] = <<low, high>>
    BY <1>4, <1>5 DEF At
  <2> QED
    BY <1>1, <2>1, <2>2
<1>7. i \in 1..(Cardinality(set) + 1) /\ leaves[i] = <<BoundOf(set, i - 1), BoundOf(set, i)>>
  BY <1>6, GapLeavesAre
<1>8. low = BoundOf(set, i - 1) /\ high = BoundOf(set, i)
  <2> HIDE DEF leaves, i
  <2> QED
    BY <1>6, <1>7
<1> HIDE DEF i
<1> QED
  BY <1>7, <1>8, NothingInside DEF Inside

LEMMA PresentFails ==
  ASSUME KeysInv
  PROVE  PresentNeverLooksAbsent
<1> SUFFICES ASSUME NEW key \in 0..(Modulus - 1), TruncateKey(key) \in keys
             PROVE  /\ \A earlier \in SUBSET keys : \A other \in 0..(Modulus - 1) :
                         HasWitness(earlier, other) =>
                           ~VerifiesAbsent(key, AbsenceWitness(earlier, other), ExclusionRoot(keys))
                    /\ \A low, high \in 0..RawMax : \A path \in Paths :
                         ~VerifiesAbsent(key, [low |-> low, high |-> high, path |-> path],
                                         ExclusionRoot(keys))
  BY DEF PresentNeverLooksAbsent
<1>0. KeySet(keys)
  BY DEF KeysInv, KeySet
<1>1. GapDepth \in Depths /\ 2^GapDepth \in Nat /\ Upper \in Nat
  BY DepthsAre, Powers, WidthAssumption
<1>2. ASSUME NEW w, w.low \in Nat, w.high \in Nat,
             w.path.index \in Nat, w.path.index < 2^GapDepth,
             \A n \in 0..(GapDepth - 1) : IsNode(w.path.siblings[n], n),
             VerifiesAbsent(key, w, ExclusionRoot(keys))
      PROVE  FALSE
  <2> DEFINE low == w.low
             high == w.high
             path == w.path
  <2>1. /\ InDomain(low) /\ InDomain(high) /\ Inside(low, TruncateKey(key), high)
        /\ Fold(GapLeaf(low, high), path, GapDepth) = ExclusionRoot(keys)
    BY <1>2 DEF VerifiesAbsent
  <2>2. /\ low \in Nat /\ high \in Nat /\ path.index \in Nat /\ path.index < 2^GapDepth
        /\ \A n \in 0..(GapDepth - 1) : IsNode(path.siblings[n], n)
    BY <1>2
  <2> HIDE DEF low, high, path
  <2> QED
    BY <1>0, <2>1, <2>2, ShownIsAGap
<1>3. ASSUME NEW set \in SUBSET keys, NEW p \in Nat, p < 2^GapDepth
      PROVE  LET path == WitnessFor(GapLeaves(set), GapDepth, p)
             IN /\ path.index = p
                /\ \A n \in 0..(GapDepth - 1) : IsNode(path.siblings[n], n)
  <2>1. KeySet(set)
    BY <1>0, FS_Subset DEF KeySet
  <2>2. IsSequence(GapLeaves(set))
    BY <2>1, GapLeavesAre
  <2> QED
    BY <1>1, <1>3, <2>2, WitnessIs, SiblingsAreNodes
<1>4. ASSUME NEW earlier \in SUBSET keys, NEW other \in 0..(Modulus - 1),
             HasWitness(earlier, other),
             VerifiesAbsent(key, AbsenceWitness(earlier, other), ExclusionRoot(keys))
      PROVE  FALSE
  <2> DEFINE w == AbsenceWitness(earlier, other)
             r == GapIndex(earlier, other)
             n == Cardinality(earlier)
  <2>1. KeySet(earlier)
    BY <1>0, FS_Subset DEF KeySet
  <2>2. other \in Nat /\ TruncateKey(other) \in Nat
    BY WidthAssumption, Truncated
  <2>3. n \in Nat /\ r \in 0..n
    BY <2>1, <2>2, RankIs DEF GapIndex
  <2>4. r < 2^GapDepth
    BY <1>1, <1>4, <2>1, <2>3, GapLeavesAre DEF HasWitness
  <2>5. w.path = WitnessFor(GapLeaves(earlier), GapDepth, r)
    BY DEF AbsenceWitness
  <2>6. w.low = BoundOf(earlier, r) /\ w.high = BoundOf(earlier, r + 1)
    <3>1. r + 1 \in 1..(n + 1) /\ (r + 1) - 1 = r
      BY <2>3
    <3>2. Gaps(earlier)[r + 1] = <<BoundOf(earlier, r), BoundOf(earlier, r + 1)>>
      <4> HIDE DEF r
      <4> QED
        BY <2>1, <3>1, GapsAre
    <3>3. w.low = Gaps(earlier)[r + 1][1] /\ w.high = Gaps(earlier)[r + 1][2]
      BY DEF AbsenceWitness
    <3> HIDE DEF w, r
    <3> QED
      BY <3>2, <3>3
  <2>7. w.low \in Nat /\ w.high \in Nat
    <3>1. r \in 0..(n + 1) /\ r + 1 \in 0..(n + 1)
      BY <2>3
    <3> HIDE DEF r, w
    <3>2. BoundOf(earlier, r) \in 0..Upper /\ BoundOf(earlier, r + 1) \in 0..Upper
      BY <2>1, <3>1, BoundsAre
    <3> QED
      BY <1>1, <2>6, <3>2
  <2> HIDE DEF r
  <2>8. w.path.index = r /\ \A m \in 0..(GapDepth - 1) : IsNode(w.path.siblings[m], m)
    <3>1. r \in Nat
      BY <2>3
    <3> HIDE DEF w
    <3> QED
      BY <1>3, <2>4, <2>5, <3>1
  <2> HIDE DEF w
  <2>9. VerifiesAbsent(key, w, ExclusionRoot(keys))
    BY <1>4 DEF w
  <2> QED
    BY <1>2, <2>3, <2>4, <2>7, <2>8, <2>9
<1>5. ASSUME NEW low \in 0..RawMax, NEW high \in 0..RawMax, NEW path \in Paths,
             VerifiesAbsent(key, [low |-> low, high |-> high, path |-> path], ExclusionRoot(keys))
      PROVE  FALSE
  <2> DEFINE w == [low |-> low, high |-> high, path |-> path]
  <2>1. PICK p \in 0..(2^GapDepth - 1) : path = WitnessFor(GapLeaves(keys), GapDepth, p)
    BY DEF Paths
  <2>2. p \in Nat /\ p < 2^GapDepth
    BY <1>1
  <2>3. path.index = p /\ \A m \in 0..(GapDepth - 1) : IsNode(path.siblings[m], m)
    BY <1>3, <2>1, <2>2
  <2>4. w.low \in Nat /\ w.high \in Nat /\ w.path = path
    BY WidthAssumption
  <2> HIDE DEF w
  <2>5. VerifiesAbsent(key, w, ExclusionRoot(keys))
    BY <1>5 DEF w
  <2> QED
    BY <1>2, <2>2, <2>3, <2>4, <2>5
<1> QED
  BY <1>4, <1>5

(* While the gap tree has room every absent key has a witness that         *)
(* verifies, and a present key never has one: not cut from an earlier set, *)
(* not with made-up bounds, not after the gap tree has overflowed          *)
(* (ExclusionSet::absence_witness and AbsenceWitness::verifies).           *)
THEOREM AbsenceIsExactInvariant == Spec => []AbsenceIsExact
<1>1. AccumulatorInv => AbsenceIsExact
  BY AbsentVerifies, PresentFails DEF AccumulatorInv, AbsenceIsExact
<1> QED
  BY <1>1, AccumulatorsInductive, PTL

-------------------------------------------------------------------------------
(* The circuit's copy: one branch rehashed per append.                     *)

(* One sequence with one leaf more than another.                           *)
Extends(new, old) ==
  /\ IsSequence(old) /\ IsSequence(new) /\ Len(new) = Len(old) + 1
  /\ \A j \in 1..Len(old) : new[j] = old[j]

LEMMA ParentIs ==
  ASSUME NEW p \in Nat, p > 0, NEW m \in Nat
  PROVE  /\ m \div p \in Nat
         /\ \A i \in Nat : i * p < m + 1 <=> i < m \div p + 1
         /\ \A i \in Nat : i < m \div p => i * p < m
         /\ ~((m \div p + 1) * p < m)
<1> DEFINE a == m \div p
<1>1. a \in Nat /\ a * p <= m /\ m < a * p + p
  OBVIOUS
<1> HIDE DEF a
<1>2. a * p \in Nat /\ (a + 1) * p = a * p + p
  BY <1>1
<1>3. ASSUME NEW i \in Nat PROVE i * p < m + 1 <=> i < a + 1
  <2>0. i * p \in Nat
    OBVIOUS
  <2>1. CASE i < a + 1
    <3>1. i * p <= a * p
      BY <1>1, <2>1
    <3> QED
      BY <1>1, <1>2, <2>0, <2>1, <3>1
  <2>2. CASE ~(i < a + 1)
    <3>1. (a + 1) * p <= i * p
      BY <1>1, <2>2
    <3> QED
      BY <1>1, <1>2, <2>0, <2>2, <3>1
  <2> QED
    BY <2>1, <2>2
<1>4. ASSUME NEW i \in Nat, i < a PROVE i * p < m
  <2>1. (i + 1) * p <= a * p
    BY <1>1, <1>4
  <2>2. (i + 1) * p = i * p + p /\ i * p \in Nat
    OBVIOUS
  <2> QED
    BY <1>1, <1>2, <2>1, <2>2
<1>5. ~((a + 1) * p < m)
  BY <1>1, <1>2
<1> QED
  BY <1>1, <1>3, <1>4, <1>5 DEF a

LEMMA GrownCounts ==
  ASSUME NEW old, NEW new, Extends(new, old), NEW n \in Nat
  PROVE  LET parent == Len(old) \div 2^n
         IN /\ parent \in Nat /\ Count(new, n) = parent + 1
            /\ Count(old, n) = parent \/ Count(old, n) = parent + 1
            /\ parent * 2^n <= Len(old)
<1> DEFINE p == 2^n
           m == Len(old)
           parent == m \div p
           c == Count(old, n)
           d == Count(new, n)
<1>1. p \in Nat /\ p > 0 /\ m \in Nat /\ Len(new) = m + 1 /\ Len(new) \in Nat
  BY Powers, SequenceShape DEF Extends
<1>2. /\ c \in Nat /\ \A i \in Nat : i < c <=> i * p < m
      /\ d \in Nat /\ \A i \in Nat : i < d <=> i * p < m + 1
  BY <1>1, CountIs
<1> HIDE DEF p, m, c, d
<1>3. /\ parent \in Nat
      /\ \A i \in Nat : i * p < m + 1 <=> i < parent + 1
      /\ \A i \in Nat : i < parent => i * p < m
      /\ ~((parent + 1) * p < m)
  BY <1>1, ParentIs
<1>4. parent * p <= m
  BY <1>1
<1> HIDE DEF parent
<1>5. d = parent + 1
  <2>1. \A i \in Nat : i < d <=> i < parent + 1
    BY <1>2, <1>3
  <2> QED
    BY <1>2, <1>3, <2>1
<1>6. c = parent \/ c = parent + 1
  <2>1. \A i \in Nat : i < parent => i < c
    BY <1>2, <1>3
  <2>2. parent + 1 \in Nat /\ ~(parent + 1 < c)
    BY <1>2, <1>3
  <2>3. c >= parent
    BY <1>2, <1>3, <2>1
  <2> QED
    BY <1>2, <1>3, <2>2, <2>3
<1> QED
  BY <1>3, <1>4, <1>5, <1>6 DEF parent, c, d, m, p

(* Nodes left of the branch stay as they are.                              *)
LEMMA LeftOfBranch ==
  ASSUME NEW old, NEW new, Extends(new, old), NEW n \in Nat,
         NEW i \in Nat, i < Len(old) \div 2^n
  PROVE  Block(new, n, i) = Block(old, n, i)
<1> DEFINE p == 2^n
           m == Len(old)
           parent == m \div p
<1>1. p \in Nat /\ p > 0 /\ m \in Nat /\ Len(new) = m + 1
  BY Powers, SequenceShape DEF Extends
<1>2. parent \in Nat /\ parent * p <= m /\ i < parent
  BY GrownCounts
<1> HIDE DEF p, m, parent
<1>3. ASSUME NEW k \in 1..p PROVE At(new, i * p + k) = At(old, i * p + k)
  <2>1. (i + 1) * p <= parent * p
    BY <1>1, <1>2
  <2>2. (i + 1) * p = i * p + p /\ i * p \in Nat /\ parent * p \in Nat
    BY <1>1, <1>2
  <2> DEFINE j == i * p + k
  <2>3. j \in 1..m
    BY <1>1, <1>2, <2>1, <2>2
  <2> HIDE DEF j
  <2>4. new[j] = old[j] /\ j <= m /\ j <= Len(new)
    BY <1>1, <2>3 DEF Extends, m
  <2>5. At(new, j) = At(old, j)
    BY <2>4 DEF At, m
  <2> QED
    BY <2>5 DEF j
<1> QED
  BY <1>3 DEF Block, p

LEMMA GrownRow ==
  ASSUME NEW old, NEW new, Extends(new, old), NEW n \in Depths
  PROVE  SetNode(LevelOf(old, n), Len(old) \div 2^n, Block(new, n, Len(old) \div 2^n))
           = LevelOf(new, n)
<1> DEFINE parent == Len(old) \div 2^n
           row == LevelOf(old, n)
           grown == LevelOf(new, n)
           value == Block(new, n, parent)
           result == SetNode(row, parent, value)
<1>0. n \in Nat /\ Len(old) \in Nat /\ Len(new) \in Nat
  BY DepthsAre, SequenceShape DEF Extends
<1>1. /\ parent \in Nat /\ Count(new, n) = parent + 1
      /\ Count(old, n) = parent \/ Count(old, n) = parent + 1
  BY <1>0, GrownCounts
<1>2. /\ IsSequence(row) /\ Len(row) = Count(old, n)
      /\ IsSequence(grown) /\ Len(grown) = parent + 1
  BY <1>0, <1>1, LevelShape
<1>3. /\ \A i \in 1..Len(row) : row[i] = Block(old, n, i - 1)
      /\ \A i \in 1..(parent + 1) : grown[i] = Block(new, n, i - 1)
  BY <1>1, <1>2 DEF LevelOf
<1>4. ASSUME NEW i \in 1..parent PROVE i \in 1..Len(row) /\ row[i] = grown[i]
  <2>1. /\ i \in 1..Len(row) /\ i \in 1..(parent + 1) /\ i - 1 \in Nat /\ i - 1 < parent
    BY <1>1, <1>2
  <2>2. Block(new, n, i - 1) = Block(old, n, i - 1)
    BY <1>0, <2>1, LeftOfBranch
  <2> QED
    BY <1>3, <2>1, <2>2
<1>5. grown[parent + 1] = value
  <2>1. parent + 1 \in 1..(parent + 1) /\ (parent + 1) - 1 = parent
    BY <1>1
  <2> HIDE DEF parent, grown
  <2> QED
    BY <1>3, <2>1
<1> HIDE DEF parent, row, grown, value, result
<1>6. IsSequence(result) /\ Len(result) = parent + 1
      /\ result[parent + 1] = value /\ \A i \in 1..parent : result[i] = row[i]
  <2>1. CASE Len(row) = parent
    <3>1. result = Append(row, value)
      BY <1>1, <2>1 DEF SetNode, result
    <3> QED
      BY <1>2, <2>1, <3>1, AppendShape
  <2>2. CASE Len(row) = parent + 1
    <3>1. result = [row EXCEPT ![parent + 1] = value]
      BY <1>1, <2>2 DEF SetNode, result
    <3>2. DOMAIN row = 1..(parent + 1)
      BY <1>2, <2>2, SequenceShape
    <3>3. result = [i \in 1..(parent + 1) |-> result[i]]
      BY <3>1, <3>2
    <3>4. parent + 1 \in Nat /\ parent + 1 \in 1..(parent + 1)
          /\ \A i \in 1..parent : i \in 1..(parent + 1) /\ i # parent + 1
      BY <1>1
    <3>5. IsSequence(result) /\ Len(result) = parent + 1
      BY <3>3, <3>4, FunctionIsSequence
    <3> QED
      BY <3>1, <3>2, <3>4, <3>5
  <2> QED
    BY <1>1, <1>2, <2>1, <2>2
<1>7. ASSUME NEW i \in 1..(parent + 1) PROVE result[i] = grown[i]
  <2>1. i \in 1..parent \/ i = parent + 1
    BY <1>1
  <2> QED
    BY <1>4, <1>5, <1>6, <2>1
<1>8. result = grown
  BY <1>2, <1>6, <1>7, SameElements
<1> QED
  BY <1>8 DEF result, grown, parent, row, value

LEMMA AppendLeafIs ==
  ASSUME NEW old, NEW new, Extends(new, old), NEW depth \in Depths, NEW nodes,
         \A n \in 0..depth : nodes[n] = LevelOf(old, n)
  PROVE  AppendLeaf(nodes, new[Len(old) + 1], depth) = [n \in 0..depth |-> LevelOf(new, n)]
<1> DEFINE leaf == new[Len(old) + 1]
           first == Append(nodes[0], <<leaf>>)
           above(row, n) ==
             LET parent == Len(nodes[0]) \div 2^n IN
             SetNode(nodes[n], parent, HashNode(NodeAt(row, 2 * parent, n - 1),
                                                NodeAt(row, 2 * parent + 1, n - 1)))
           Built(f) == f = [n \in 0..depth |-> IF n = 0 THEN first ELSE above(f[n - 1], n)]
           g == [n \in 0..depth |-> LevelOf(new, n)]
           grown == CHOOSE f : Built(f)
<1>1. /\ depth \in Nat /\ 0 \in 0..depth /\ Len(old) \in Nat /\ Len(new) \in Nat
      /\ Len(new) = Len(old) + 1 /\ IsSequence(old) /\ IsSequence(new)
  BY DepthsAre, SequenceShape DEF Extends
<1>2. Len(nodes[0]) = Len(old) /\ nodes[0] = LevelOf(old, 0) /\ 0 \in Depths
  BY <1>1, DepthsAre, LevelShape, LevelZero
<1>3. Built(g)
  <2>1. first = LevelOf(new, 0)
    <3>1. Len(old) \div 2^0 = Len(old)
      BY <1>1, Powers
    <3>2. Block(new, 0, Len(old)) = <<leaf>>
      <4>1. At(new, Len(old) + 1) = leaf
        BY <1>1 DEF At
      <4> QED
        BY <1>1, <4>1, LevelZero
    <3>3. SetNode(LevelOf(old, 0), Len(old), <<leaf>>) = LevelOf(new, 0)
      <4>1. SetNode(LevelOf(old, 0), Len(old) \div 2^0, Block(new, 0, Len(old) \div 2^0)) = LevelOf(new, 0)
        BY <1>2, GrownRow
      <4> QED
        BY <3>1, <3>2, <4>1
    <3>4. SetNode(nodes[0], Len(old), <<leaf>>) = first
      BY <1>1, <1>2 DEF SetNode
    <3> QED
      BY <1>2, <3>3, <3>4
  <2>2. ASSUME NEW n \in 0..depth, n # 0
        PROVE  LevelOf(new, n) = above(g[n - 1], n)
    <3> DEFINE parent == Len(old) \div 2^n
    <3>1. /\ n - 1 \in 0..depth /\ n - 1 \in Depths /\ n \in Depths /\ n \in Nat /\ n - 1 \in Nat
          /\ (n - 1) + 1 = n
      BY <1>1, <2>2, DepthsAre
    <3>2. parent \in Nat
      BY <3>1, GrownCounts
    <3>3. g[n - 1] = LevelOf(new, n - 1) /\ nodes[n] = LevelOf(old, n)
      BY <3>1
    <3>4. SetNode(LevelOf(old, n), parent, Block(new, n, parent)) = LevelOf(new, n)
      BY <3>1, GrownRow
    <3>5. above(LevelOf(new, n - 1), n)
            = SetNode(LevelOf(old, n), parent,
                HashNode(NodeAt(LevelOf(new, n - 1), 2 * parent, n - 1),
                         NodeAt(LevelOf(new, n - 1), 2 * parent + 1, n - 1)))
      BY <1>2, <3>3
    <3> HIDE DEF parent, above, g
    <3>6. /\ 2 * parent \in Nat /\ 2 * parent + 1 \in Nat
          /\ parent * 2 = 2 * parent
      BY <3>2
    <3>7. /\ NodeAt(LevelOf(new, n - 1), 2 * parent, n - 1) = Block(new, n - 1, parent * 2)
          /\ NodeAt(LevelOf(new, n - 1), 2 * parent + 1, n - 1) = Block(new, n - 1, parent * 2 + 1)
      BY <1>1, <3>1, <3>6, LevelShape
    <3>8. Block(new, n, parent)
            = HashNode(Block(new, n - 1, parent * 2), Block(new, n - 1, parent * 2 + 1))
      <4> DEFINE m == n - 1
      <4>1. m \in Nat /\ m + 1 = n
        BY <3>1
      <4> HIDE DEF m
      <4>2. Block(new, m + 1, parent) = HashNode(Block(new, m, parent * 2), Block(new, m, parent * 2 + 1))
        BY <3>2, <4>1, BlockSplits
      <4> QED
        BY <4>1, <4>2 DEF m
    <3> QED
      BY <3>3, <3>4, <3>5, <3>7, <3>8
  <2> HIDE DEF first, above
  <2> QED
    BY <2>1, <2>2
<1>4. AppendLeaf(nodes, leaf, depth) = grown
  BY DEF AppendLeaf
<1>5. Built(grown)
  <2> HIDE DEF Built, g
  <2> QED
    BY <1>3
<1> DEFINE S == {n \in Nat : n <= depth => grown[n] = g[n]}
<1> HIDE DEF first, above, g, grown
<1>6. 0 \in S
  BY <1>1, <1>3, <1>5
<1>7. ASSUME NEW n \in Nat, n \in S PROVE n + 1 \in S
  <2> SUFFICES ASSUME n + 1 <= depth PROVE grown[n + 1] = g[n + 1]
    OBVIOUS
  <2>1. n + 1 \in 0..depth /\ n + 1 # 0 /\ (n + 1) - 1 = n
    BY <1>1
  <2>2. grown[n] = g[n]
    BY <1>1, <1>7
  <2>3. grown[n + 1] = above(grown[n], n + 1) /\ g[n + 1] = above(g[n], n + 1)
    BY <1>3, <1>5, <2>1
  <2> QED
    BY <2>2, <2>3
<1> HIDE DEF S
<1>8. Nat \subseteq S
  BY <1>6, <1>7, Induct
<1>9. ASSUME NEW n \in 0..depth PROVE grown[n] = g[n]
  <2>1. n \in Nat /\ n <= depth
    BY <1>1
  <2>2. n \in S
    BY <1>8, <2>1
  <2> QED
    BY <2>1, <2>2 DEF S
<1>10. grown = [n \in 0..depth |-> grown[n]] /\ g = [n \in 0..depth |-> g[n]]
  BY <1>5 DEF g
<1>11. grown = g
  <2> HIDE DEF Built
  <2> QED
    BY <1>9, <1>10
<1> QED
  BY <1>4, <1>11 DEF g

(* Leaf by leaf the copy comes to the same levels.                         *)
LEMMA PoseidonTreeIs ==
  ASSUME NEW leaves, IsSequence(leaves), NEW depth \in Depths
  PROVE  \A n \in 0..depth : PoseidonTree(leaves, depth)[n] = LevelOf(leaves, n)
<1> DEFINE Built(f) == f = [count \in 0..Len(leaves) |->
                              IF count = 0 THEN NoNodes(depth)
                              ELSE AppendLeaf(f[count - 1], leaves[count], depth)]
           prefix(count) == SubSeq(leaves, 1, count)
           g == [count \in 0..Len(leaves) |-> [n \in 0..depth |-> LevelOf(prefix(count), n)]]
           trees == CHOOSE f : Built(f)
<1>1. Len(leaves) \in Nat /\ depth \in Nat /\ 0 \in 0..Len(leaves) /\ Len(leaves) \in 0..Len(leaves)
  BY SequenceShape, DepthsAre
<1>2. ASSUME NEW count \in 0..Len(leaves)
      PROVE  /\ IsSequence(prefix(count)) /\ Len(prefix(count)) = count
             /\ \A i \in 1..count : prefix(count)[i] = leaves[i]
  BY PrefixShape
<1>3. prefix(Len(leaves)) = leaves
  BY <1>1, <1>2, SameElements
<1> HIDE DEF prefix
<1>4. NoNodes(depth) = [n \in 0..depth |-> LevelOf(prefix(0), n)]
  <2>1. ASSUME NEW n \in 0..depth PROVE LevelOf(prefix(0), n) = << >>
    <3> DEFINE none == prefix(0)
    <3>1. n \in Nat /\ n \in Depths /\ 2^n \in Nat
      BY DepthsAre, Powers
    <3>2. IsSequence(none) /\ Len(none) = 0 /\ Len(none) \in Nat
      BY <1>1, <1>2
    <3> HIDE DEF none
    <3>3. Count(none, n) = 0
      <4> DEFINE c == Count(none, n)
                 p == 2^n
      <4>1. c \in Nat /\ \A i \in Nat : i < c <=> i * p < Len(none)
        BY <3>1, <3>2, CountIs
      <4> HIDE DEF c, p
      <4>2. ~(0 < c)
        BY <3>1, <3>2, <4>1 DEF p
      <4>3. c = 0
        BY <4>1, <4>2
      <4> QED
        BY <4>3 DEF c
    <3>4. IsSequence(LevelOf(none, n)) /\ Len(LevelOf(none, n)) = 0
      BY <3>1, <3>2, <3>3, LevelShape
    <3>5. LevelOf(none, n) = << >>
      BY <3>4, SmallSequences, SameElements
    <3> QED
      BY <3>5 DEF none
  <2> QED
    BY <2>1 DEF NoNodes
<1>5. ASSUME NEW count \in 0..Len(leaves), count # 0
      PROVE  /\ count - 1 \in 0..Len(leaves)
             /\ g[count] = AppendLeaf(g[count - 1], leaves[count], depth)
  <2> DEFINE old == prefix(count - 1)
             new == prefix(count)
             nodes == g[count - 1]
  <2>1. count - 1 \in 0..Len(leaves) /\ (count - 1) + 1 = count /\ count \in 1..count
        /\ \A j \in 1..(count - 1) : j \in 1..count
    BY <1>1, <1>5
  <2>2. Extends(new, old) /\ Len(old) + 1 = count /\ new[count] = leaves[count]
    BY <1>2, <2>1 DEF Extends
  <2>3. \A n \in 0..depth : nodes[n] = LevelOf(old, n)
    BY <2>1
  <2>4. g[count] = [n \in 0..depth |-> LevelOf(new, n)]
    OBVIOUS
  <2> HIDE DEF new, old, g, nodes
  <2>5. AppendLeaf(nodes, new[Len(old) + 1], depth) = [n \in 0..depth |-> LevelOf(new, n)]
    BY <2>2, <2>3, AppendLeafIs
  <2> QED
    BY <2>1, <2>2, <2>4, <2>5 DEF nodes
<1>6. Built(g)
  <2>1. g = [count \in 0..Len(leaves) |-> g[count]] /\ g[0] = NoNodes(depth)
    BY <1>1, <1>4
  <2> HIDE DEF g
  <2> QED
    BY <1>5, <2>1
<1>7. PoseidonTree(leaves, depth) = trees[Len(leaves)]
  BY DEF PoseidonTree
<1>8. Built(trees)
  <2> HIDE DEF Built, g
  <2> QED
    BY <1>6
<1> DEFINE S == {count \in Nat : count <= Len(leaves) => trees[count] = g[count]}
<1> HIDE DEF g, trees
<1>9. 0 \in S
  BY <1>1, <1>6, <1>8
<1>10. ASSUME NEW c \in Nat, c \in S PROVE c + 1 \in S
  <2> SUFFICES ASSUME c + 1 <= Len(leaves) PROVE trees[c + 1] = g[c + 1]
    OBVIOUS
  <2>1. c + 1 \in 0..Len(leaves) /\ c + 1 # 0 /\ (c + 1) - 1 = c
    BY <1>1
  <2>2. trees[c] = g[c]
    BY <1>1, <1>10
  <2>3. /\ trees[c + 1] = AppendLeaf(trees[c], leaves[c + 1], depth)
        /\ g[c + 1] = AppendLeaf(g[c], leaves[c + 1], depth)
    BY <1>6, <1>8, <2>1
  <2> QED
    BY <2>2, <2>3
<1> HIDE DEF S
<1>11. Nat \subseteq S
  BY <1>9, <1>10, Induct
<1>12. trees[Len(leaves)] = g[Len(leaves)]
  <2>1. Len(leaves) \in S
    BY <1>1, <1>11
  <2> QED
    BY <1>1, <2>1 DEF S
<1>13. g[Len(leaves)] = [n \in 0..depth |-> LevelOf(leaves, n)]
  BY <1>1, <1>3 DEF g
<1> QED
  BY <1>7, <1>12, <1>13

LEMMA TwinRoot ==
  ASSUME NEW leaves, IsSequence(leaves), NEW depth \in Depths
  PROVE  PoseidonRoot(leaves, depth) = RootOf(leaves, depth)
<1>1. depth \in 0..depth
  BY DepthsAre
<1> QED
  BY <1>1, LevelsAre, PoseidonTreeIs DEF PoseidonRoot, RootOf

LEMMA TwinPath ==
  ASSUME NEW leaves, IsSequence(leaves), NEW depth \in Depths, NEW position \in Nat,
         position < 2^depth
  PROVE  PathRoot(At(leaves, position + 1), PoseidonPath(leaves, depth, position), depth)
           = RootOf(leaves, depth)
<1> DEFINE path == PoseidonPath(leaves, depth, position)
           leaf == At(leaves, position + 1)
<1>1. depth \in Nat /\ 2^depth \in Nat
  BY DepthsAre, Powers
<1>2. PICK f : /\ Climbs(f, <<leaf>>, {n \in 0..(depth - 1) : path.bits[n]}, path.siblings, depth)
               /\ PathRoot(leaf, path, depth) = f[depth]
  BY <1>1, PathUnfolds
<1>3. {n \in 0..(depth - 1) : path.bits[n]} = RightTurns(position, depth)
  BY DEF PoseidonPath, RightTurns
<1>4. ASSUME NEW n \in 0..(depth - 1)
      PROVE  path.siblings[n] = Block(leaves, n, Neighbour(position \div 2^n))
  <2>1. n \in 0..depth
    BY <1>1
  <2>2. path.siblings[n] = NodeAt(PoseidonTree(leaves, depth)[n], Neighbour(position \div 2^n), n)
    BY DEF PoseidonPath
  <2>3. WitnessFor(leaves, depth, position).siblings[n]
          = NodeAt(OccupiedLevels(leaves, depth)[n], Neighbour(position \div 2^n), n)
    BY DEF WitnessFor
  <2>4. PoseidonTree(leaves, depth)[n] = OccupiedLevels(leaves, depth)[n]
    BY <2>1, PoseidonTreeIs, LevelsAre
  <2> QED
    BY <2>2, <2>3, <2>4, WitnessIs
<1>5. <<leaf>> = Block(leaves, 0, position)
  BY LevelZero
<1>6. position \div 2^depth = 0
  BY <1>1
<1> HIDE DEF leaf, path
<1>7. Climbs(f, Block(leaves, 0, position), RightTurns(position, depth), path.siblings, depth)
  BY <1>2, <1>3, <1>5
<1>8. f[depth] = Block(leaves, depth, position \div 2^depth)
  BY <1>4, <1>7, ClimbComplete
<1> QED
  BY <1>2, <1>6, <1>8, RootIs DEF leaf, path

(* Two ways to say which way a path turns are one recursion.               *)
LEMMA ClimbUnique ==
  ASSUME NEW depth \in Nat, NEW first, NEW right, NEW siblings, NEW f, NEW g,
         Climbs(f, first, right, siblings, depth), Climbs(g, first, right, siblings, depth)
  PROVE  f[depth] = g[depth]
<1> DEFINE S == {n \in Nat : n <= depth => f[n] = g[n]}
<1>1. 0 \in S
  BY DEF Climbs
<1>2. ASSUME NEW n \in Nat, n \in S PROVE n + 1 \in S
  <2> SUFFICES ASSUME n + 1 <= depth PROVE f[n + 1] = g[n + 1]
    OBVIOUS
  <2>1. n + 1 \in 0..depth /\ n + 1 # 0 /\ (n + 1) - 1 = n
    OBVIOUS
  <2>2. f[n] = g[n]
    BY <1>2
  <2> QED
    BY <2>1, <2>2 DEF Climbs
<1> HIDE DEF S
<1>3. depth \in S
  BY <1>1, <1>2, Induct
<1> QED
  BY <1>3 DEF S

LEMMA FoldIsPath ==
  ASSUME NEW leaf, NEW witness, NEW depth \in Nat
  PROVE  PathRoot(leaf, AsPath(witness, depth), depth) = Fold(leaf, witness, depth)
<1> DEFINE path == AsPath(witness, depth)
<1>1. PICK f : /\ Climbs(f, <<leaf>>, RightTurns(witness.index, depth), witness.siblings, depth)
               /\ Fold(leaf, witness, depth) = f[depth]
  BY FoldUnfolds
<1>2. PICK g : /\ Climbs(g, <<leaf>>, {n \in 0..(depth - 1) : path.bits[n]}, path.siblings, depth)
               /\ PathRoot(leaf, path, depth) = g[depth]
  BY PathUnfolds
<1>3. {n \in 0..(depth - 1) : path.bits[n]} = RightTurns(witness.index, depth)
      /\ path.siblings = witness.siblings
  BY DEF AsPath, RightTurns
<1> HIDE DEF path
<1>4. f[depth] = g[depth]
  BY <1>1, <1>2, <1>3, ClimbUnique
<1> QED
  BY <1>1, <1>2, <1>4 DEF path

(* Where the two sides look for a key's gap.                               *)
LEMMA GapPositionIs ==
  ASSUME NEW set, KeySet(set), NEW key \in Nat
  PROVE  /\ TruncateKey(key) # Upper => GapPosition(set, key) = Rank(set, TruncateKey(key)) + 1
         /\ TruncateKey(key) = Upper => GapPosition(set, key) = 1
<1> DEFINE t == TruncateKey(key)
           n == Cardinality(set)
           r == Rank(set, t)
           Holds(i) == BoundOf(set, i - 1) <= t /\ t < BoundOf(set, i)
           holding == {i \in 1..(n + 1) : Holds(i)}
<1>1. t \in 0..Upper /\ t \in Nat /\ Upper \in Nat
  BY Truncated, WidthAssumption
<1> HIDE DEF t
<1>2. n \in Nat /\ r \in 0..n
  BY <1>1, RankIs
<1>3. GapPosition(set, key) = IF holding = {} THEN 1 ELSE Min(holding)
  <2>1. DOMAIN Gaps(set) = 1..(n + 1)
    BY GapsAre, SequenceShape
  <2>2. {i \in DOMAIN Gaps(set) : Gaps(set)[i][1] <= t /\ t < Gaps(set)[i][2]} = holding
    BY <2>1, GapsAre
  <2> HIDE DEF holding
  <2> QED
    BY <2>2 DEF GapPosition, t
<1>4. CASE t = Upper
  <2>1. ASSUME NEW i \in 1..(n + 1) PROVE ~Holds(i)
    <3>1. i \in 0..(n + 1)
      BY <1>2
    <3>2. BoundOf(set, i) \in 0..Upper
      BY <3>1, BoundsAre
    <3> QED
      BY <1>1, <1>4, <3>2
  <2>2. holding = {}
    BY <2>1
  <2> QED
    BY <1>3, <1>4, <2>2 DEF t
<1>5. CASE t # Upper
  <2>1. t \in 0..(Upper - 1)
    BY <1>1, <1>5
  <2>2. r + 1 \in 1..(n + 1) /\ (r + 1) - 1 = r
    BY <1>2
  <2>3. BoundOf(set, r) <= t /\ t < BoundOf(set, r + 1)
    BY <2>1, RankNamesGap
  <2>4. r + 1 \in holding
    <3> HIDE DEF r
    <3> QED
      BY <2>2, <2>3
  <2>5. ASSUME NEW i \in holding PROVE i = r + 1
    <3>0. i \in 1..(n + 1) /\ Holds(i)
      OBVIOUS
    <3>1. i \in Nat /\ i - 1 \in 0..(n + 1) /\ i \in 0..(n + 1)
      BY <1>2, <3>0
    <3>2. i - 1 <= r
      <4>1. CASE i = 1
        BY <1>2, <4>1
      <4>2. CASE i # 1
        <5>1. i - 1 \in 1..n
          BY <1>2, <3>0, <4>2
        <5> DEFINE low == BoundOf(set, i - 1)
        <5>2. low \in set /\ Rank(set, low) = i - 1 /\ low \in 0..Upper /\ low <= t
          BY <3>0, <3>1, <5>1, BoundsAre
        <5> HIDE DEF low
        <5>3. Rank(set, low) <= Rank(set, t)
          BY <1>1, <5>2, RankIs
        <5> QED
          BY <5>2, <5>3
      <4> QED
        BY <4>1, <4>2
    <3>3. r < i
      <4>1. CASE i = n + 1
        BY <1>2, <4>1
      <4>2. CASE i # n + 1
        <5>1. i \in 1..n
          BY <1>2, <3>0, <4>2
        <5> DEFINE high == BoundOf(set, i)
        <5>2. high \in set /\ Rank(set, high) = i /\ t < high
          BY <3>0, <3>1, <5>1, BoundsAre
        <5> HIDE DEF high
        <5>3. Rank(set, t) < Rank(set, high)
          BY <1>1, <5>2, RankIs
        <5> QED
          BY <5>2, <5>3
      <4> QED
        BY <4>1, <4>2
    <3> QED
      BY <1>2, <3>1, <3>2, <3>3
  <2> HIDE DEF holding, r
  <2>6. holding = {r + 1}
    BY <2>4, <2>5
  <2>7. r + 1 \in Nat
    BY <1>2
  <2>8. Min(holding) = r + 1
    BY <2>6, <2>7 DEF Min
  <2> QED
    BY <1>3, <1>5, <2>4, <2>8 DEF t, r
<1> QED
  BY <1>4, <1>5

(* Every gap of a set with room is shown by the copy's path for it.        *)
LEMMA TwinShowsGap ==
  ASSUME NEW set, KeySet(set), Cardinality(set) < 2^GapDepth,
         NEW i \in 1..(Cardinality(set) + 1)
  PROVE  /\ PathRoot(<<BoundOf(set, i - 1), BoundOf(set, i)>>,
                     PoseidonPath(GapLeaves(set), GapDepth, i - 1), GapDepth)
              = ExclusionRoot(set)
         /\ Gaps(set)[i] = <<BoundOf(set, i - 1), BoundOf(set, i)>>
<1> DEFINE leaves == GapLeaves(set)
           p == i - 1
<1>1. /\ Cardinality(set) \in Nat /\ 2^GapDepth \in Nat /\ GapDepth \in Depths
  BY RankIs, Powers, WidthAssumption, DepthsAre
<1>2. /\ IsSequence(leaves) /\ Len(leaves) = Cardinality(set) + 1
      /\ leaves[i] = <<BoundOf(set, i - 1), BoundOf(set, i)>>
  BY <1>1, GapLeavesAre
<1>3. p \in Nat /\ p < 2^GapDepth /\ p + 1 = i
  BY <1>1
<1>4. At(leaves, p + 1) = <<BoundOf(set, i - 1), BoundOf(set, i)>>
  <2> HIDE DEF leaves, p
  <2> QED
    BY <1>1, <1>2, <1>3 DEF At
<1> HIDE DEF leaves, p
<1>5. PathRoot(At(leaves, p + 1), PoseidonPath(leaves, GapDepth, p), GapDepth) = RootOf(leaves, GapDepth)
  BY <1>1, <1>2, <1>3, TwinPath
<1> QED
  BY <1>4, <1>5, GapsAre DEF ExclusionRoot, leaves, p

(* ... and by the accumulator's own.                                       *)
LEMMA OwnShowsGap ==
  ASSUME NEW set, KeySet(set), Cardinality(set) < 2^GapDepth, NEW r \in 0..Cardinality(set)
  PROVE  Fold(GapLeaf(BoundOf(set, r), BoundOf(set, r + 1)),
              WitnessFor(GapLeaves(set), GapDepth, r), GapDepth) = ExclusionRoot(set)
<1> DEFINE leaves == GapLeaves(set)
           low == BoundOf(set, r)
           high == BoundOf(set, r + 1)
           path == WitnessFor(leaves, GapDepth, r)
<1>1. /\ Cardinality(set) \in Nat /\ 2^GapDepth \in Nat /\ GapDepth \in Depths
  BY RankIs, Powers, WidthAssumption, DepthsAre
<1>2. r \in Nat /\ r < 2^GapDepth /\ r + 1 \in 1..(Cardinality(set) + 1) /\ (r + 1) - 1 = r
      /\ r \in 0..(Cardinality(set) + 1) /\ r + 1 \in 0..(Cardinality(set) + 1)
  BY <1>1
<1>3. IsSequence(leaves) /\ Len(leaves) = Cardinality(set) + 1 /\ leaves[r + 1] = <<low, high>>
  BY <1>1, <1>2, GapLeavesAre
<1>4. low \in 0..Upper /\ high \in 0..Upper
  BY <1>2, BoundsAre
<1> HIDE DEF leaves, low, high
<1>5. GapLeaf(low, high) = At(leaves, r + 1)
  <2>1. \A x \in 0..Upper : x % Modulus = x
    BY WidthAssumption
  <2>2. r + 1 <= Len(leaves)
    BY <1>1, <1>2, <1>3
  <2> QED
    BY <1>3, <1>4, <2>1, <2>2 DEF GapLeaf, At
<1>6. path.index = r
  BY <1>1, <1>2, <1>3, WitnessIs
<1>7. Fold(At(leaves, path.index + 1), path, GapDepth) = RootOf(leaves, GapDepth)
  <2>1. \A n \in 0..(GapDepth - 1) : path.siblings[n] = WitnessFor(leaves, GapDepth, path.index).siblings[n]
    BY <1>6
  <2>2. path.index \in Nat /\ path.index < 2^GapDepth
    BY <1>2, <1>6
  <2> HIDE DEF path
  <2> QED
    BY <1>1, <1>3, <2>1, <2>2, FoldComplete
<1> QED
  BY <1>5, <1>6, <1>7 DEF ExclusionRoot, leaves, low, high

(* The verdict all three checks come to: whether the key lies strictly     *)
(* inside the gap its rank names.                                          *)
Strictly(set, t) ==
  t # Upper /\ BoundOf(set, Rank(set, t)) < t /\ t < BoundOf(set, Rank(set, t) + 1)

LEMMA OwnVerdict ==
  ASSUME NEW set, KeySet(set), Cardinality(set) < 2^GapDepth, NEW key \in Nat
  PROVE  VerifiesAbsent(key, AbsenceWitness(set, key), ExclusionRoot(set))
           <=> Strictly(set, TruncateKey(key))
<1> DEFINE t == TruncateKey(key)
           n == Cardinality(set)
           r == Rank(set, t)
           w == AbsenceWitness(set, key)
           low == BoundOf(set, r)
           high == BoundOf(set, r + 1)
<1>1. t \in 0..Upper /\ t \in Nat /\ n \in Nat /\ Upper \in Nat
  BY Truncated, RankIs, WidthAssumption
<1>2. GapIndex(set, key) = r
  BY DEF GapIndex
<1> HIDE DEF t
<1>3. r \in 0..n /\ r + 1 \in 1..(n + 1) /\ (r + 1) - 1 = r
      /\ r \in 0..(n + 1) /\ r + 1 \in 0..(n + 1)
  <2>1. r \in 0..n
    BY <1>1, RankIs
  <2> HIDE DEF r
  <2> QED
    BY <1>1, <2>1
<1> HIDE DEF r
<1>4. low \in 0..Upper /\ high \in 0..Upper
  BY <1>3, BoundsAre
<1>5. Gaps(set)[r + 1] = <<low, high>>
  BY <1>3, GapsAre
<1>6. Fold(GapLeaf(low, high), WitnessFor(GapLeaves(set), GapDepth, r), GapDepth) = ExclusionRoot(set)
  BY <1>3, OwnShowsGap
<1>7. w.low = low /\ w.high = high /\ w.path = WitnessFor(GapLeaves(set), GapDepth, r)
  <2> HIDE DEF low, high
  <2> QED
    BY <1>2, <1>5 DEF AbsenceWitness
<1> HIDE DEF w, low, high
<1>8. InDomain(low) /\ InDomain(high)
  BY <1>4, Truncated DEF InDomain
<1>9. VerifiesAbsent(key, w, ExclusionRoot(set)) <=> low < t /\ t < high
  BY <1>6, <1>7, <1>8 DEF VerifiesAbsent, Inside, t
<1>10. t < high => t # Upper
  BY <1>1, <1>4
<1> QED
  BY <1>9, <1>10 DEF Strictly, w, low, high, r, t

LEMMA TwinVerdict ==
  ASSUME NEW set, KeySet(set), Cardinality(set) < 2^GapDepth, NEW key \in Nat
  PROVE  /\ TwinVerifiesAbsent(key, GapWitness(set, key), ExclusionRoot(set))
              <=> Strictly(set, TruncateKey(key))
         /\ AssertAbsent(key, GapWitness(set, key), ExclusionRoot(set))
              <=> Strictly(set, TruncateKey(key))
<1> DEFINE t == TruncateKey(key)
           n == Cardinality(set)
           r == Rank(set, t)
           i == GapPosition(set, key)
           w == GapWitness(set, key)
           low == BoundOf(set, i - 1)
           high == BoundOf(set, i)
<1>1. t \in 0..Upper /\ t \in Nat /\ n \in Nat /\ Upper \in Nat
  BY Truncated, RankIs, WidthAssumption
<1>2. r \in 0..n
  <2> HIDE DEF t
  <2> QED
    BY <1>1, RankIs
<1>3. (t # Upper => i = r + 1) /\ (t = Upper => i = 1)
  BY GapPositionIs
<1> HIDE DEF t, r, i
<1>4. i \in 1..(n + 1) /\ i - 1 \in 0..(n + 1) /\ i \in 0..(n + 1)
  BY <1>1, <1>2, <1>3
<1>5. low \in 0..Upper /\ high \in 0..Upper
  BY <1>4, BoundsAre
<1>6. /\ PathRoot(<<low, high>>, PoseidonPath(GapLeaves(set), GapDepth, i - 1), GapDepth)
           = ExclusionRoot(set)
      /\ Gaps(set)[i] = <<low, high>>
  BY <1>4, TwinShowsGap
<1>7. w.low = low /\ w.high = high /\ w.path = PoseidonPath(GapLeaves(set), GapDepth, i - 1)
  <2> HIDE DEF low, high
  <2> QED
    BY <1>6 DEF GapWitness, i
<1>8. low < t /\ t < high <=> Strictly(set, t)
  <2>1. CASE t = Upper
    BY <1>1, <1>5, <2>1 DEF Strictly
  <2>2. CASE t # Upper
    <3>1. i = r + 1 /\ i - 1 = r
      BY <1>2, <1>3, <2>2
    <3> QED
      BY <2>2, <3>1 DEF Strictly, r
  <2> QED
    BY <2>1, <2>2
<1> HIDE DEF w, low, high
<1>9. TwinVerifiesAbsent(key, w, ExclusionRoot(set)) <=> low < t /\ t < high
  BY <1>6, <1>7 DEF TwinVerifiesAbsent, t
<1>10. LowerThan(low, t) /\ LowerThan(t, high) <=> low < t /\ t < high
  BY <1>1, <1>5 DEF LowerThan
<1>11. AssertAbsent(key, w, ExclusionRoot(set)) <=> low < t /\ t < high
  BY <1>6, <1>7, <1>10 DEF AssertAbsent, t
<1> QED
  BY <1>8, <1>9, <1>11 DEF w, t

(* For bounds a witness makes up the checks agree too: a path that leads   *)
(* to the root has bounds in the ordering domain.                          *)
LEMMA MadeUpVerdicts ==
  ASSUME NEW set, KeySet(set), NEW t \in 0..Upper, NEW key, TruncateKey(key) = t,
         NEW low \in 0..(Modulus - 1), NEW high \in 0..(Modulus - 1), NEW path,
         path.index \in Nat, path.index < 2^GapDepth,
         \A n \in 0..(GapDepth - 1) : IsNode(path.siblings[n], n)
  PROVE  LET own  == [low |-> low, high |-> high, path |-> path]
             twin == [low |-> low, high |-> high, path |-> AsPath(path, GapDepth)]
             root == ExclusionRoot(set)
         IN /\ VerifiesAbsent(key, own, root) <=> TwinVerifiesAbsent(key, twin, root)
            /\ VerifiesAbsent(key, own, root) <=> AssertAbsent(key, twin, root)
<1> DEFINE own  == [low |-> low, high |-> high, path |-> path]
           twin == [low |-> low, high |-> high, path |-> AsPath(path, GapDepth)]
           root == ExclusionRoot(set)
           leaves == GapLeaves(set)
           leads == Fold(<<low, high>>, path, GapDepth) = root
<1>1. GapDepth \in Depths /\ GapDepth \in Nat /\ IsSequence(leaves) /\ Len(leaves) \in Nat
  BY DepthsAre, GapLeavesAre, SequenceShape
<1>2. GapLeaf(low, high) = <<low, high>>
  BY WidthAssumption DEF GapLeaf
<1>3. PathRoot(<<low, high>>, AsPath(path, GapDepth), GapDepth) = Fold(<<low, high>>, path, GapDepth)
  BY <1>1, FoldIsPath
<1>4. ASSUME leads PROVE low \in 0..Upper /\ high \in 0..Upper
  <2> DEFINE i == path.index + 1
  <2>1. <<low, high>> = At(leaves, i)
    <3>1. Fold(<<low, high>>, path, GapDepth) = RootOf(leaves, GapDepth)
      BY <1>4 DEF ExclusionRoot
    <3> HIDE DEF leaves, leads
    <3> QED
      BY <1>1, <3>1, FoldSound
  <2>2. <<low, high>> # EmptyLeaf
    BY SmallSequences DEF EmptyLeaf
  <2>3. i \in Nat /\ i >= 1
    OBVIOUS
  <2> HIDE DEF i, leaves
  <2>4. i <= Len(leaves) /\ leaves[i] = <<low, high>>
    BY <2>1, <2>2 DEF At
  <2>5. i \in 1..Len(leaves)
    BY <1>1, <2>3, <2>4
  <2>6. i \in 1..(Cardinality(set) + 1) /\ leaves[i] = <<BoundOf(set, i - 1), BoundOf(set, i)>>
    BY <2>5, GapLeavesAre DEF leaves
  <2>7. i - 1 \in 0..(Cardinality(set) + 1) /\ i \in 0..(Cardinality(set) + 1)
    <3>1. Cardinality(set) \in Nat
      BY RankIs
    <3> QED
      BY <2>6, <3>1
  <2>8. BoundOf(set, i - 1) \in 0..Upper /\ BoundOf(set, i) \in 0..Upper
    BY <2>7, BoundsAre
  <2> QED
    BY <2>4, <2>6, <2>8
<1> HIDE DEF leads, root
<1>5. leads => InDomain(low) /\ InDomain(high)
  BY <1>4, WidthAssumption, Truncated DEF InDomain
<1>6. VerifiesAbsent(key, own, root) <=> leads /\ low < t /\ t < high
  BY <1>2, <1>5 DEF VerifiesAbsent, Inside, leads
<1>7. TwinVerifiesAbsent(key, twin, root) <=> leads /\ low < t /\ t < high
  BY <1>3 DEF TwinVerifiesAbsent, leads
<1>8. leads => (LowerThan(low, t) /\ LowerThan(t, high) <=> low < t /\ t < high)
  BY <1>4, WidthAssumption DEF LowerThan
<1>9. AssertAbsent(key, twin, root) <=> leads /\ low < t /\ t < high
  BY <1>3, <1>8 DEF AssertAbsent, leads
<1> QED
  BY <1>6, <1>7, <1>9 DEF root

LEMMA CopiesAgree ==
  ASSUME AccumulatorInv
  PROVE  TwinsAgree
<1>1. /\ TreeDepth \in Depths /\ GapDepth \in Depths /\ 2^TreeDepth \in Nat /\ 2^GapDepth \in Nat
      /\ IsSequence(slots) /\ Len(slots) \in Nat
  BY DepthsAre, Powers, SequenceShape, WidthAssumption DEF AccumulatorInv, SlotsInv
<1>2. PoseidonRoot(slots, TreeDepth) = ClassRoot
  BY <1>1, TwinRoot DEF ClassRoot
<1>3. ASSUME NEW p \in Positions
      PROVE  PathRoot(slots[p + 1], PoseidonPath(slots, TreeDepth, p), TreeDepth) = ClassRoot
  <2>1. p \in Nat /\ p + 1 \in 1..Len(slots) /\ p < 2^TreeDepth
    BY PositionsAre DEF AccumulatorInv
  <2>2. At(slots, p + 1) = slots[p + 1]
    BY <1>1, <2>1 DEF At
  <2>3. PathRoot(At(slots, p + 1), PoseidonPath(slots, TreeDepth, p), TreeDepth) = RootOf(slots, TreeDepth)
    BY <1>1, <2>1, TwinPath
  <2> QED
    BY <2>2, <2>3 DEF ClassRoot
<1> DEFINE root == PoseidonRoot(GapLeaves(keys), GapDepth)
<1>4. KeySet(keys) /\ IsSequence(GapLeaves(keys))
  <2>1. KeySet(keys)
    BY DEF AccumulatorInv, KeysInv, KeySet
  <2> QED
    BY <2>1, GapLeavesAre
<1>5. root = ExclusionRoot(keys)
  BY <1>1, <1>4, TwinRoot DEF ExclusionRoot
<1>6. ASSUME NEW key \in 0..(Modulus - 1) PROVE key \in Nat /\ TruncateKey(key) \in 0..Upper
  <2>1. key \in Nat
    BY WidthAssumption
  <2> QED
    BY <2>1, Truncated
<1> HIDE DEF root
<1>7. ASSUME Cardinality(keys) < 2^GapDepth, NEW key \in 0..(Modulus - 1)
      PROVE  LET verdict == VerifiesAbsent(key, AbsenceWitness(keys, key), root) IN
             /\ verdict <=> TwinVerifiesAbsent(key, GapWitness(keys, key), root)
             /\ verdict <=> AssertAbsent(key, GapWitness(keys, key), root)
  BY <1>4, <1>5, <1>6, <1>7, OwnVerdict, TwinVerdict
<1>8. ASSUME NEW key \in 0..(Modulus - 1), NEW low \in 0..(Modulus - 1), NEW high \in 0..(Modulus - 1),
             NEW w \in Paths
      PROVE  LET own  == [low |-> low, high |-> high, path |-> w]
                 twin == [low |-> low, high |-> high, path |-> AsPath(w, GapDepth)]
             IN /\ VerifiesAbsent(key, own, root) <=> TwinVerifiesAbsent(key, twin, root)
                /\ VerifiesAbsent(key, own, root) <=> AssertAbsent(key, twin, root)
  <2>1. PICK p \in 0..(2^GapDepth - 1) : w = WitnessFor(GapLeaves(keys), GapDepth, p)
    BY DEF Paths
  <2>2. p \in Nat /\ p < 2^GapDepth
    BY <1>1
  <2>3. w.index = p /\ \A n \in 0..(GapDepth - 1) : IsNode(w.siblings[n], n)
    BY <1>1, <1>4, <2>1, <2>2, WitnessIs, SiblingsAreNodes
  <2>4. w.index \in Nat /\ w.index < 2^GapDepth
    BY <2>2, <2>3
  <2>5. TruncateKey(key) \in 0..Upper
    BY <1>6
  <2> QED
    BY <1>4, <1>5, <2>3, <2>4, <2>5, MadeUpVerdicts
<1>9. \A key, w, r : /\ VerifiesAbsent(key, w, r) \in BOOLEAN
                     /\ TwinVerifiesAbsent(key, w, r) \in BOOLEAN
                     /\ AssertAbsent(key, w, r) \in BOOLEAN
  BY DEF VerifiesAbsent, TwinVerifiesAbsent, AssertAbsent
<1>10. ASSUME Cardinality(keys) < 2^GapDepth
       PROVE  \A key \in 0..(Modulus - 1) : HasWitness(keys, key) =>
                LET verdict == VerifiesAbsent(key, AbsenceWitness(keys, key), root) IN
                /\ verdict = TwinVerifiesAbsent(key, GapWitness(keys, key), root)
                /\ verdict = AssertAbsent(key, GapWitness(keys, key), root)
  BY <1>7, <1>9, <1>10
<1>11. \A key, low, high \in 0..(Modulus - 1) : \A w \in Paths :
         LET own  == [low |-> low, high |-> high, path |-> w]
             twin == [low |-> low, high |-> high, path |-> AsPath(w, GapDepth)]
         IN /\ VerifiesAbsent(key, own, root) = TwinVerifiesAbsent(key, twin, root)
            /\ VerifiesAbsent(key, own, root) = AssertAbsent(key, twin, root)
  <2> TAKE key, low, high \in 0..(Modulus - 1)
  <2> TAKE w \in Paths
  <2> DEFINE own  == [low |-> low, high |-> high, path |-> w]
             twin == [low |-> low, high |-> high, path |-> AsPath(w, GapDepth)]
  <2>1. /\ VerifiesAbsent(key, own, root) <=> TwinVerifiesAbsent(key, twin, root)
        /\ VerifiesAbsent(key, own, root) <=> AssertAbsent(key, twin, root)
    BY <1>8
  <2>2. /\ VerifiesAbsent(key, own, root) = TwinVerifiesAbsent(key, twin, root)
        /\ VerifiesAbsent(key, own, root) = AssertAbsent(key, twin, root)
    <3> HIDE DEF own, twin
    <3> QED
      BY <1>9, <2>1
  <2> QED
    BY <2>2
<1> QED
  BY <1>2, <1>3, <1>5, <1>10, <1>11 DEF TwinsAgree, root

(* The circuit's copy of the tree and of the gap set computes what the     *)
(* accumulator computes: equal roots over a tree of any shape, and one     *)
(* verdict of the three absence checks, for honest witnesses and for       *)
(* bounds made up (nymora-plonk tree.rs and exclusion.rs).                 *)
THEOREM TwinsAgreeInvariant == Spec => []TwinsAgree
<1> QED
  BY CopiesAgree, AccumulatorsInductive, PTL

================================================================================
