----------------------------- MODULE Accumulators -----------------------------
(***************************************************************************)
(* The two accumulators of an agora as the code computes them              *)
(* (nymora-accumulator): a class tree that only grows, with the truncated  *)
(* paths the operator delivers; and an exclusion set, the tree of gaps     *)
(* over its keys, with absence witnesses that a member cuts for itself.    *)
(*                                                                         *)
(* A hash is the data it covers: a node at level n is the sequence of the  *)
(* 2^n leaf entries below it, so hash_node is concatenation, injective on  *)
(* nodes of one level.  An empty leaf is << >>, a credential leaf <<v>>, a *)
(* gap leaf <<low, high>> - the domain tags keep them apart in the code.   *)
(* Byte strings are naturals, at a small width: raw values are 0..RawMax,  *)
(* field elements are taken modulo Modulus, and the ordering domain is     *)
(* 0..Upper, as 2^256, r and 2^253 - 1 are in the code.                    *)
(*                                                                         *)
(* Older states need no history variable: the slots only grow and no key   *)
(* is ever removed, so an earlier tree is a prefix and an earlier set a    *)
(* subset.                                                                 *)
(***************************************************************************)
EXTENDS Naturals, SequencesExt, FiniteSets

CONSTANTS
  Commitments,  \* a set of numbers: the leaves that may land
  TreeDepth,    \* DEPTH of the class tree
  GapDepth,     \* DEPTH of the gap tree
  Upper,        \* upper_sentinel: 2^KEY_BITS - 1
  Modulus,      \* the order of the field
  RawMax        \* the largest 32-byte value

ASSUME WidthAssumption ==
  /\ TreeDepth \in Nat /\ GapDepth \in Nat
  /\ Upper \in Nat /\ Modulus \in Nat /\ RawMax \in Nat
  /\ Upper < Modulus /\ Modulus <= RawMax

VARIABLES
  slots,  \* Tree.leaves of one class
  keys    \* ExclusionSet.keys, truncated
vars == <<slots, keys>>

-------------------------------------------------------------------------------
(* The tree.                                                               *)

EmptyLeaf      == << >>
HashNode(l, r) == l \o r
EmptyNode      == [level \in 0..(TreeDepth + GapDepth) |-> [i \in 1..(2^level) |-> EmptyLeaf]]

\* Element i, counting from 0, of a level's occupied nodes, or the empty one.
NodeAt(nodes, i, level) == IF i < Len(nodes) THEN nodes[i + 1] ELSE EmptyNode[level]

\* Faulty: an odd node out is left to the next append.
FaultyWidth(n) == IF n = 1 THEN 1 ELSE n \div 2
Width(n) == (n + 1) \div 2

(* occupied_levels: level 0 is the leaves, each level above pairs the one  *)
(* below.                                                                  *)
OccupiedLevels(leaves, depth) ==
  LET levels[n \in 0..depth] ==
        IF n = 0 THEN [i \in DOMAIN leaves |-> <<leaves[i]>>]
        ELSE [pair \in 1..Width(Len(levels[n - 1])) |->
                HashNode(NodeAt(levels[n - 1], 2 * pair - 2, n - 1),
                         NodeAt(levels[n - 1], 2 * pair - 1, n - 1))]
  IN levels

RootOf(leaves, depth) == NodeAt(OccupiedLevels(leaves, depth)[depth], 0, depth)

\* An index with its lowest bit flipped: index ^ 1.
Neighbour(i) == IF i % 2 = 0 THEN i + 1 ELSE i - 1

WitnessFor(leaves, depth, position) ==
  LET levels == OccupiedLevels(leaves, depth)
  IN [index |-> position,
      siblings |-> [n \in 0..(depth - 1) |->
                      NodeAt(levels[n], Neighbour(position \div 2^n), n)]]

\* Faulty: rounded down, so an incomplete subtree is cut off.
FaultyOccupiedHeight(leaves) ==
  CHOOSE h \in 0..TreeDepth : 2^h <= Len(leaves) /\ Len(leaves) < 2^(h + 1)

(* The levels at which a sibling can be other than empty.                  *)
OccupiedHeight(leaves) ==
  IF Len(leaves) <= 1 THEN 0
  ELSE CHOOSE h \in 1..TreeDepth : 2^(h - 1) < Len(leaves) /\ Len(leaves) <= 2^h

-------------------------------------------------------------------------------
(* Witnesses.                                                              *)

(* What the envelope carries of a path, and the member's reconstruction.   *)
DeliveredPath(leaves, position) ==
  LET siblings == WitnessFor(leaves, TreeDepth, position).siblings
  IN [i \in 1..OccupiedHeight(leaves) |-> siblings[i - 1]]

FromPrefix(position, prefix) ==
  [index |-> position,
   siblings |-> [n \in 0..(TreeDepth - 1) |->
                   IF n < Len(prefix) THEN prefix[n + 1] ELSE EmptyNode[n]]]

Fold(leaf, witness, depth) ==
  LET node[n \in 0..depth] ==
        IF n = 0 THEN <<leaf>>
        ELSE IF (witness.index \div 2^(n - 1)) % 2 = 1
          THEN HashNode(witness.siblings[n - 1], node[n - 1])
          ELSE HashNode(node[n - 1], witness.siblings[n - 1])
  IN node[depth]

Verifies(value, witness, root) == Fold(<<value>>, witness, TreeDepth) = root

-------------------------------------------------------------------------------
(* The gap tree.                                                           *)

TruncateKey(key) == key % (Upper + 1)

GapLeaf(low, high) == <<low % Modulus, high % Modulus>>

\* The i-th key in order is the one with i keys at or below it.
Rank(set, key) == Cardinality({k \in set : k <= key})
Sorted(set)    == [i \in 1..Cardinality(set) |-> CHOOSE k \in set : Rank(set, k) = i]

\* Faulty: the gap above the largest key is missing.
FaultyGaps(set) ==
  LET bounds == <<0>> \o Sorted(set)
  IN [i \in 1..(Len(bounds) - 1) |-> <<bounds[i], bounds[i + 1]>>]

Gaps(set) ==
  LET bounds == <<0>> \o Sorted(set) \o <<Upper>>
  IN [i \in 1..(Len(bounds) - 1) |-> <<bounds[i], bounds[i + 1]>>]

\* What fits of the gap leaves: the result of a refused append is discarded.
GapLeaves(set) ==
  LET gaps == Gaps(set)
  IN [i \in 1..(IF Len(gaps) <= 2^GapDepth THEN Len(gaps) ELSE 2^GapDepth) |->
        GapLeaf(gaps[i][1], gaps[i][2])]

ExclusionRoot(set) == RootOf(GapLeaves(set), GapDepth)

(* absence_witness, where it returns: the gap whose lower bound is the     *)
(* greatest at or below the key.                                           *)
GapIndex(set, key)   == Rank(set, TruncateKey(key))
HasWitness(set, key) == GapIndex(set, key) < Len(GapLeaves(set))
AbsenceWitness(set, key) ==
  LET position == GapIndex(set, key)
      gap == Gaps(set)[position + 1]
  IN [low |-> gap[1], high |-> gap[2],
      path |-> WitnessFor(GapLeaves(set), GapDepth, position)]

\* Faulty: a bound outside the ordering domain is let through.
FaultyInDomain(bound) == TRUE
InDomain(bound) == TruncateKey(bound) = bound

\* Faulty: a gap contains its own lower bound.
FaultyInside(low, t, high) == low <= t /\ t < high
Inside(low, t, high) == low < t /\ t < high

VerifiesAbsent(key, w, root) ==
  /\ InDomain(w.low) /\ InDomain(w.high)
  /\ Inside(w.low, TruncateKey(key), w.high)
  /\ Fold(GapLeaf(w.low, w.high), w.path, GapDepth) = root

-------------------------------------------------------------------------------
(* The circuit's own copy of both structures (nymora-plonk): a tree that   *)
(* rehashes one branch per append, gaps over a sorted vector, and bounds   *)
(* that are field elements.                                                *)

NoNodes(depth) == [level \in 0..depth |-> << >>]

\* Faulty: a parent that already exists keeps its old hash.
FaultySetNode(row, parent, value) ==
  IF Len(row) <= parent THEN Append(row, value) ELSE row
SetNode(row, parent, value) ==
  IF Len(row) <= parent THEN Append(row, value) ELSE [row EXCEPT ![parent + 1] = value]

AppendLeaf(nodes, leaf, depth) ==
  LET grown[n \in 0..depth] ==
        LET parent == Len(nodes[0]) \div 2^n IN
        IF n = 0 THEN Append(nodes[0], <<leaf>>)
        ELSE SetNode(nodes[n], parent,
               HashNode(NodeAt(grown[n - 1], 2 * parent, n - 1),
                        NodeAt(grown[n - 1], 2 * parent + 1, n - 1)))
  IN grown

PoseidonTree(leaves, depth) ==
  LET trees[count \in 0..Len(leaves)] ==
        IF count = 0 THEN NoNodes(depth)
        ELSE AppendLeaf(trees[count - 1], leaves[count], depth)
  IN trees[Len(leaves)]
PoseidonRoot(leaves, depth) == NodeAt(PoseidonTree(leaves, depth)[depth], 0, depth)
PoseidonPath(leaves, depth, position) ==
  LET nodes == PoseidonTree(leaves, depth)
  IN [bits |-> [n \in 0..(depth - 1) |-> (position \div 2^n) % 2 = 1],
      siblings |-> [n \in 0..(depth - 1) |-> NodeAt(nodes[n], Neighbour(position \div 2^n), n)]]
PathRoot(leaf, path, depth) ==
  LET node[n \in 0..depth] ==
        IF n = 0 THEN <<leaf>>
        ELSE IF path.bits[n - 1] THEN HashNode(path.siblings[n - 1], node[n - 1])
                                 ELSE HashNode(node[n - 1], path.siblings[n - 1])
  IN node[depth]

\* The first gap that starts at or below the key, or gap 0.
GapPosition(set, key) ==
  LET holding == {i \in DOMAIN Gaps(set) :
                    Gaps(set)[i][1] <= TruncateKey(key) /\ TruncateKey(key) < Gaps(set)[i][2]}
  IN IF holding = {} THEN 1 ELSE Min(holding)

GapWitness(set, key) ==
  LET i == GapPosition(set, key)
  IN [low |-> Gaps(set)[i][1], high |-> Gaps(set)[i][2],
      path |-> PoseidonPath(GapLeaves(set), GapDepth, i - 1)]

TwinVerifiesAbsent(key, w, root) ==
  /\ w.low < TruncateKey(key) /\ TruncateKey(key) < w.high
  /\ PathRoot(<<w.low, w.high>>, w.path, GapDepth) = root

\* The comparison gadget bounds both of its operands.
LowerThan(a, b) == a <= Upper /\ b <= Upper /\ a < b
AssertAbsent(key, w, root) ==
  /\ LowerThan(w.low, TruncateKey(key)) /\ LowerThan(TruncateKey(key), w.high)
  /\ PathRoot(<<w.low, w.high>>, w.path, GapDepth) = root

-------------------------------------------------------------------------------
Init == slots = << >> /\ keys = {}

\* ClassState::land: the leaf, then the padding that keeps leaves even.
Land(v) ==
  /\ Len(slots) + 2 <= 2^TreeDepth
  /\ <<v>> \notin Range(slots)
  /\ slots' = slots \o <<<<v>>, EmptyLeaf>>
  /\ UNCHANGED keys

Insert(key) ==
  /\ keys' = keys \cup {TruncateKey(key)}
  /\ UNCHANGED slots

Next ==
  \/ \E v \in Commitments : Land(v)
  \/ \E key \in 0..(Modulus - 1) : Insert(key)

Spec == Init /\ [][Next]_vars

-------------------------------------------------------------------------------
(* Properties.                                                             *)

ClassRoot   == RootOf(slots, TreeDepth)
Positions   == {i \in 0..(Len(slots) - 1) : i % 2 = 0}
Earlier(n)  == SubSeq(slots, 1, n)

(* Every member proves membership with what the envelope gave it: a path   *)
(* cut at the occupied height and refilled with empty values verifies the  *)
(* member's leaf, whatever the shape of the tree.                          *)
DeliveredPathsVerify ==
  \A p \in Positions :
    Verifies(slots[p + 1][1], FromPrefix(p, DeliveredPath(slots, p)), ClassRoot)

(* ... and nothing else does: a path delivered before the last landing, or *)
(* used for another leaf, verifies nothing under the current root.         *)
StaleAndForeignPathsFail ==
  \A n \in 1..Len(slots) : \A p \in {q \in Positions : q < n} : \A v \in Commitments :
    n % 2 = 0 /\ Verifies(v, FromPrefix(p, DeliveredPath(Earlier(n), p)), ClassRoot) =>
      n = Len(slots) /\ slots[p + 1] = <<v>>

PathsVerifyExactly == DeliveredPathsVerify /\ StaleAndForeignPathsFail

(* The set proves exactly what it should: while the gap tree has room, a   *)
(* key strictly between the sentinels has a witness that verifies if and   *)
(* only if no inserted key shares its truncation.                          *)
AbsentKeysHaveWitnesses ==
  Cardinality(keys) < 2^GapDepth =>
    \A key \in 0..(Modulus - 1) : TruncateKey(key) \in 1..(Upper - 1) =>
      /\ HasWitness(keys, key)
      /\ VerifiesAbsent(key, AbsenceWitness(keys, key), ExclusionRoot(keys))
           <=> TruncateKey(key) \notin keys

(* ... and a present key is never shown absent: not with a witness cut from an     *)
(* earlier set for any key, nor with bounds no honest set ever produced -  *)
(* even where the gap tree has overflowed.                                 *)
Paths == {WitnessFor(GapLeaves(keys), GapDepth, p) : p \in 0..(2^GapDepth - 1)}

PresentNeverLooksAbsent ==
  \A key \in {k \in 0..(Modulus - 1) : TruncateKey(k) \in keys} :
    /\ \A earlier \in SUBSET keys : \A other \in 0..(Modulus - 1) :
         HasWitness(earlier, other) =>
           ~VerifiesAbsent(key, AbsenceWitness(earlier, other), ExclusionRoot(keys))
    /\ \A low, high \in 0..RawMax : \A path \in Paths :
         ~VerifiesAbsent(key, [low |-> low, high |-> high, path |-> path], ExclusionRoot(keys))

AbsenceIsExact == AbsentKeysHaveWitnesses /\ PresentNeverLooksAbsent

(* The copies compute one thing: over a tree of any shape the roots are    *)
(* equal and each path leads to them; over any set with room, whichever    *)
(* side cut the witness the three checks give one verdict, and so they do  *)
(* for any bounds a field element can name - where the copy checks no      *)
(* range, no gap of an honest set lets it differ.                          *)
AsPath(w, depth) ==
  [bits |-> [n \in 0..(depth - 1) |-> (w.index \div 2^n) % 2 = 1], siblings |-> w.siblings]

TwinsAgree ==
  /\ PoseidonRoot(slots, TreeDepth) = ClassRoot
  /\ \A p \in Positions :
       PathRoot(slots[p + 1], PoseidonPath(slots, TreeDepth, p), TreeDepth) = ClassRoot
  /\ Cardinality(keys) < 2^GapDepth =>
       LET root == PoseidonRoot(GapLeaves(keys), GapDepth) IN
       /\ root = ExclusionRoot(keys)
       /\ \A key \in 0..(Modulus - 1) : HasWitness(keys, key) =>
            LET verdict == VerifiesAbsent(key, AbsenceWitness(keys, key), root) IN
            /\ verdict = TwinVerifiesAbsent(key, GapWitness(keys, key), root)
            /\ verdict = AssertAbsent(key, GapWitness(keys, key), root)
       /\ \A key, low, high \in 0..(Modulus - 1) : \A w \in Paths :
            LET own  == [low |-> low, high |-> high, path |-> w]
                twin == [low |-> low, high |-> high, path |-> AsPath(w, GapDepth)]
            IN /\ VerifiesAbsent(key, own, root) = TwinVerifiesAbsent(key, twin, root)
               /\ VerifiesAbsent(key, own, root) = AssertAbsent(key, twin, root)
===============================================================================
