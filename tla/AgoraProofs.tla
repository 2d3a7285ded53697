------------------------------ MODULE AgoraProofs ------------------------------
(***************************************************************************)
(* Theorems about the operator, for every value of AgoraState's constants. *)
(*                                                                         *)
(* Part 1: TypeOK is inductive.  One lemma for each action; under it one   *)
(* step for each of TypeOK's parts.                                        *)
(*                                                                         *)
(* Part 2: safety.  The argument rests on two frame lemmas: which steps    *)
(* move the roots (only a boundary does, proposal 0020) and which steps    *)
(* touch the staged admissions.  Each invariant then has a case for the    *)
(* boundary and a case for everything else; the transparency log comes     *)
(* last, as what the boundaries have published.                            *)
(*                                                                         *)
(* Part 3: standing, and what is counted by it.  Revocation cuts a leaf    *)
(* off, standing that is lost stays lost, an access dies with the standing *)
(* it proved, and every vote counted in an open session or proposal is a   *)
(* current member's.  The two facts everything rests on: the live          *)
(* accumulators are the epoch's snapshot (RootsFixedThisEpoch), and a      *)
(* boundary closes whatever counted under the old one.                     *)
(*                                                                         *)
(* Part 4: membership.  An acknowledged admission lands where its receipt  *)
(* says, its inbox key with it, migration never creates standing, and the  *)
(* operator as a whole implements EpochMembership: standing, read off the  *)
(* live accumulators, is what has landed less what is gone.                *)
(***************************************************************************)
EXTENDS AgoraRefinement, FiniteSetTheorems, SequenceTheorems, TLAPS

-------------------------------------------------------------------------------
(* Part 1: types.                                                          *)

(* The founder's leaves of one class are a sequence: the count of its      *)
(* places in founder_classes is a natural number.                          *)
LEMMA FounderLeavesType ==
  ASSUME NEW c \in Classes
  PROVE  FounderLeaves(c) \in Seq(Leaves)
<1> DEFINE Places == {k \in DOMAIN FounderClasses : FounderClasses[k] = c}
<1>1. IsFiniteSet(1..Len(FounderClasses))
  BY FoundingAssumption, FS_Interval
<1>2. Places \subseteq 1..Len(FounderClasses)
  BY FoundingAssumption
<1>3. Cardinality(Places) \in Nat
  BY <1>1, <1>2, FS_Subset, FS_CardinalityType
<1>4. FounderLeaves(c) = [i \in 1..Cardinality(Places) |-> Founder]
  BY DEF FounderLeaves
<1> HIDE DEF Places
<1>5. \A n \in Nat : [i \in 1..n |-> Founder] \in Seq(Leaves)
  BY FoundingAssumption
<1> QED
  BY <1>3, <1>4, <1>5

(* What a snapshot adds to the transparency log is a sequence of entries.  *)
LEMMA SnapshotEntriesType ==
  ASSUME NEW e \in Epochs, NEW snap \in Snapshots
  PROVE  SnapshotEntries(e, snap) \in Seq(LogEntries)
<1> DEFINE Roots == [i \in 1..Len(ClassOrder) |->
                       [kind |-> "ClassRoot", epoch |-> e, class |-> ClassOrder[i],
                        root |-> snap.classes[ClassOrder[i]]]]
           Exclusion == [kind |-> "ExclusionRoots", epoch |-> e,
                         revocation |-> snap.revocation, spend |-> snap.spend]
<1>1. \A i \in 1..Len(ClassOrder) : Roots[i] \in LogEntries
  <2> TAKE i \in 1..Len(ClassOrder)
  <2>1. ClassOrder[i] \in Classes
    BY FoundingAssumption
  <2>2. snap.classes[ClassOrder[i]] \in Seq(Leaves)
    BY <2>1 DEF Snapshots
  <2> QED
    BY <2>1, <2>2 DEF LogEntries
<1>2. Roots \in Seq(LogEntries)
  BY <1>1, FoundingAssumption
<1>3. Exclusion \in LogEntries
  BY DEF LogEntries, Snapshots
<1> HIDE DEF Roots, Exclusion
<1>4. <<Exclusion>> \in Seq(LogEntries)
  BY <1>3
<1>5. Roots \o <<Exclusion>> \in Seq(LogEntries)
  BY <1>2, <1>4
<1> QED
  BY <1>5 DEF SnapshotEntries, Roots, Exclusion

(* Appending entries keeps the log a log.                                  *)
LEMMA LoggedType ==
  ASSUME log \in Seq(LogEntries), NEW entries \in Seq(LogEntries)
  PROVE  Logged(entries) \in Seq(LogEntries)
BY DEF Logged

LEMMA InitType ==
  ASSUME Init
  PROVE  TypeOK
<1> USE BoundAssumption, FoundingAssumption
<1>1. ScalarsOK
  <2>1. /\ epoch = Genesis /\ dissolved = FALSE /\ governanceQuorum = 1
        /\ threshold = FoundingThreshold /\ version = [c \in Classes |-> 1]
        /\ inboxHorizon = DefaultHorizon
    BY DEF Init
  <2>2. epoch \in Epochs /\ inboxHorizon \in Nat /\ inboxHorizon >= MinHorizon
    BY <2>1 DEF Epochs
  <2>3. threshold \in [Classes -> Nat \ {0}] /\ version \in [Classes -> Nat \ {0}]
    BY <2>1
  <2>4. dissolved \in BOOLEAN
    BY <2>1, Zenon
  <2>5. governanceQuorum \in Nat \ {0}
    BY <2>1
  <2> QED
    BY <2>2, <2>3, <2>4, <2>5, Zenon DEF ScalarsOK
<1>2. AccumulatorsOK
  BY FounderLeavesType DEF Init, AccumulatorsOK
<1>3. OpenedOK
  BY DEF Init, OpenedOK
<1>4. InboxesOK
  BY DEF Init, InboxesOK, NoInbox, NoKey
<1>5. NewSnapshot(landed, revocations, spends) \in Snapshots
  BY <1>2 DEF AccumulatorsOK, NewSnapshot, Snapshots
<1>6. log \in Seq(LogEntries)
  <2>1. Genesis \in Epochs
    BY DEF Epochs
  <2> QED
    BY <1>5, <2>1, SnapshotEntriesType DEF Init
<1>7. PublishedOK
  BY <1>5, <1>6 DEF Init, PublishedOK
<1> QED
  BY <1>1, <1>2, <1>3, <1>4, <1>7 DEF TypeOK

(* The boundary: everything staged lands and a snapshot is taken of it.    *)
LEMMA BoundaryType ==
  ASSUME TypeOK, NEW revoked \in SUBSET Leaves, Boundary(revoked)
  PROVE  TypeOK'
<1> USE BoundAssumption DEF TypeOK, Boundary, decided
<1>1. epoch' = epoch + 1 /\ epoch \in Nat /\ epoch' \in Epochs /\ epoch \in Epochs
  BY DEF ScalarsOK, Epochs
<1>2. ScalarsOK'
  BY <1>1 DEF ScalarsOK
<1>3. AccumulatorsOK'
  BY DEF AccumulatorsOK, Land, Landing, Exclude
<1>4. OpenedOK'
  BY DEF OpenedOK, ExpireOpen
<1>5. InboxesOK'
  BY <1>1 DEF InboxesOK, Land, CarriedInboxes, NoKey, Epochs
<1> DEFINE snap == NewSnapshot(landed', revocations', spends')
<1>6. snap \in Snapshots
  BY <1>3 DEF AccumulatorsOK, NewSnapshot, Snapshots
<1>7. history' \in [Genesis..epoch' -> Snapshots]
  BY <1>1, <1>6 DEF PublishedOK, TakeSnapshot
<1>8. log' \in Seq(LogEntries)
  <2>1. SnapshotEntries(epoch + 1, snap) \in Seq(LogEntries)
    BY <1>1, <1>6, SnapshotEntriesType
  <2> QED
    BY <2>1, LoggedType DEF TakeSnapshot, PublishedOK
<1>9. PublishedOK'
  <2>1. accesses' \subseteq [epoch : Genesis..epoch', class : Classes, leaf : Leaves]
    BY <1>1 DEF PublishedOK, Epochs
  <2> QED
    BY <1>7, <1>8, <2>1 DEF PublishedOK
<1> QED
  BY <1>2, <1>3, <1>4, <1>5, <1>9

(* The last epoch: the staging is lost, nothing else moves.                *)
LEMMA ExhaustedType ==
  ASSUME TypeOK, Exhausted, proposals' \subseteq proposals
  PROVE  TypeOK'
<1> USE DEF TypeOK, Exhausted, decided, accumulators
<1>1. ScalarsOK'
  BY DEF ScalarsOK
<1>2. AccumulatorsOK'
  BY DEF AccumulatorsOK
<1>3. OpenedOK'
  BY DEF OpenedOK, SessionOK, ProposalOK
<1>4. InboxesOK' /\ PublishedOK'
  BY DEF InboxesOK, PublishedOK
<1> QED
  BY <1>1, <1>2, <1>3, <1>4

LEMMA AdvanceEpochType ==
  ASSUME TypeOK, AdvanceEpoch
  PROVE  TypeOK'
BY BoundaryType, ExhaustedType DEF AdvanceEpoch

-------------------------------------------------------------------------------
LEMMA CredentialsInitType ==
  ASSUME TypeOK, NEW l \in Leaves, NEW k \in InboxKeys, CredentialsInit(l, k)
  PROVE  TypeOK'
<1> USE DEF TypeOK, CredentialsInit, decided, accumulators, staged, opened
<1>1. ScalarsOK' /\ AccumulatorsOK' /\ PublishedOK'
  BY DEF ScalarsOK, AccumulatorsOK, PublishedOK
<1>2. OpenedOK'
  BY DEF OpenedOK, SessionOK, ProposalOK
<1>3. InboxesOK'
  BY DEF InboxesOK
<1> QED
  BY <1>1, <1>2, <1>3

LEMMA StartVouchType ==
  ASSUME TypeOK, NEW l \in Leaves, NEW c \in Classes, StartVouch(l, c)
  PROVE  TypeOK'
<1> USE DEF TypeOK, StartVouch, decided, accumulators, staged
<1>1. ScalarsOK' /\ AccumulatorsOK' /\ InboxesOK' /\ PublishedOK'
  BY DEF ScalarsOK, AccumulatorsOK, InboxesOK, PublishedOK
<1>2. drawn \in Nat /\ drawn' = drawn + 1 /\ drawn' \in 0..MaxDraws
  BY BoundAssumption DEF OpenedOK
<1>3. \A s \in sessions' : SessionOK(s)'
  BY <1>2 DEF OpenedOK, SessionOK
<1>4. \A p \in proposals' : ProposalOK(p)'
  BY <1>2 DEF OpenedOK, ProposalOK
<1>5. OpenedOK'
  BY <1>2, <1>3, <1>4 DEF OpenedOK
<1> QED
  BY <1>1, <1>5

LEMMA VouchAttestType ==
  ASSUME TypeOK, NEW s \in sessions, NEW l \in Leaves, VouchAttest(s, l)
  PROVE  TypeOK'
<1> USE DEF TypeOK, VouchAttest, decided, accumulators, staged
<1>1. ScalarsOK' /\ AccumulatorsOK' /\ InboxesOK' /\ PublishedOK'
  BY DEF ScalarsOK, AccumulatorsOK, InboxesOK, PublishedOK
<1>2. \A t \in sessions' : SessionOK(t)'
  <2> DEFINE n == VouchNullifier(l, s.id)
             grown == [s EXCEPT !.nullifiers = @ \cup {n}]
  <2>1. sessions' = (sessions \ {s}) \cup {grown} /\ UNCHANGED drawn
    OBVIOUS
  <2>2. SessionOK(grown)
    BY DEF OpenedOK, SessionOK
  <2> QED
    BY <2>1, <2>2 DEF OpenedOK, SessionOK
<1>3. OpenedOK'
  BY <1>2 DEF OpenedOK, ProposalOK
<1> QED
  BY <1>1, <1>3

(* Staging an admission, alone: what VouchFinalize and Migrate share.      *)
LEMMA StageAdmissionType ==
  ASSUME TypeOK, NEW c \in Classes, NEW l \in Leaves, NEW from \in Leaves \cup {NoLeaf},
         StageAdmission(c, l, from)
  PROVE  /\ stagedAdmissions' \in [Classes -> Seq(Leaves)]
         /\ receipts' \subseteq [class : Classes, leaf : Leaves, active_from : Epochs,
                                 position : Nat, from : Leaves \cup {NoLeaf}]
<1>1. stagedAdmissions' \in [Classes -> Seq(Leaves)]
  BY DEF TypeOK, AccumulatorsOK, StageAdmission
<1>2. Len(landed[c]) \in Nat /\ Len(stagedAdmissions[c]) \in Nat
  BY DEF TypeOK, AccumulatorsOK
<1>3. epoch < MaxEpoch => Admission(c, l, from) \in
        [class : Classes, leaf : Leaves, active_from : Epochs, position : Nat,
         from : Leaves \cup {NoLeaf}]
  <2>1. epoch < MaxEpoch => epoch + 1 \in Epochs
    <3>1. epoch \in Genesis..MaxEpoch
      BY DEF TypeOK, ScalarsOK, Epochs
    <3> QED
      BY <3>1, BoundAssumption DEF Epochs
  <2>2. PositionOf(Len(landed[c]) + Len(stagedAdmissions[c]) + 1) \in Nat
    <3>1. \A n, m \in Nat : 2 * ((n + m + 1) - 1) \in Nat
      OBVIOUS
    <3> QED
      BY <1>2, <3>1 DEF PositionOf
  <2> QED
    BY <2>1, <2>2 DEF Admission
<1> QED
  BY <1>1, <1>3 DEF TypeOK, PublishedOK, StageAdmission, Acknowledged

LEMMA VouchFinalizeType ==
  ASSUME TypeOK, NEW s \in sessions, VouchFinalize(s)
  PROVE  TypeOK'
<1>1. s.target \in Classes /\ s.candidate \in Leaves
  BY DEF TypeOK, OpenedOK, SessionOK
<1>2. /\ stagedAdmissions' \in [Classes -> Seq(Leaves)]
      /\ receipts' \subseteq [class : Classes, leaf : Leaves, active_from : Epochs,
                              position : Nat, from : Leaves \cup {NoLeaf}]
  <2>1. CASE StageAdmission(s.target, s.candidate, NoLeaf)
    BY <1>1, <2>1, StageAdmissionType
  <2>2. CASE UNCHANGED <<stagedAdmissions, receipts>>
    BY <2>2 DEF TypeOK, AccumulatorsOK, PublishedOK
  <2> QED
    BY <2>1, <2>2 DEF VouchFinalize
<1> USE DEF TypeOK, VouchFinalize, decided, accumulators
<1>3. ScalarsOK' /\ InboxesOK'
  BY DEF ScalarsOK, InboxesOK
<1>4. AccumulatorsOK' /\ PublishedOK'
  BY <1>2 DEF AccumulatorsOK, PublishedOK
<1>5. OpenedOK'
  BY DEF OpenedOK, SessionOK, ProposalOK
<1> QED
  BY <1>3, <1>4, <1>5

LEMMA MigrateType ==
  ASSUME TypeOK, NEW c \in Classes, NEW old \in Leaves, NEW new \in Leaves,
         NEW k \in InboxKeys, Migrate(c, old, new, k)
  PROVE  TypeOK'
<1>1. /\ stagedAdmissions' \in [Classes -> Seq(Leaves)]
      /\ receipts' \subseteq [class : Classes, leaf : Leaves, active_from : Epochs,
                              position : Nat, from : Leaves \cup {NoLeaf}]
  BY StageAdmissionType DEF Migrate
<1> USE DEF TypeOK, Migrate, decided, accumulators, opened
<1>2. ScalarsOK'
  BY DEF ScalarsOK
<1>3. AccumulatorsOK' /\ PublishedOK'
  BY <1>1 DEF AccumulatorsOK, PublishedOK
<1>4. OpenedOK'
  BY DEF OpenedOK, SessionOK, ProposalOK
<1>5. InboxesOK'
  BY DEF InboxesOK
<1> QED
  BY <1>2, <1>3, <1>4, <1>5

-------------------------------------------------------------------------------
LEMMA ProposeType ==
  ASSUME TypeOK, NEW d \in Decisions, NEW c \in Classes, Propose(d, c)
  PROVE  TypeOK'
<1> USE DEF TypeOK, Propose, decided, accumulators, staged
<1>1. ScalarsOK' /\ AccumulatorsOK' /\ InboxesOK' /\ PublishedOK'
  BY DEF ScalarsOK, AccumulatorsOK, InboxesOK, PublishedOK
<1>2. drawn \in Nat /\ drawn' = drawn + 1 /\ drawn' \in 0..MaxDraws
  BY BoundAssumption DEF OpenedOK
<1>3. \A s \in sessions' : SessionOK(s)'
  BY <1>2 DEF OpenedOK, SessionOK
<1>4. \A p \in proposals' : ProposalOK(p)'
  <2> TAKE p \in proposals'
  <2>1. CASE p \in proposals
    BY <1>2, <2>1 DEF OpenedOK, ProposalOK
  <2>2. CASE p = [decision |-> d, approving |-> c, opened |-> epoch, nonce |-> drawn,
                  approvals |-> {}]
    <3>1. epoch \in Epochs /\ drawn \in 0..(drawn' - 1) /\ WellFormed(d)
      BY <1>2 DEF ScalarsOK
    <3>2. p.decision = d /\ {} \in SUBSET {PolicyNullifier(l, p) : l \in Leaves}
      BY <2>2
    <3> QED
      BY <2>2, <3>1, <3>2 DEF ProposalOK
  <2> QED
    BY <2>1, <2>2
<1>5. OpenedOK'
  BY <1>2, <1>3, <1>4 DEF OpenedOK
<1> QED
  BY <1>1, <1>5

(* An approval changes neither what the subject id is derived from nor any *)
(* nullifier computed from it.                                             *)
LEMMA ApproveType ==
  ASSUME TypeOK, NEW p \in proposals, NEW l \in Leaves, Approve(p, l)
  PROVE  TypeOK'
<1> USE DEF TypeOK, Approve, decided, accumulators, staged
<1>1. ScalarsOK' /\ AccumulatorsOK' /\ InboxesOK' /\ PublishedOK'
  BY DEF ScalarsOK, AccumulatorsOK, InboxesOK, PublishedOK
<1>2. \A q \in proposals' : ProposalOK(q)'
  <2> DEFINE n == PolicyNullifier(l, p)
             grown == [p EXCEPT !.approvals = @ \cup {n}]
  <2>1. proposals' = (proposals \ {p}) \cup {grown} /\ UNCHANGED drawn
    OBVIOUS
  <2>2. ProposalOK(p)
    BY DEF OpenedOK
  <2>3. \A m \in Leaves : PolicyNullifier(m, grown) = PolicyNullifier(m, p)
    BY <2>2 DEF ProposalOK, PolicyNullifier, SubjectId
  <2>4. ProposalOK(grown)
    BY <2>2, <2>3 DEF ProposalOK
  <2> HIDE DEF grown
  <2>5. \A q : ProposalOK(q) => ProposalOK(q)'
    BY <2>1 DEF ProposalOK
  <2>6. \A q \in proposals : ProposalOK(q)
    BY DEF OpenedOK
  <2> QED
    BY <2>1, <2>4, <2>5, <2>6
<1>3. OpenedOK'
  BY <1>2 DEF OpenedOK, SessionOK
<1> QED
  BY <1>1, <1>3

LEMMA ExecutePolicyType ==
  ASSUME TypeOK, NEW p \in proposals, ExecutePolicy(p)
  PROVE  TypeOK'
<1>1. /\ p.decision.class \in Classes
      /\ p.decision.threshold \in Nat \ {0} /\ p.decision.quorum \in Nat \ {0}
  BY DecisionAssumption DEF TypeOK, OpenedOK, ProposalOK, WellFormed, ExecutePolicy
<1> DEFINE entry == [kind |-> "PolicyChanged", epoch |-> epoch, class |-> p.decision.class,
                     version |-> version'[p.decision.class]]
<1> USE DEF TypeOK, ExecutePolicy, accumulators, staged
<1>2. ScalarsOK'
  BY <1>1 DEF ScalarsOK
<1>3. AccumulatorsOK' /\ InboxesOK'
  BY DEF AccumulatorsOK, InboxesOK
<1>4. OpenedOK'
  BY DEF OpenedOK, SessionOK, ProposalOK
<1>5. entry \in LogEntries
  BY <1>1, <1>2 DEF ScalarsOK, LogEntries
<1>6. log' \in Seq(LogEntries)
  <2> HIDE DEF entry
  <2>1. <<entry>> \in Seq(LogEntries)
    BY <1>5
  <2> QED
    BY <2>1, LoggedType DEF PublishedOK, entry
<1>7. PublishedOK'
  BY <1>6 DEF PublishedOK
<1> QED
  BY <1>2, <1>3, <1>4, <1>7

LEMMA ExecuteHorizonType ==
  ASSUME TypeOK, NEW p \in proposals, ExecuteHorizon(p)
  PROVE  TypeOK'
<1>1. p.decision.boundaries \in Nat /\ p.decision.boundaries >= MinHorizon
  BY DecisionAssumption DEF TypeOK, OpenedOK, ProposalOK, WellFormed, ExecuteHorizon
<1> USE DEF TypeOK, ExecuteHorizon, accumulators, staged
<1>2. ScalarsOK'
  BY <1>1 DEF ScalarsOK
<1>3. AccumulatorsOK' /\ InboxesOK' /\ PublishedOK'
  BY DEF AccumulatorsOK, InboxesOK, PublishedOK
<1>4. OpenedOK'
  BY DEF OpenedOK, SessionOK, ProposalOK
<1> QED
  BY <1>2, <1>3, <1>4

LEMMA ExecuteRevocationType ==
  ASSUME TypeOK, NEW p \in proposals, ExecuteRevocation(p)
  PROVE  TypeOK'
<1>1. {p.decision.leaf} \in SUBSET Leaves
  BY DecisionAssumption DEF TypeOK, OpenedOK, ProposalOK, ExecuteRevocation
<1> QED
  BY <1>1, BoundaryType, ExhaustedType DEF ExecuteRevocation

LEMMA ExecuteDissolutionType ==
  ASSUME TypeOK, NEW p \in proposals, ExecuteDissolution(p)
  PROVE  TypeOK'
<1> DEFINE entry == [kind |-> "Frozen", epoch |-> epoch]
<1> USE DEF TypeOK, ExecuteDissolution, decided, accumulators
<1>1. ScalarsOK'
  <2>1. dissolved' \in BOOLEAN
    BY Zenon
  <2> QED
    BY <2>1 DEF ScalarsOK
<1>2. AccumulatorsOK' /\ InboxesOK' /\ OpenedOK'
  BY DEF AccumulatorsOK, InboxesOK, OpenedOK
<1>3. log' \in Seq(LogEntries)
  <2>1. entry \in LogEntries
    BY DEF ScalarsOK, LogEntries
  <2> HIDE DEF entry
  <2>2. <<entry>> \in Seq(LogEntries)
    BY <2>1
  <2> QED
    BY <2>2, LoggedType DEF PublishedOK, entry
<1>4. PublishedOK'
  BY <1>3 DEF PublishedOK
<1> QED
  BY <1>1, <1>2, <1>4

-------------------------------------------------------------------------------
LEMMA IssueChallengeType ==
  ASSUME TypeOK, IssueChallenge
  PROVE  TypeOK'
<1> USE DEF TypeOK, IssueChallenge, decided, accumulators, staged
<1>1. ScalarsOK' /\ AccumulatorsOK' /\ InboxesOK' /\ PublishedOK'
  BY DEF ScalarsOK, AccumulatorsOK, InboxesOK, PublishedOK
<1>2. drawn \in Nat /\ drawn' = drawn + 1 /\ drawn' \in 0..MaxDraws
  BY BoundAssumption DEF OpenedOK
<1>3. OpenedOK'
  BY <1>2 DEF OpenedOK, SessionOK, ProposalOK
<1> QED
  BY <1>1, <1>3

LEMMA RedeemAccessType ==
  ASSUME TypeOK, NEW ch \in challenges, NEW c \in Classes, NEW l \in Leaves,
         RedeemAccess(ch, c, l)
  PROVE  TypeOK'
<1> USE DEF TypeOK, RedeemAccess, decided, accumulators, staged
<1>1. ScalarsOK' /\ AccumulatorsOK' /\ InboxesOK'
  BY DEF ScalarsOK, AccumulatorsOK, InboxesOK
<1>2. OpenedOK'
  BY DEF OpenedOK, SessionOK, ProposalOK
<1>3. [epoch |-> epoch, class |-> c, leaf |-> l]
        \in [epoch : Genesis..epoch, class : Classes, leaf : Leaves]
  BY BoundAssumption DEF ScalarsOK, Epochs
<1>4. PublishedOK'
  BY <1>3 DEF PublishedOK
<1> QED
  BY <1>1, <1>2, <1>4

LEMMA RetireType ==
  ASSUME TypeOK, NEW l \in Leaves, NEW k \in InboxKeys, Retire(l, k)
  PROVE  TypeOK'
<1> USE DEF TypeOK, Retire, decided, accumulators, staged, opened
<1>1. ScalarsOK' /\ AccumulatorsOK' /\ PublishedOK'
  BY DEF ScalarsOK, AccumulatorsOK, PublishedOK
<1>2. OpenedOK'
  BY DEF OpenedOK, SessionOK, ProposalOK
<1>3. InboxesOK'
  BY BoundAssumption DEF InboxesOK, ScalarsOK, Epochs, NoInbox
<1> QED
  BY <1>1, <1>2, <1>3

LEMMA RenewType ==
  ASSUME TypeOK, NEW l \in Leaves, NEW k \in InboxKeys, Renew(l, k)
  PROVE  TypeOK'
<1> USE DEF TypeOK, Renew, decided, accumulators, staged, opened
<1>1. ScalarsOK' /\ AccumulatorsOK' /\ PublishedOK'
  BY DEF ScalarsOK, AccumulatorsOK, PublishedOK
<1>2. OpenedOK'
  BY DEF OpenedOK, SessionOK, ProposalOK
<1>3. InboxesOK'
  BY BoundAssumption DEF InboxesOK, ScalarsOK, Epochs
<1> QED
  BY <1>1, <1>2, <1>3

LEMMA StutterType ==
  ASSUME TypeOK, UNCHANGED vars
  PROVE  TypeOK'
BY DEF TypeOK, ScalarsOK, AccumulatorsOK, OpenedOK, InboxesOK, PublishedOK, SessionOK,
       ProposalOK, vars, decided, accumulators, staged, opened

LEMMA NextType ==
  ASSUME TypeOK, [Next]_vars
  PROVE  TypeOK'
<1>1. CASE AdvanceEpoch
  BY <1>1, AdvanceEpochType
<1>2. CASE \E l \in Leaves, k \in InboxKeys : CredentialsInit(l, k)
  BY <1>2, CredentialsInitType
<1>3. CASE \E l \in Leaves, c \in Classes : StartVouch(l, c)
  BY <1>3, StartVouchType
<1>4. CASE \E s \in sessions, l \in Leaves : VouchAttest(s, l)
  BY <1>4, VouchAttestType
<1>5. CASE \E s \in sessions : VouchFinalize(s)
  BY <1>5, VouchFinalizeType
<1>6. CASE \E c \in Classes, old, new \in Leaves, k \in InboxKeys : Migrate(c, old, new, k)
  BY <1>6, MigrateType
<1>7. CASE \E d \in Decisions, c \in Classes : Propose(d, c)
  BY <1>7, ProposeType
<1>8. CASE \E p \in proposals, l \in Leaves : Approve(p, l)
  BY <1>8, ApproveType
<1>9. CASE \E p \in proposals : ExecutePolicy(p)
  BY <1>9, ExecutePolicyType
<1>10. CASE \E p \in proposals : ExecuteHorizon(p)
  BY <1>10, ExecuteHorizonType
<1>11. CASE \E p \in proposals : ExecuteRevocation(p)
  BY <1>11, ExecuteRevocationType
<1>12. CASE \E p \in proposals : ExecuteDissolution(p)
  BY <1>12, ExecuteDissolutionType
<1>13. CASE IssueChallenge
  BY <1>13, IssueChallengeType
<1>14. CASE \E ch \in challenges, c \in Classes, l \in Leaves : RedeemAccess(ch, c, l)
  BY <1>14, RedeemAccessType
<1>15. CASE \E l \in Leaves, k \in InboxKeys : Retire(l, k)
  BY <1>15, RetireType
<1>16. CASE \E l \in Leaves, k \in InboxKeys : Renew(l, k)
  BY <1>16, RenewType
<1>17. CASE UNCHANGED vars
  BY <1>17, StutterType
<1> QED
  BY <1>1, <1>2, <1>3, <1>4, <1>5, <1>6, <1>7, <1>8, <1>9, <1>10, <1>11, <1>12, <1>13,
     <1>14, <1>15, <1>16, <1>17 DEF Next

(* Every field keeps its type in every reachable state, whatever the        *)
(* number of leaves, classes, epochs and decisions: in particular no policy *)
(* ever holds a zero threshold or quorum.                                   *)
THEOREM TypeCorrect == Spec => []TypeOK
<1>1. Init => TypeOK
  BY InitType
<1>2. TypeOK /\ [Next]_vars => TypeOK'
  BY NextType
<1> QED
  BY <1>1, <1>2, PTL DEF Spec

-------------------------------------------------------------------------------
(* Part 2: safety.  First, sequences.                                      *)

LEMMA RangeOfConcat ==
  ASSUME NEW S, NEW s \in Seq(S), NEW t \in Seq(S)
  PROVE  Range(s \o t) = Range(s) \cup Range(t)
<1>1. /\ s \o t \in Seq(S) /\ Len(s \o t) = Len(s) + Len(t)
      /\ \A i \in 1..(Len(s) + Len(t)) :
           (s \o t)[i] = IF i <= Len(s) THEN s[i] ELSE t[i - Len(s)]
  BY ConcatProperties
<1>2. /\ DOMAIN s = 1..Len(s) /\ DOMAIN t = 1..Len(t) /\ DOMAIN (s \o t) = 1..(Len(s) + Len(t))
      /\ Len(s) \in Nat /\ Len(t) \in Nat
  BY <1>1
<1> DEFINE u == s \o t
<1>3. \A i \in DOMAIN u : u[i] \in Range(s) \cup Range(t)
  <2> TAKE i \in DOMAIN u
  <2>1. CASE i <= Len(s)
    BY <1>1, <1>2, <2>1 DEF Range
  <2>2. CASE ~(i <= Len(s))
    <3>1. i - Len(s) \in DOMAIN t /\ u[i] = t[i - Len(s)]
      BY <1>1, <1>2, <2>2
    <3> QED
      BY <3>1 DEF Range
  <2> QED
    BY <2>1, <2>2
<1>4. \A i \in DOMAIN s : s[i] \in Range(u)
  <2> TAKE i \in DOMAIN s
  <2>1. i \in DOMAIN u /\ u[i] = s[i]
    BY <1>1, <1>2
  <2> QED
    BY <2>1 DEF Range
<1>5. \A i \in DOMAIN t : t[i] \in Range(u)
  <2> TAKE i \in DOMAIN t
  <2>1. i + Len(s) \in DOMAIN u /\ u[i + Len(s)] = t[i]
    BY <1>1, <1>2
  <2> QED
    BY <2>1 DEF Range
<1> HIDE DEF u
<1>6. Range(u) = Range(s) \cup Range(t)
  BY <1>3, <1>4, <1>5 DEF Range
<1> QED
  BY <1>6 DEF u

LEMMA AppendAfterConcat ==
  ASSUME NEW S, NEW s \in Seq(S), NEW t \in Seq(S), NEW x \in S
  PROVE  s \o Append(t, x) = Append(s \o t, x)
<1>1. <<x>> \in Seq(S) /\ s \o t \in Seq(S)
  BY ConcatProperties
<1>2. Append(t, x) = t \o <<x>> /\ Append(s \o t, x) = (s \o t) \o <<x>>
  BY <1>1, AppendIsConcat
<1>3. (s \o t) \o <<x>> = s \o (t \o <<x>>)
  BY <1>1, ConcatAssociative
<1> QED
  BY <1>2, <1>3

(* Appending a new element keeps a sequence free of duplicates.            *)
LEMMA AppendKeepsInjective ==
  ASSUME NEW S, NEW s \in Seq(S), NEW x \in S, IsInjective(s), x \notin Range(s)
  PROVE  IsInjective(Append(s, x))
<1>1. /\ DOMAIN Append(s, x) = 1..(Len(s) + 1)
      /\ \A i \in 1..Len(s) : Append(s, x)[i] = s[i]
      /\ Append(s, x)[Len(s) + 1] = x
  BY AppendProperties
<1>2. \A i \in 1..Len(s) : s[i] # x
  BY DEF Range
<1>3. \A i, j \in 1..Len(s) : s[i] = s[j] => i = j
  BY DEF IsInjective
<1> QED
  BY <1>1, <1>2, <1>3 DEF IsInjective

LEMMA PrefixInjective ==
  ASSUME NEW S, NEW s \in Seq(S), NEW t \in Seq(S), IsInjective(s \o t)
  PROVE  IsInjective(s)
<1> DEFINE u == s \o t
<1>1. /\ Len(s) \in Nat /\ Len(t) \in Nat /\ DOMAIN s = 1..Len(s)
      /\ DOMAIN u = 1..(Len(s) + Len(t))
  OBVIOUS
<1>2. \A i \in 1..(Len(s) + Len(t)) : u[i] = IF i <= Len(s) THEN s[i] ELSE t[i - Len(s)]
  BY ConcatProperties
<1>3. \A i, j \in DOMAIN u : u[i] = u[j] => i = j
  BY DEF IsInjective
<1> HIDE DEF u
<1>4. \A i \in DOMAIN s : i \in DOMAIN u /\ u[i] = s[i]
  BY <1>1, <1>2
<1>5. \A i, j \in DOMAIN s : s[i] = s[j] => i = j
  BY <1>3, <1>4
<1> QED
  BY <1>5 DEF IsInjective

-------------------------------------------------------------------------------
(* Frames.                                                                 *)

(* Nothing but a boundary moves a root, the epoch or the history.          *)
LEMMA OnlyBoundariesMoveRoots ==
  ASSUME TypeOK, [Next]_vars
  PROVE  \/ UNCHANGED <<epoch, landed, revocations, revokedLeaves, spends, history>>
         \/ \E revoked \in SUBSET Leaves : Boundary(revoked)
<1> DEFINE Quiet == UNCHANGED <<epoch, landed, revocations, revokedLeaves, spends, history>>
<1>1. CASE AdvanceEpoch
  BY <1>1 DEF AdvanceEpoch, Exhausted, accumulators
<1>2. CASE \E l \in Leaves, k \in InboxKeys : CredentialsInit(l, k) \/ Retire(l, k) \/ Renew(l, k)
  BY <1>2 DEF CredentialsInit, Retire, Renew, accumulators
<1>3. CASE \E l \in Leaves, c \in Classes : StartVouch(l, c)
  BY <1>3 DEF StartVouch, accumulators
<1>4. CASE \E s \in sessions, l \in Leaves : VouchAttest(s, l)
  BY <1>4 DEF VouchAttest, accumulators
<1>5. CASE \E s \in sessions : VouchFinalize(s)
  BY <1>5 DEF VouchFinalize, accumulators
<1>6. CASE \E c \in Classes, old, new \in Leaves, k \in InboxKeys : Migrate(c, old, new, k)
  BY <1>6 DEF Migrate, accumulators
<1>7. CASE \E d \in Decisions, c \in Classes : Propose(d, c)
  BY <1>7 DEF Propose, accumulators
<1>8. CASE \E p \in proposals, l \in Leaves : Approve(p, l)
  BY <1>8 DEF Approve, accumulators
<1>9. CASE \E p \in proposals : ExecutePolicy(p) \/ ExecuteHorizon(p) \/ ExecuteDissolution(p)
  BY <1>9 DEF ExecutePolicy, ExecuteHorizon, ExecuteDissolution, accumulators
<1>10. CASE \E p \in proposals : ExecuteRevocation(p)
  <2>1. PICK p \in proposals : ExecuteRevocation(p)
    BY <1>10
  <2>2. {p.decision.leaf} \in SUBSET Leaves
    BY <2>1, DecisionAssumption DEF TypeOK, OpenedOK, ProposalOK, ExecuteRevocation
  <2>3. CASE Boundary({p.decision.leaf})
    BY <2>2, <2>3
  <2>4. CASE Exhausted
    BY <2>4 DEF Exhausted, accumulators
  <2> QED
    BY <2>1, <2>3, <2>4 DEF ExecuteRevocation
<1>11. CASE IssueChallenge
  BY <1>11 DEF IssueChallenge, accumulators
<1>12. CASE \E ch \in challenges, c \in Classes, l \in Leaves : RedeemAccess(ch, c, l)
  BY <1>12 DEF RedeemAccess, accumulators
<1>13. CASE UNCHANGED vars
  BY <1>13 DEF vars, accumulators
<1> QED
  BY <1>1, <1>2, <1>3, <1>4, <1>5, <1>6, <1>7, <1>8, <1>9, <1>10, <1>11, <1>12, <1>13 DEF Next

(* A dissolved agora takes no step at all.                                 *)
LEMMA FrozenTakesNoStep ==
  ASSUME [Next]_vars, dissolved
  PROVE  UNCHANGED vars
BY DEF Next, Live, AdvanceEpoch, CredentialsInit, StartVouch, VouchAttest, VouchFinalize, Migrate,
       Propose, Approve, ExecutePolicy, ExecuteHorizon, ExecuteRevocation, ExecuteDissolution,
       IssueChallenge, RedeemAccess, Retire, Renew

(* Dissolution is final: after the freeze no method changes anything.      *)
THEOREM FreezeIsFinal == Spec => FrozenIsFinal
<1>1. [Next]_vars => [dissolved => UNCHANGED vars]_vars
  BY FrozenTakesNoStep
<1> QED
  BY <1>1, PTL DEF Spec, FrozenIsFinal

-------------------------------------------------------------------------------
(* The history.                                                            *)

LEMMA RootsFixedInit ==
  ASSUME Init
  PROVE  RootsFixedThisEpoch
BY DEF Init, RootsFixedThisEpoch

LEMMA RootsFixedStep ==
  ASSUME TypeOK, RootsFixedThisEpoch, [Next]_vars
  PROVE  RootsFixedThisEpoch'
<1>1. CASE UNCHANGED <<epoch, landed, revocations, revokedLeaves, spends, history>>
  BY <1>1 DEF RootsFixedThisEpoch, NewSnapshot
<1>2. CASE \E revoked \in SUBSET Leaves : Boundary(revoked)
  <2>1. epoch + 1 \in Genesis..(epoch + 1) /\ epoch' = epoch + 1
    BY <1>2, BoundAssumption DEF Boundary, TypeOK, ScalarsOK, Epochs
  <2> QED
    BY <1>2, <2>1 DEF Boundary, TakeSnapshot, RootsFixedThisEpoch
<1> QED
  BY <1>1, <1>2, OnlyBoundariesMoveRoots

(* Between two boundaries no root moves (proposal 0020): the accumulators  *)
(* are at every moment what the epoch's snapshot recorded.                 *)
THEOREM RootsAreFixed == Spec => []RootsFixedThisEpoch
<1>1. TypeOK /\ RootsFixedThisEpoch /\ [Next]_vars => RootsFixedThisEpoch'
  BY RootsFixedStep
<1> QED
  BY <1>1, RootsFixedInit, TypeCorrect, PTL DEF Spec

(* What a step does to the recorded snapshots.                             *)
LEMMA HistoryStep ==
  ASSUME TypeOK, [Next]_vars
  PROVE  \A e \in DOMAIN history : e \in DOMAIN history' /\ history'[e] = history[e]
<1>1. CASE UNCHANGED <<epoch, landed, revocations, revokedLeaves, spends, history>>
  BY <1>1
<1>2. CASE \E revoked \in SUBSET Leaves : Boundary(revoked)
  <2>1. DOMAIN history = Genesis..epoch /\ epoch \in Nat
    BY BoundAssumption DEF TypeOK, PublishedOK, ScalarsOK, Epochs
  <2>2. \A e \in Genesis..epoch : e \in Genesis..(epoch + 1) /\ e # epoch + 1
    BY <2>1, BoundAssumption
  <2> QED
    BY <1>2, <2>1, <2>2 DEF Boundary, TakeSnapshot
<1> QED
  BY <1>1, <1>2, OnlyBoundariesMoveRoots

(* A recorded snapshot is never rewritten, so what verified against an     *)
(* epoch's roots verifies against them for ever.                           *)
THEOREM SnapshotsAreImmutable == Spec => HistoryImmutable
<1> DEFINE Kept == \A e \in DOMAIN history : e \in DOMAIN history' /\ history'[e] = history[e]
<1>1. TypeOK /\ [Next]_vars => [Kept]_vars
  BY HistoryStep
<1> QED
  BY <1>1, TypeCorrect, PTL DEF Spec, HistoryImmutable

-------------------------------------------------------------------------------
(* The staging.                                                            *)

StagingEmptied == stagedAdmissions' = [c \in Classes |-> << >>]

(* Nothing but a boundary, a refused boundary, a freeze, a finalize and a  *)
(* migration touches the staged admissions; only the last two add to them. *)
LEMMA StagingSteps ==
  ASSUME TypeOK, [Next]_vars
  PROVE  \/ UNCHANGED <<landed, stagedAdmissions>>
         \/ landed' = landed /\ StagingEmptied
         \/ /\ landed' = landed
            /\ \E c \in Classes, l \in Leaves, from \in Leaves \cup {NoLeaf} :
                  StageAdmission(c, l, from)
         \/ \E revoked \in SUBSET Leaves : Boundary(revoked)
<1>1. CASE AdvanceEpoch
  BY <1>1 DEF AdvanceEpoch, Exhausted, accumulators, StagingEmptied
<1>2. CASE \E l \in Leaves, k \in InboxKeys : CredentialsInit(l, k) \/ Retire(l, k) \/ Renew(l, k)
  BY <1>2 DEF CredentialsInit, Retire, Renew, accumulators, staged
<1>3. CASE \E l \in Leaves, c \in Classes : StartVouch(l, c)
  BY <1>3 DEF StartVouch, accumulators, staged
<1>4. CASE \E s \in sessions, l \in Leaves : VouchAttest(s, l)
  BY <1>4 DEF VouchAttest, accumulators, staged
<1>5. CASE \E s \in sessions : VouchFinalize(s)
  <2>1. PICK s \in sessions : VouchFinalize(s)
    BY <1>5
  <2>2. s.target \in Classes /\ s.candidate \in Leaves
    BY DEF TypeOK, OpenedOK, SessionOK
  <2> QED
    BY <2>1, <2>2 DEF VouchFinalize, accumulators
<1>6. CASE \E c \in Classes, old, new \in Leaves, k \in InboxKeys : Migrate(c, old, new, k)
  BY <1>6 DEF Migrate, accumulators
<1>7. CASE \E d \in Decisions, c \in Classes : Propose(d, c)
  BY <1>7 DEF Propose, accumulators, staged
<1>8. CASE \E p \in proposals, l \in Leaves : Approve(p, l)
  BY <1>8 DEF Approve, accumulators, staged
<1>9. CASE \E p \in proposals : ExecutePolicy(p) \/ ExecuteHorizon(p)
  BY <1>9 DEF ExecutePolicy, ExecuteHorizon, accumulators, staged
<1>10. CASE \E p \in proposals : ExecuteDissolution(p)
  BY <1>10 DEF ExecuteDissolution, accumulators, StagingEmptied
<1>11. CASE \E p \in proposals : ExecuteRevocation(p)
  <2>1. PICK p \in proposals : ExecuteRevocation(p)
    BY <1>11
  <2>2. {p.decision.leaf} \in SUBSET Leaves
    BY <2>1, DecisionAssumption DEF TypeOK, OpenedOK, ProposalOK, ExecuteRevocation
  <2>3. CASE Boundary({p.decision.leaf})
    BY <2>2, <2>3
  <2>4. CASE Exhausted
    BY <2>4 DEF Exhausted, accumulators, StagingEmptied
  <2> QED
    BY <2>1, <2>3, <2>4 DEF ExecuteRevocation
<1>12. CASE IssueChallenge
  BY <1>12 DEF IssueChallenge, accumulators, staged
<1>13. CASE \E ch \in challenges, c \in Classes, l \in Leaves : RedeemAccess(ch, c, l)
  BY <1>13 DEF RedeemAccess, accumulators, staged
<1>14. CASE UNCHANGED vars
  BY <1>14 DEF vars, accumulators, staged
<1> QED
  BY <1>1, <1>2, <1>3, <1>4, <1>5, <1>6, <1>7, <1>8, <1>9, <1>10, <1>11, <1>12, <1>13, <1>14
     DEF Next

(* Everything a class holds or will hold at the next boundary, in order.   *)
Held(c) == landed[c] \o stagedAdmissions[c]

(* What a step does to it: nothing, drop the staged part, or append one    *)
(* leaf it does not have, while there is room.                             *)
LEMMA HeldSteps ==
  ASSUME TypeOK, [Next]_vars, NEW c \in Classes
  PROVE  /\ landed[c] \in Seq(Leaves) /\ stagedAdmissions[c] \in Seq(Leaves)
         /\ Held(c) \in Seq(Leaves) /\ Len(Held(c)) = Len(landed[c]) + Len(stagedAdmissions[c])
         /\ \/ Held(c)' = Held(c)
            \/ Held(c)' = landed[c]
            \/ \E l \in Leaves : /\ Held(c)' = Append(Held(c), l)
                                 /\ l \notin Range(Held(c)) /\ Len(Held(c)) < Capacity
<1>1. landed[c] \in Seq(Leaves) /\ stagedAdmissions[c] \in Seq(Leaves)
  BY DEF TypeOK, AccumulatorsOK
<1>2. Held(c) \in Seq(Leaves) /\ Len(Held(c)) = Len(landed[c]) + Len(stagedAdmissions[c])
  BY <1>1, ConcatProperties DEF Held
<1>3. CASE UNCHANGED <<landed, stagedAdmissions>>
  BY <1>1, <1>2, <1>3 DEF Held
<1>4. CASE landed' = landed /\ StagingEmptied
  BY <1>1, <1>2, <1>4, ConcatEmptySeq DEF Held, StagingEmptied
<1>5. CASE /\ landed' = landed
           /\ \E d \in Classes, l \in Leaves, from \in Leaves \cup {NoLeaf} :
                 StageAdmission(d, l, from)
  <2>1. PICK d \in Classes, l \in Leaves :
          /\ CanStage(d, l)
          /\ stagedAdmissions' = [stagedAdmissions EXCEPT ![d] = Append(@, l)]
    BY <1>5 DEF StageAdmission
  <2>2. CASE d # c
    BY <1>1, <1>2, <1>5, <2>1, <2>2 DEF Held, TypeOK, AccumulatorsOK
  <2>3. CASE d = c
    <3>1. stagedAdmissions'[c] = Append(stagedAdmissions[c], l)
      BY <2>1, <2>3 DEF TypeOK, AccumulatorsOK
    <3>2. Held(c)' = landed[c] \o Append(stagedAdmissions[c], l)
      BY <1>5, <3>1 DEF Held
    <3>3. landed[c] \o Append(stagedAdmissions[c], l) = Append(Held(c), l)
      <4>1. \A s, t \in Seq(Leaves), x \in Leaves : s \o Append(t, x) = Append(s \o t, x)
        BY AppendAfterConcat
      <4> QED
        BY <1>1, <4>1, Zenon DEF Held
    <3>4. l \notin Range(Held(c))
      BY <1>1, <2>1, <2>3, RangeOfConcat DEF Held, CanStage
    <3>5. Len(Held(c)) < Capacity
      <4>1. Capacity - Len(landed[c]) - Len(stagedAdmissions[c]) > 0
        BY <2>1, <2>3 DEF CanStage, RemainingCapacity
      <4>2. Len(landed[c]) \in Nat /\ Len(stagedAdmissions[c]) \in Nat
        BY <1>1
      <4>3. \A n, m \in Nat : Capacity - n - m > 0 => n + m < Capacity
        BY BoundAssumption
      <4> QED
        BY <1>2, <4>1, <4>2, <4>3
    <3> QED
      BY <1>1, <1>2, <3>2, <3>3, <3>4, <3>5
  <2> QED
    BY <2>2, <2>3
<1>6. CASE \E revoked \in SUBSET Leaves : Boundary(revoked)
  <2>1. landed'[c] = Held(c) /\ stagedAdmissions'[c] = << >>
    BY <1>6 DEF Boundary, Land, Landing, Held
  <2>2. Held(c)' = Held(c)
    BY <1>2, <2>1, ConcatEmptySeq DEF Held
  <2> QED
    BY <1>1, <1>2, <2>2
<1> QED
  BY <1>3, <1>4, <1>5, <1>6, StagingSteps

LEMMA CapacityStep ==
  ASSUME TypeOK, CapacityHeld, [Next]_vars
  PROVE  CapacityHeld'
<1> SUFFICES ASSUME NEW c \in Classes
             PROVE  Len(landed'[c]) + Len(stagedAdmissions'[c]) <= Capacity
  BY DEF CapacityHeld
<1>1. Len(Held(c)) <= Capacity
  <2>1. Len(Held(c)) = Len(landed[c]) + Len(stagedAdmissions[c])
    BY HeldSteps
  <2> QED
    BY <2>1 DEF CapacityHeld
<1>2. Len(Held(c)') <= Capacity
  <2>1. landed[c] \in Seq(Leaves) /\ Held(c) \in Seq(Leaves) /\ Len(landed[c]) <= Len(Held(c))
    <3>1. /\ landed[c] \in Seq(Leaves) /\ stagedAdmissions[c] \in Seq(Leaves)
          /\ Held(c) \in Seq(Leaves)
          /\ Len(Held(c)) = Len(landed[c]) + Len(stagedAdmissions[c])
      BY HeldSteps
    <3>2. Len(landed[c]) \in Nat /\ Len(stagedAdmissions[c]) \in Nat
      BY <3>1
    <3>3. \A n, m \in Nat : n <= n + m
      OBVIOUS
    <3> QED
      BY <3>1, <3>2, <3>3
  <2>2. CASE Held(c)' = Held(c)
    BY <1>1, <2>2
  <2>3. CASE Held(c)' = landed[c]
    BY <1>1, <2>1, <2>3, BoundAssumption
  <2>4. ASSUME NEW l \in Leaves, Held(c)' = Append(Held(c), l), Len(Held(c)) < Capacity
        PROVE  Len(Held(c)') <= Capacity
    BY <2>1, <2>4, AppendProperties, BoundAssumption
  <2> QED
    BY <2>2, <2>3, <2>4, HeldSteps
<1>3. landed'[c] \in Seq(Leaves) /\ stagedAdmissions'[c] \in Seq(Leaves)
  BY NextType DEF TypeOK, AccumulatorsOK
<1>4. Len(Held(c)') = Len(landed'[c]) + Len(stagedAdmissions'[c])
  BY <1>3, ConcatProperties DEF Held
<1> QED
  BY <1>2, <1>4

(* What is landed and what is staged fit a class together, so the landing  *)
(* loop of advance_epoch never refuses half way.                           *)
THEOREM CapacityIsHeld == Spec => []CapacityHeld
<1>1. Init => CapacityHeld
  BY FounderLeavesType, BoundAssumption DEF Init, CapacityHeld
<1>2. TypeOK /\ CapacityHeld /\ [Next]_vars => CapacityHeld'
  BY CapacityStep
<1> QED
  BY <1>1, <1>2, TypeCorrect, PTL DEF Spec

LEMMA LandsAtMostOnceInit ==
  ASSUME Init, IsInjective(FounderClasses)
  PROVE  LandsAtMostOnce
<1> SUFFICES ASSUME NEW c \in Classes
             PROVE  IsInjective(landed[c] \o stagedAdmissions[c])
  BY DEF LandsAtMostOnce
<1> DEFINE Places == {k \in DOMAIN FounderClasses : FounderClasses[k] = c}
<1>1. Cardinality(Places) \in {0, 1}
  <2>1. CASE Places = {}
    BY <2>1, FS_EmptySet
  <2>2. CASE Places # {}
    <3>1. PICK k \in DOMAIN FounderClasses : Places = {k}
      BY <2>2 DEF IsInjective
    <3> QED
      BY <3>1, FS_Singleton
  <2> QED
    BY <2>1, <2>2
<1>2. FounderLeaves(c) = [i \in 1..Cardinality(Places) |-> Founder]
  BY DEF FounderLeaves
<1> HIDE DEF Places
<1>3. IsInjective(FounderLeaves(c))
  BY <1>1, <1>2 DEF IsInjective
<1>4. landed[c] \o stagedAdmissions[c] = FounderLeaves(c)
  BY FounderLeavesType, ConcatEmptySeq DEF Init
<1> QED
  BY <1>3, <1>4

LEMMA LandsAtMostOnceStep ==
  ASSUME TypeOK, LandsAtMostOnce, [Next]_vars
  PROVE  LandsAtMostOnce'
<1> SUFFICES ASSUME NEW c \in Classes
             PROVE  IsInjective(Held(c)')
  BY DEF LandsAtMostOnce, Held
<1>1. IsInjective(Held(c))
  BY DEF LandsAtMostOnce, Held
<1>2. landed[c] \in Seq(Leaves) /\ stagedAdmissions[c] \in Seq(Leaves) /\ Held(c) \in Seq(Leaves)
  BY HeldSteps
<1>3. IsInjective(landed[c])
  <2>1. \A s, t \in Seq(Leaves) : IsInjective(s \o t) => IsInjective(s)
    BY PrefixInjective
  <2> QED
    BY <1>1, <1>2, <2>1, Zenon DEF Held
<1>4. ASSUME NEW l \in Leaves, Held(c)' = Append(Held(c), l), l \notin Range(Held(c))
      PROVE  IsInjective(Held(c)')
  <2>1. \A s \in Seq(Leaves) :
          IsInjective(s) /\ l \notin Range(s) => IsInjective(Append(s, l))
    BY AppendKeepsInjective
  <2> QED
    BY <1>1, <1>2, <1>4, <2>1
<1> QED
  BY <1>1, <1>3, <1>4, HeldSteps

(* A leaf is landed or staged at most once per class, whatever raced to    *)
(* stage it (proposal 0026) - for a founding that names no class twice.    *)
THEOREM AtMostOnce ==
  ASSUME IsInjective(FounderClasses)
  PROVE  Spec => []LandsAtMostOnce
<1>1. Init => LandsAtMostOnce
  BY LandsAtMostOnceInit
<1>2. TypeOK /\ LandsAtMostOnce /\ [Next]_vars => LandsAtMostOnce'
  BY LandsAtMostOnceStep
<1> QED
  BY <1>1, <1>2, TypeCorrect, PTL DEF Spec

-------------------------------------------------------------------------------
(* The transparency log.                                                   *)

RootPlaces(entries, e, c) ==
  {i \in DOMAIN entries :
     entries[i].epoch = e /\ entries[i].kind = "ClassRoot" /\ entries[i].class = c}

(* entries log the roots of epoch e exactly as snap records them.          *)
Covered(entries, e, snap) ==
  /\ \A c \in Classes : \E i \in DOMAIN entries : RootPlaces(entries, e, c) = {i}
  /\ \A i \in DOMAIN entries :
       entries[i].epoch = e /\ entries[i].kind = "ClassRoot" =>
         entries[i].root = snap.classes[entries[i].class]
  /\ \E i \in DOMAIN entries :
       entries[i] = [kind |-> "ExclusionRoots", epoch |-> e,
                     revocation |-> snap.revocation, spend |-> snap.spend]

(* The strengthening: the log runs behind the epoch, ends with the freeze  *)
(* and covers every recorded epoch.                                        *)
LogInv ==
  /\ LogConforms
  /\ \A i \in DOMAIN log : log[i].epoch <= epoch
  /\ Live => \A i \in DOMAIN log : log[i].kind # "Frozen"
  /\ LogEnabled => \A e \in Genesis..epoch : Covered(log, e, history[e])

LEMMA EntryTypes ==
  /\ \A x \in LogEntries : x.epoch \in Nat
  /\ \A x \in LogEntries : x.kind = "ClassRoot" => x.class \in Classes
BY BoundAssumption DEF LogEntries, Epochs

(* What is at each place of a log that grew.                               *)
LEMMA LogGrowth ==
  ASSUME NEW old \in Seq(LogEntries), NEW new \in Seq(LogEntries)
  PROVE  /\ old \o new \in Seq(LogEntries)
         /\ DOMAIN old = 1..Len(old) /\ DOMAIN new = 1..Len(new)
         /\ DOMAIN (old \o new) = 1..(Len(old) + Len(new))
         /\ Len(old) \in Nat /\ Len(new) \in Nat
         /\ \A i \in DOMAIN old : i \in DOMAIN (old \o new) /\ (old \o new)[i] = old[i]
         /\ \A i \in DOMAIN new : /\ Len(old) + i \in DOMAIN (old \o new)
                                  /\ (old \o new)[Len(old) + i] = new[i]
         /\ \A i \in DOMAIN (old \o new) :
              i \in DOMAIN old \/ \E j \in DOMAIN new : i = Len(old) + j
<1>1. /\ old \o new \in Seq(LogEntries) /\ Len(old \o new) = Len(old) + Len(new)
      /\ \A i \in 1..(Len(old) + Len(new)) :
           (old \o new)[i] = IF i <= Len(old) THEN old[i] ELSE new[i - Len(old)]
      /\ Len(old) \in Nat /\ Len(new) \in Nat
      /\ DOMAIN old = 1..Len(old) /\ DOMAIN new = 1..Len(new)
  BY ConcatProperties
<1> DEFINE u == old \o new
<1>2. DOMAIN u = 1..(Len(old) + Len(new))
  BY <1>1
<1>3. \A i \in DOMAIN u : i \in DOMAIN old \/ \E j \in DOMAIN new : i = Len(old) + j
  <2> TAKE i \in DOMAIN u
  <2>1. CASE ~(i <= Len(old))
    <3>1. i - Len(old) \in DOMAIN new /\ i = Len(old) + (i - Len(old))
      BY <1>1, <1>2, <2>1
    <3> QED
      BY <3>1
  <2>2. CASE i <= Len(old)
    BY <1>1, <1>2, <2>2
  <2> QED
    BY <2>1, <2>2
<1> QED
  BY <1>1, <1>2, <1>3

(* Entries that log no root of epoch e leave the coverage of e alone.      *)
LEMMA CoverageKept ==
  ASSUME NEW old \in Seq(LogEntries), NEW new \in Seq(LogEntries), NEW e, NEW snap,
         Covered(old, e, snap),
         \A j \in DOMAIN new : ~(new[j].epoch = e /\ new[j].kind = "ClassRoot")
  PROVE  Covered(old \o new, e, snap)
<1> DEFINE u == old \o new
<1>1. /\ \A i \in DOMAIN old : i \in DOMAIN u /\ u[i] = old[i]
      /\ \A i \in DOMAIN new : Len(old) + i \in DOMAIN u /\ u[Len(old) + i] = new[i]
      /\ \A i \in DOMAIN u : i \in DOMAIN old \/ \E j \in DOMAIN new : i = Len(old) + j
  BY LogGrowth
<1> HIDE DEF u
<1>2. \A i \in DOMAIN u : u[i].epoch = e /\ u[i].kind = "ClassRoot" => i \in DOMAIN old
  BY <1>1
<1>3. \A c \in Classes : RootPlaces(u, e, c) = RootPlaces(old, e, c)
  BY <1>1, <1>2 DEF RootPlaces
<1>4. \A c \in Classes : \E i \in DOMAIN u : RootPlaces(u, e, c) = {i}
  BY <1>1, <1>3 DEF Covered
<1>5. \A i \in DOMAIN u :
        u[i].epoch = e /\ u[i].kind = "ClassRoot" => u[i].root = snap.classes[u[i].class]
  BY <1>1, <1>2 DEF Covered
<1>6. \E i \in DOMAIN u : u[i] = [kind |-> "ExclusionRoots", epoch |-> e,
                                  revocation |-> snap.revocation, spend |-> snap.spend]
  BY <1>1 DEF Covered
<1>7. Covered(u, e, snap)
  BY <1>4, <1>5, <1>6 DEF Covered
<1> QED
  BY <1>7 DEF u

(* A snapshot's own entries cover its epoch, behind entries of earlier     *)
(* ones: one root for each class, because the classes are the keys of a    *)
(* map.                                                                    *)
LEMMA SnapshotCovers ==
  ASSUME NEW old \in Seq(LogEntries), NEW e \in Epochs, NEW snap \in Snapshots,
         \A i \in DOMAIN old : old[i].epoch # e
  PROVE  /\ Covered(old \o SnapshotEntries(e, snap), e, snap)
         /\ \A j \in DOMAIN SnapshotEntries(e, snap) :
              /\ SnapshotEntries(e, snap)[j].epoch = e
              /\ SnapshotEntries(e, snap)[j].kind \in {"ClassRoot", "ExclusionRoots"}
<1> DEFINE new == SnapshotEntries(e, snap)
           u == old \o new
           n == Len(ClassOrder)
           Exclusion == [kind |-> "ExclusionRoots", epoch |-> e,
                         revocation |-> snap.revocation, spend |-> snap.spend]
           Root(i) == [kind |-> "ClassRoot", epoch |-> e, class |-> ClassOrder[i],
                       root |-> snap.classes[ClassOrder[i]]]
<1>1. n \in Nat /\ DOMAIN ClassOrder = 1..n
  BY FoundingAssumption
<1>2. new \in Seq(LogEntries)
  BY SnapshotEntriesType
<1>3. /\ DOMAIN new = 1..(n + 1) /\ new[n + 1] = Exclusion
      /\ \A i \in 1..n : new[i] = Root(i)
  <2> DEFINE roots == [i \in 1..n |-> Root(i)]
  <2>1. new = roots \o <<Exclusion>>
    BY DEF SnapshotEntries
  <2>2. roots \in Seq(Range(roots) \cup {Exclusion}) /\ Len(roots) = n
    BY <1>1 DEF Range
  <2>3. \A i \in 1..n : roots[i] = Root(i)
    OBVIOUS
  <2> HIDE DEF roots, Exclusion, Root, new, n
  <2>4. <<Exclusion>> \in Seq(Range(roots) \cup {Exclusion}) /\ Len(<<Exclusion>>) = 1
    OBVIOUS
  <2>5. /\ new \in Seq(Range(roots) \cup {Exclusion}) /\ Len(new) = n + 1
        /\ \A i \in 1..(n + 1) : new[i] = IF i <= n THEN roots[i] ELSE <<Exclusion>>[i - n]
    BY <2>1, <2>2, <2>4, ConcatProperties
  <2>6. new[n + 1] = Exclusion
    BY <1>1, <2>5
  <2>7. \A i \in 1..n : new[i] = Root(i)
    BY <1>1, <2>3, <2>5
  <2>8. DOMAIN new = 1..(n + 1)
    BY <2>5
  <2> QED
    BY <2>6, <2>7, <2>8
<1>4. \A j \in DOMAIN new : j = n + 1 \/ j \in 1..n
  BY <1>1, <1>3
<1>5. \A j \in DOMAIN new : new[j].epoch = e /\ new[j].kind \in {"ClassRoot", "ExclusionRoots"}
  <2> TAKE j \in DOMAIN new
  <2>1. CASE j = n + 1
    BY <1>3, <2>1
  <2>2. CASE j \in 1..n
    <3>1. new[j] = Root(j)
      BY <1>3, <2>2
    <3> QED
      BY <3>1
  <2> QED
    BY <1>4, <2>1, <2>2
<1> HIDE DEF new
<1>6. /\ \A i \in DOMAIN old : i \in DOMAIN u /\ u[i] = old[i]
      /\ \A i \in DOMAIN new : Len(old) + i \in DOMAIN u /\ u[Len(old) + i] = new[i]
      /\ \A i \in DOMAIN u : i \in DOMAIN old \/ \E j \in DOMAIN new : i = Len(old) + j
      /\ Len(old) \in Nat
  BY <1>2, LogGrowth
<1> HIDE DEF u, n
<1>7. \A i \in DOMAIN u : u[i].epoch = e /\ u[i].kind = "ClassRoot" =>
        \E j \in 1..n : i = Len(old) + j /\ u[i] = Root(j)
  <2> TAKE i \in DOMAIN u
  <2> HAVE u[i].epoch = e /\ u[i].kind = "ClassRoot"
  <2>1. PICK j \in DOMAIN new : i = Len(old) + j
    BY <1>6
  <2>2. u[i] = new[j]
    BY <1>6, <2>1
  <2>3. j # n + 1
    BY <1>3, <2>2
  <2> QED
    BY <1>3, <1>4, <2>1, <2>2, <2>3
<1>8. \A j \in 1..n : Len(old) + j \in DOMAIN u /\ u[Len(old) + j] = Root(j)
  BY <1>1, <1>3, <1>6
<1>9. ASSUME NEW c \in Classes
      PROVE  \E i \in DOMAIN u : RootPlaces(u, e, c) = {i}
  <2>1. PICK j \in 1..n : ClassOrder[j] = c
    BY <1>1 DEF Classes, Range
  <2>2. Len(old) + j \in RootPlaces(u, e, c)
    <3>1. Len(old) + j \in DOMAIN u /\ u[Len(old) + j] = Root(j)
      BY <1>8
    <3>2. Root(j).epoch = e /\ Root(j).kind = "ClassRoot" /\ Root(j).class = c
      BY <2>1
    <3> QED
      BY <3>1, <3>2 DEF RootPlaces
  <2>3. ASSUME NEW i \in RootPlaces(u, e, c)
        PROVE  i = Len(old) + j
    <3>1. i \in DOMAIN u /\ u[i].epoch = e /\ u[i].kind = "ClassRoot" /\ u[i].class = c
      BY DEF RootPlaces
    <3>2. PICK k \in 1..n : i = Len(old) + k /\ u[i] = Root(k)
      BY <1>7, <3>1
    <3>3. ClassOrder[k] = c
      BY <3>1, <3>2
    <3>4. k = j
      BY <1>1, <2>1, <3>3, FoundingAssumption DEF IsInjective
    <3> QED
      BY <3>2, <3>4
  <2>4. RootPlaces(u, e, c) = {Len(old) + j}
    BY <2>2, <2>3
  <2> QED
    BY <1>8, <2>4
<1>10. \A i \in DOMAIN u :
         u[i].epoch = e /\ u[i].kind = "ClassRoot" => u[i].root = snap.classes[u[i].class]
  BY <1>7
<1>11. \E i \in DOMAIN u : u[i] = Exclusion
  <2>1. n + 1 \in DOMAIN new
    BY <1>1, <1>3
  <2> QED
    BY <1>3, <1>6, <2>1
<1>12. Covered(u, e, snap)
  BY <1>9, <1>10, <1>11 DEF Covered
<1> QED
  BY <1>5, <1>12 DEF u, new

(* What a step appends: a policy's change, the freeze, or a snapshot.      *)
LEMMA LogSteps ==
  ASSUME TypeOK, [Next]_vars
  PROVE  \/ UNCHANGED <<epoch, history, log, dissolved>>
         \/ /\ Live /\ UNCHANGED <<epoch, history, dissolved>>
            /\ \E x \in LogEntries : /\ x.epoch = epoch /\ x.kind = "PolicyChanged"
                                     /\ log' = Logged(<<x>>)
         \/ /\ Live /\ UNCHANGED <<epoch, history>> /\ dissolved' = TRUE
            /\ \E x \in LogEntries : /\ x.epoch = epoch /\ x.kind = "Frozen"
                                     /\ log' = Logged(<<x>>)
         \/ Live /\ \E revoked \in SUBSET Leaves : Boundary(revoked)
<1>1. CASE \E p \in proposals : ExecutePolicy(p)
  <2>1. PICK p \in proposals : ExecutePolicy(p)
    BY <1>1
  <2>2. PICK x : x = [kind |-> "PolicyChanged", epoch |-> epoch, class |-> p.decision.class,
                      version |-> version'[p.decision.class]]
    OBVIOUS
  <2>3. p.decision.class \in Classes
    BY <2>1 DEF TypeOK, OpenedOK, ProposalOK, WellFormed, ExecutePolicy
  <2>4. version' \in [Classes -> Nat \ {0}] /\ epoch \in Epochs
    BY NextType DEF TypeOK, ScalarsOK
  <2>5. x \in LogEntries /\ x.epoch = epoch /\ x.kind = "PolicyChanged"
    BY <2>2, <2>3, <2>4 DEF LogEntries
  <2>6. Live /\ UNCHANGED <<epoch, history, dissolved>> /\ log' = Logged(<<x>>)
    BY <2>1, <2>2 DEF ExecutePolicy
  <2> QED
    BY <2>5, <2>6
<1>2. CASE \E p \in proposals : ExecuteDissolution(p)
  <2>1. PICK x : x = [kind |-> "Frozen", epoch |-> epoch]
    OBVIOUS
  <2>2. x \in LogEntries /\ x.epoch = epoch /\ x.kind = "Frozen"
    BY <2>1 DEF LogEntries, TypeOK, ScalarsOK
  <2>3. Live /\ UNCHANGED <<epoch, history>> /\ dissolved' = TRUE /\ log' = Logged(<<x>>)
    BY <1>2, <2>1 DEF ExecuteDissolution
  <2> QED
    BY <2>2, <2>3
<1>3. CASE \E p \in proposals : ExecuteRevocation(p)
  <2>1. PICK p \in proposals : ExecuteRevocation(p)
    BY <1>3
  <2>2. {p.decision.leaf} \in SUBSET Leaves
    BY <2>1, DecisionAssumption DEF TypeOK, OpenedOK, ProposalOK, ExecuteRevocation
  <2> QED
    BY <2>1, <2>2 DEF ExecuteRevocation, Exhausted
<1>4. CASE AdvanceEpoch
  BY <1>4 DEF AdvanceEpoch, Exhausted
<1>5. CASE UNCHANGED vars
  BY <1>5 DEF vars
<1>6. CASE \/ \E l \in Leaves, k \in InboxKeys : CredentialsInit(l, k) \/ Retire(l, k) \/ Renew(l, k)
           \/ \E l \in Leaves, c \in Classes : StartVouch(l, c)
           \/ \E s \in sessions, l \in Leaves : VouchAttest(s, l)
           \/ \E s \in sessions : VouchFinalize(s)
           \/ \E c \in Classes, old, new \in Leaves, k \in InboxKeys : Migrate(c, old, new, k)
           \/ \E d \in Decisions, c \in Classes : Propose(d, c)
           \/ \E p \in proposals, l \in Leaves : Approve(p, l)
           \/ \E p \in proposals : ExecuteHorizon(p)
           \/ IssueChallenge
           \/ \E ch \in challenges, c \in Classes, l \in Leaves : RedeemAccess(ch, c, l)
  BY <1>6 DEF CredentialsInit, Retire, Renew, StartVouch, VouchAttest, VouchFinalize, Migrate, Propose,
              Approve, ExecuteHorizon, IssueChallenge, RedeemAccess
<1> QED
  BY <1>1, <1>2, <1>3, <1>4, <1>5, <1>6 DEF Next

(* One more entry of the current epoch, which is not a root.               *)
LEMMA LogEntryStep ==
  ASSUME TypeOK, LogInv, Live, UNCHANGED <<epoch, history>>,
         NEW x \in LogEntries, x.epoch = epoch, x.kind # "ClassRoot",
         log' = Logged(<<x>>), Live' => x.kind # "Frozen"
  PROVE  LogInv'
<1>1. CASE ~LogEnabled
  BY <1>1 DEF LogInv, LogConforms, Logged, Live
<1>2. CASE LogEnabled
  <2>0. PICK new : new = <<x>>
    OBVIOUS
  <2>1. /\ log \in Seq(LogEntries) /\ new \in Seq(LogEntries) /\ log' = log \o new
    BY <1>2, <2>0 DEF TypeOK, PublishedOK, Logged
  <2>2. /\ DOMAIN log = 1..Len(log) /\ Len(log) \in Nat
        /\ \A i \in DOMAIN log : i \in DOMAIN log' /\ log'[i] = log[i]
        /\ \A i \in DOMAIN log' : i \in DOMAIN log \/ (i = Len(log) + 1 /\ log'[i] = x)
    <3>0. /\ \A i \in DOMAIN log : i \in DOMAIN (log \o new) /\ (log \o new)[i] = log[i]
          /\ \A i \in DOMAIN new : /\ Len(log) + i \in DOMAIN (log \o new)
                                   /\ (log \o new)[Len(log) + i] = new[i]
          /\ \A i \in DOMAIN (log \o new) :
               i \in DOMAIN log \/ \E j \in DOMAIN new : i = Len(log) + j
          /\ DOMAIN log = 1..Len(log) /\ Len(log) \in Nat
      <4>1. log \in Seq(LogEntries) /\ new \in Seq(LogEntries)
        BY <2>1
      <4> QED
        BY <4>1, LogGrowth
    <3>1. /\ \A i \in DOMAIN log : i \in DOMAIN log' /\ log'[i] = log[i]
          /\ \A i \in DOMAIN new : Len(log) + i \in DOMAIN log' /\ log'[Len(log) + i] = new[i]
          /\ \A i \in DOMAIN log' : i \in DOMAIN log \/ \E j \in DOMAIN new : i = Len(log) + j
          /\ DOMAIN log = 1..Len(log) /\ Len(log) \in Nat
      BY <2>1, <3>0, Zenon
    <3>2. DOMAIN new = {1} /\ new[1] = x
      BY <2>0
    <3> QED
      BY <3>1, <3>2
  <2>3. epoch \in Nat
    BY BoundAssumption DEF TypeOK, ScalarsOK, Epochs
  <2>4. \A i \in DOMAIN log' : log'[i].epoch <= epoch'
    BY <2>2, <2>3 DEF LogInv
  <2>5. LogConforms'
    <3> SUFFICES ASSUME NEW i \in DOMAIN log', NEW j \in DOMAIN log', i < j
                 PROVE  log'[i].epoch <= log'[j].epoch /\ log'[i].kind # "Frozen"
      BY DEF LogConforms
    <3>1. i \in DOMAIN log
      BY <2>2
    <3>2. CASE j \in DOMAIN log
      BY <2>2, <3>1, <3>2 DEF LogInv, LogConforms
    <3>3. CASE j \notin DOMAIN log
      BY <2>2, <3>1, <3>3 DEF LogInv
    <3> QED
      BY <3>2, <3>3
  <2>6. Live' => \A i \in DOMAIN log' : log'[i].kind # "Frozen"
    BY <2>2 DEF LogInv
  <2>7. ASSUME NEW e \in Genesis..epoch
        PROVE  Covered(log', e, history[e])
    <3>1. Covered(log, e, history[e])
      BY <1>2 DEF LogInv
    <3>2. \A j \in DOMAIN new : ~(new[j].epoch = e /\ new[j].kind = "ClassRoot")
      BY <2>0
    <3>3. log \in Seq(LogEntries) /\ new \in Seq(LogEntries)
      BY <2>1
    <3>4. Covered(log \o new, e, history[e])
      BY <3>1, <3>2, <3>3, CoverageKept
    <3> QED
      BY <2>1, <3>4, Zenon
  <2> QED
    BY <2>4, <2>5, <2>6, <2>7 DEF LogInv
<1> QED
  BY <1>1, <1>2

(* The boundary logs the snapshot it took.                                 *)
LEMMA LogBoundaryStep ==
  ASSUME TypeOK, TypeOK', LogInv, Live, NEW revoked \in SUBSET Leaves, Boundary(revoked)
  PROVE  LogInv'
<1>1. PICK snap : snap = NewSnapshot(landed', revocations', spends')
  OBVIOUS
<1>2. /\ epoch' = epoch + 1 /\ dissolved' = dissolved /\ log' = Logged(SnapshotEntries(epoch + 1, snap))
      /\ history' = [e \in Genesis..(epoch + 1) |-> IF e = epoch + 1 THEN snap ELSE history[e]]
  BY <1>1 DEF Boundary, TakeSnapshot
<1>3. /\ epoch \in Nat /\ Genesis \in Nat /\ Genesis <= epoch /\ epoch + 1 \in Epochs
      /\ epoch + 1 \in Genesis..(epoch + 1)
  BY <1>2, BoundAssumption DEF TypeOK, ScalarsOK, Epochs
<1>4. snap \in Snapshots
  BY <1>2, <1>3 DEF TypeOK, PublishedOK
<1>5. log \in Seq(LogEntries) /\ \A i \in DOMAIN log : log[i].epoch \in Nat /\ log[i].epoch <= epoch
  BY EntryTypes DEF TypeOK, PublishedOK, LogInv
<1>6. CASE ~LogEnabled
  <2>1. log' = log
    BY <1>2, <1>6 DEF Logged
  <2>2. \A i \in DOMAIN log : log[i].epoch <= epoch + 1
    BY <1>3, <1>5
  <2> QED
    BY <1>2, <1>6, <2>1, <2>2 DEF LogInv, LogConforms, Live
<1>7. CASE LogEnabled
  <2>1. PICK new : new = SnapshotEntries(epoch + 1, snap)
    OBVIOUS
  <2>2. log' = log \o new /\ new \in Seq(LogEntries)
    BY <1>2, <1>3, <1>4, <1>7, <2>1, SnapshotEntriesType DEF Logged
  <2>3. /\ Covered(log', epoch + 1, snap)
        /\ \A j \in DOMAIN new : new[j].epoch = epoch + 1 /\ new[j].kind # "Frozen"
    <3>1. \A i \in DOMAIN log : log[i].epoch # epoch + 1
      BY <1>3, <1>5
    <3>2. /\ Covered(log \o SnapshotEntries(epoch + 1, snap), epoch + 1, snap)
          /\ \A j \in DOMAIN SnapshotEntries(epoch + 1, snap) :
               /\ SnapshotEntries(epoch + 1, snap)[j].epoch = epoch + 1
               /\ SnapshotEntries(epoch + 1, snap)[j].kind \in {"ClassRoot", "ExclusionRoots"}
      BY <1>3, <1>4, <1>5, <3>1, SnapshotCovers
    <3> QED
      BY <2>1, <2>2, <3>2
  <2>4. /\ \A i \in DOMAIN log : i \in DOMAIN log' /\ log'[i] = log[i]
        /\ \A i \in DOMAIN new : Len(log) + i \in DOMAIN log' /\ log'[Len(log) + i] = new[i]
        /\ \A i \in DOMAIN log' : i \in DOMAIN log \/ \E j \in DOMAIN new : i = Len(log) + j
        /\ DOMAIN log = 1..Len(log) /\ DOMAIN new = 1..Len(new) /\ Len(log) \in Nat
    BY <1>5, <2>2, LogGrowth
  <2>5. \A i \in DOMAIN log' : i \in DOMAIN log \/ (log'[i].epoch = epoch + 1 /\ log'[i].kind # "Frozen")
    BY <2>3, <2>4
  <2>6. \A i \in DOMAIN log' : log'[i].epoch <= epoch'
    BY <1>2, <1>3, <1>5, <2>4, <2>5
  <2>7. Live' => \A i \in DOMAIN log' : log'[i].kind # "Frozen"
    BY <2>4, <2>5 DEF LogInv
  <2>8. LogConforms'
    <3> SUFFICES ASSUME NEW i \in DOMAIN log', NEW j \in DOMAIN log', i < j
                 PROVE  log'[i].epoch <= log'[j].epoch /\ log'[i].kind # "Frozen"
      BY DEF LogConforms
    <3>1. log'[i].kind # "Frozen"
      BY <2>4, <2>5 DEF LogInv
    <3>2. CASE j \in DOMAIN log
      <4>1. i \in DOMAIN log
        BY <2>4, <3>2
      <4> QED
        BY <2>4, <3>2, <4>1 DEF LogInv, LogConforms
    <3>3. CASE j \notin DOMAIN log
      <4>1. log'[j].epoch = epoch + 1
        BY <2>5, <3>3
      <4> QED
        BY <1>2, <2>6, <3>1, <4>1
    <3> QED
      BY <3>1, <3>2, <3>3
  <2>9. ASSUME NEW e \in Genesis..epoch'
        PROVE  Covered(log', e, history'[e])
    <3>1. CASE e = epoch + 1
      BY <1>2, <1>3, <2>3, <3>1
    <3>2. CASE e # epoch + 1
      <4>1. e \in Genesis..epoch /\ history'[e] = history[e]
        BY <1>2, <1>3, <3>2
      <4>2. Covered(log, e, history[e])
        BY <1>7, <4>1 DEF LogInv
      <4>3. \A j \in DOMAIN new : ~(new[j].epoch = e /\ new[j].kind = "ClassRoot")
        BY <2>3, <3>2
      <4> QED
        BY <1>5, <2>2, <4>1, <4>2, <4>3, CoverageKept
    <3> QED
      BY <3>1, <3>2
  <2> QED
    BY <2>6, <2>7, <2>8, <2>9 DEF LogInv
<1> QED
  BY <1>6, <1>7

LEMMA LogStep ==
  ASSUME TypeOK, TypeOK', LogInv, [Next]_vars
  PROVE  LogInv'
<1>1. CASE UNCHANGED <<epoch, history, log, dissolved>>
  BY <1>1 DEF LogInv, LogConforms, Live
<1>2. CASE /\ Live /\ UNCHANGED <<epoch, history, dissolved>>
           /\ \E x \in LogEntries : /\ x.epoch = epoch /\ x.kind = "PolicyChanged"
                                    /\ log' = Logged(<<x>>)
  BY <1>2, LogEntryStep
<1>3. CASE /\ Live /\ UNCHANGED <<epoch, history>> /\ dissolved' = TRUE
           /\ \E x \in LogEntries : /\ x.epoch = epoch /\ x.kind = "Frozen"
                                    /\ log' = Logged(<<x>>)
  <2>1. ~Live'
    BY <1>3 DEF Live
  <2> QED
    BY <1>3, <2>1, LogEntryStep
<1>4. CASE Live /\ \E revoked \in SUBSET Leaves : Boundary(revoked)
  BY <1>4, LogBoundaryStep
<1> QED
  BY <1>1, <1>2, <1>3, <1>4, LogSteps

LEMMA LogInit ==
  ASSUME TypeOK, Init
  PROVE  LogInv
<1>1. PICK snap : snap = NewSnapshot(landed, revocations, spends)
  OBVIOUS
<1>2. /\ epoch = Genesis /\ history = [e \in {Genesis} |-> snap] /\ Genesis \in Nat
      /\ log = IF LogEnabled THEN SnapshotEntries(Genesis, snap) ELSE << >>
  BY <1>1, BoundAssumption DEF Init
<1>3. snap \in Snapshots /\ Genesis \in Epochs
  BY <1>2, BoundAssumption DEF TypeOK, PublishedOK, Epochs
<1>4. CASE ~LogEnabled
  <2>1. DOMAIN log = {}
    BY <1>2, <1>4
  <2> QED
    BY <1>4, <2>1 DEF LogInv, LogConforms
<1>5. CASE LogEnabled
  <2>1. log \in Seq(LogEntries) /\ DOMAIN log \subseteq Nat
    BY DEF TypeOK, PublishedOK
  <2>2. << >> \in Seq(LogEntries) /\ DOMAIN << >> = {} /\ << >> \o log = log
    BY <2>1, ConcatEmptySeq
  <2>3. /\ Covered(log, Genesis, snap)
        /\ \A j \in DOMAIN log : /\ log[j].epoch = Genesis
                                 /\ log[j].kind \in {"ClassRoot", "ExclusionRoots"}
    <3>1. PICK new : new = SnapshotEntries(Genesis, snap)
      OBVIOUS
    <3>2. log = new /\ << >> \o new = new
      BY <1>2, <1>5, <2>2, <3>1
    <3>3. \A i \in DOMAIN << >> : << >>[i].epoch # Genesis
      BY <2>2
    <3>4. /\ Covered(<< >> \o SnapshotEntries(Genesis, snap), Genesis, snap)
          /\ \A j \in DOMAIN SnapshotEntries(Genesis, snap) :
               /\ SnapshotEntries(Genesis, snap)[j].epoch = Genesis
               /\ SnapshotEntries(Genesis, snap)[j].kind \in {"ClassRoot", "ExclusionRoots"}
      BY <1>3, <2>2, <3>3, SnapshotCovers
    <3> QED
      BY <3>1, <3>2, <3>4
  <2>4. LogConforms /\ \A i \in DOMAIN log : log[i].epoch <= epoch /\ log[i].kind # "Frozen"
    BY <1>2, <2>3 DEF LogConforms
  <2>5. \A e \in Genesis..epoch : e = Genesis /\ history[e] = snap
    BY <1>2
  <2> QED
    BY <2>3, <2>4, <2>5 DEF LogInv
<1> QED
  BY <1>4, <1>5

LEMMA LogInvMeans ==
  ASSUME TypeOK, LogInv
  PROVE  LogIsTheHistory
<1> SUFFICES ASSUME LogEnabled, NEW e \in Genesis..epoch
             PROVE  /\ \A c \in Classes : Cardinality({i \in RootEntries(e) : log[i].class = c}) = 1
                    /\ \A i \in RootEntries(e) : log[i].root = history[e].classes[log[i].class]
                    /\ \E i \in DOMAIN log :
                         log[i] = [kind |-> "ExclusionRoots", epoch |-> e,
                                   revocation |-> history[e].revocation, spend |-> history[e].spend]
  BY DEF LogInv, LogIsTheHistory
<1>1. Covered(log, e, history[e])
  BY DEF LogInv
<1>2. ASSUME NEW c \in Classes
      PROVE  Cardinality({i \in RootEntries(e) : log[i].class = c}) = 1
  <2>1. {i \in RootEntries(e) : log[i].class = c} = RootPlaces(log, e, c)
    BY DEF RootEntries, RootPlaces
  <2> QED
    BY <1>1, <2>1, FS_Singleton DEF Covered
<1> QED
  BY <1>1, <1>2 DEF Covered, RootEntries

(* The log is the history: its epochs never rewind, nothing follows the    *)
(* freeze, and each epoch's roots are logged once per class and once for   *)
(* the exclusion sets, exactly as they were snapshotted.                   *)
THEOREM LogRecordsHistory == Spec => []LogIsTheHistory
<1>1. TypeOK /\ Init => LogInv
  BY LogInit
<1>2. TypeOK /\ TypeOK' /\ LogInv /\ [Next]_vars => LogInv'
  BY LogStep
<1>3. TypeOK /\ LogInv => LogIsTheHistory
  BY LogInvMeans
<1> QED
  BY <1>1, <1>2, <1>3, TypeCorrect, PTL DEF Spec

-------------------------------------------------------------------------------
(* Part 3: standing.                                                       *)

(* Revocation.                                                             *)

(* The public set and the operator's own record name the same leaves.      *)
RevocationsAgree == revocations = {RevocationKey(l) : l \in revokedLeaves}

LEMMA RevocationsAgreeStep ==
  ASSUME TypeOK, RevocationsAgree, [Next]_vars
  PROVE  RevocationsAgree'
<1>1. CASE UNCHANGED <<epoch, landed, revocations, revokedLeaves, spends, history>>
  BY <1>1 DEF RevocationsAgree
<1>2. ASSUME NEW revoked \in SUBSET Leaves, Boundary(revoked)
      PROVE  RevocationsAgree'
  <2>1. /\ revocations' = revocations \cup {RevocationKey(l) : l \in revoked}
        /\ revokedLeaves' = revokedLeaves \cup revoked
    BY <1>2 DEF Boundary, Exclude
  <2> QED
    BY <2>1 DEF RevocationsAgree
<1> QED
  BY <1>1, <1>2, OnlyBoundariesMoveRoots

LEMMA RevokedHasNoStanding ==
  ASSUME TypeOK, RevocationsAgree, RootsFixedThisEpoch
  PROVE  RevocationIsACut
<1> SUFFICES ASSUME NEW l \in Leaves, l \in revokedLeaves \/ RevocationKey(l) \in revocations
             PROVE  /\ \A c \in Classes : l \notin Standing(epoch, c)
                    /\ \A ct \in EnvelopeNow.ciphertexts : ct.leaf # l
  BY DEF RevocationIsACut
<1>1. l \in revokedLeaves /\ RevocationKey(l) \in revocations
  BY DEF RevocationsAgree, RevocationKey
<1>2. \A c \in Classes : l \notin Standing(epoch, c)
  BY <1>1 DEF RootsFixedThisEpoch, NewSnapshot, Standing, ChainHolds
<1>3. ~InboxLive(l)
  BY <1>1 DEF InboxLive
<1>4. \A ct \in EnvelopeNow.ciphertexts : ct.leaf # l
  BY <1>3 DEF EnvelopeNow
<1> QED
  BY <1>2, <1>4

(* A revoked leaf has no standing in any class and is addressed by no      *)
(* ciphertext, from the boundary that revoked it on.                       *)
THEOREM RevocationCutsOff == Spec => []RevocationIsACut
<1>1. Init => RevocationsAgree
  BY DEF Init, RevocationsAgree
<1>2. TypeOK /\ RevocationsAgree /\ [Next]_vars => RevocationsAgree'
  BY RevocationsAgreeStep
<1>3. TypeOK /\ RevocationsAgree /\ RootsFixedThisEpoch => RevocationIsACut
  BY RevokedHasNoStanding
<1> QED
  BY <1>1, <1>2, <1>3, TypeCorrect, RootsAreFixed, PTL DEF Spec

-------------------------------------------------------------------------------
(* The history only grows.                                                 *)

LEMMA PrefixReflexive ==
  ASSUME NEW S, NEW s \in Seq(S)
  PROVE  IsPrefix(s, s)
BY DEF IsPrefix

LEMMA PrefixOfConcat ==
  ASSUME NEW S, NEW s \in Seq(S), NEW t \in Seq(S), NEW u \in Seq(S), IsPrefix(s, t)
  PROVE  IsPrefix(s, t \o u)
<1> DEFINE v == t \o u
<1>1. /\ v \in Seq(S) /\ Len(v) = Len(t) + Len(u)
      /\ \A i \in 1..Len(v) : v[i] = IF i <= Len(t) THEN t[i] ELSE u[i - Len(t)]
  BY ConcatProperties
<1>2. Len(s) \in Nat /\ Len(t) \in Nat /\ Len(u) \in Nat
  OBVIOUS
<1>3. Len(s) <= Len(t) /\ SubSeq(s, 1, Len(s)) = SubSeq(t, 1, Len(s))
  BY DEF IsPrefix
<1> HIDE DEF v
<1>4. Len(s) <= Len(v)
  BY <1>1, <1>2, <1>3
<1>5. \A i \in 1..Len(s) : v[i] = t[i]
  BY <1>1, <1>2, <1>3
<1>6. /\ SubSeq(t, 1, Len(s)) = [i \in 1..Len(s) |-> t[i]]
      /\ SubSeq(v, 1, Len(s)) = [i \in 1..Len(s) |-> v[i]]
  BY <1>1, <1>2, <1>3, <1>4
<1>7. SubSeq(v, 1, Len(s)) = SubSeq(t, 1, Len(s))
  BY <1>5, <1>6
<1> QED
  BY <1>3, <1>4, <1>7 DEF IsPrefix, v

SnapshotExtends(old, new) ==
  /\ \A c \in Classes : IsPrefix(old.classes[c], new.classes[c])
  /\ old.revocation \subseteq new.revocation
  /\ old.spend \subseteq new.spend

LEMMA HistoryExtendsInit ==
  ASSUME TypeOK, Init
  PROVE  HistoryExtends
<1> SUFFICES ASSUME NEW d \in Genesis..epoch, NEW e \in Genesis..epoch
             PROVE  SnapshotExtends(history[d], history[e])
  BY DEF HistoryExtends, SnapshotExtends
<1>1. d = Genesis /\ e = Genesis
  BY BoundAssumption DEF Init
<1>2. \A c \in Classes : history[Genesis].classes[c] \in Seq(Leaves)
  BY <1>1 DEF TypeOK, PublishedOK, Snapshots
<1>3. \A s \in Seq(Leaves) : IsPrefix(s, s)
  BY PrefixReflexive
<1> QED
  BY <1>1, <1>2, <1>3 DEF SnapshotExtends

LEMMA HistoryExtendsStep ==
  ASSUME TypeOK, HistoryExtends, RootsFixedThisEpoch, [Next]_vars
  PROVE  HistoryExtends'
<1>1. CASE UNCHANGED <<epoch, landed, revocations, revokedLeaves, spends, history>>
  BY <1>1 DEF HistoryExtends
<1>2. ASSUME NEW revoked \in SUBSET Leaves, Boundary(revoked)
      PROVE  HistoryExtends'
  <2> DEFINE snap == NewSnapshot(landed', revocations', spends')
  <2>1. /\ epoch' = epoch + 1
        /\ history' = [e \in Genesis..(epoch + 1) |-> IF e = epoch + 1 THEN snap ELSE history[e]]
    BY <1>2 DEF Boundary, TakeSnapshot
  <2>2. epoch \in Nat /\ Genesis \in Nat /\ Genesis <= epoch
    BY BoundAssumption DEF TypeOK, ScalarsOK, Epochs
  <2>3. \A s, t, u \in Seq(Leaves) : IsPrefix(s, s) /\ (IsPrefix(s, t) => IsPrefix(s, t \o u))
    BY PrefixReflexive, PrefixOfConcat
  <2>4. \A d \in Genesis..epoch : SnapshotExtends(history[d], history[epoch])
    BY <2>2 DEF HistoryExtends, SnapshotExtends
  <2>5. history[epoch] = NewSnapshot(landed, revocations, spends)
    BY DEF RootsFixedThisEpoch
  <2>6. ASSUME NEW d \in Genesis..epoch
        PROVE  SnapshotExtends(history[d], snap)
    <3>1. ASSUME NEW c \in Classes
          PROVE  IsPrefix(history[d].classes[c], snap.classes[c])
      <4>1. IsPrefix(history[d].classes[c], landed[c])
        BY <2>4, <2>5 DEF SnapshotExtends, NewSnapshot
      <4>2. /\ history[d].classes[c] \in Seq(Leaves)
            /\ landed[c] \in Seq(Leaves) /\ stagedAdmissions[c] \in Seq(Leaves)
        BY DEF TypeOK, PublishedOK, AccumulatorsOK, Snapshots
      <4>3. snap.classes[c] = landed[c] \o stagedAdmissions[c]
        BY <1>2 DEF Boundary, Land, Landing, NewSnapshot
      <4> QED
        BY <2>3, <4>1, <4>2, <4>3
    <3>2. history[d].revocation \subseteq snap.revocation /\ history[d].spend \subseteq snap.spend
      BY <1>2, <2>4, <2>5 DEF Boundary, Exclude, NewSnapshot, SnapshotExtends
    <3> QED
      BY <3>1, <3>2 DEF SnapshotExtends
  <2>7. SnapshotExtends(snap, snap)
    <3>1. \A c \in Classes : landed'[c] \in Seq(Leaves)
      BY NextType DEF TypeOK, AccumulatorsOK
    <3> QED
      BY <2>3, <3>1 DEF SnapshotExtends, NewSnapshot
  <2> HIDE DEF snap
  <2>8. ASSUME NEW d \in Genesis..(epoch + 1), NEW e \in Genesis..(epoch + 1), d <= e
        PROVE  SnapshotExtends(history'[d], history'[e])
    <3>1. CASE e = epoch + 1 /\ d = epoch + 1
      BY <2>1, <2>7, <3>1
    <3>2. CASE e = epoch + 1 /\ d # epoch + 1
      <4>1. d \in Genesis..epoch
        BY <2>2, <3>2
      <4> QED
        BY <2>1, <2>6, <3>2, <4>1
    <3>3. CASE e # epoch + 1
      <4>1. d \in Genesis..epoch /\ e \in Genesis..epoch /\ d # epoch + 1
        BY <2>2, <2>8, <3>3
      <4>2. SnapshotExtends(history[d], history[e])
        BY <2>8, <4>1 DEF HistoryExtends, SnapshotExtends
      <4> QED
        BY <2>1, <3>3, <4>1, <4>2
    <3> QED
      BY <3>1, <3>2, <3>3
  <2> QED
    BY <2>1, <2>8 DEF HistoryExtends, SnapshotExtends
<1> QED
  BY <1>1, <1>2, OnlyBoundariesMoveRoots

(* Class roots only grow at the end and no exclusion is taken back, across *)
(* the whole recorded history.                                             *)
THEOREM HistoryOnlyGrows == Spec => []HistoryExtends
<1>1. TypeOK /\ Init => HistoryExtends
  BY HistoryExtendsInit
<1>2. TypeOK /\ HistoryExtends /\ RootsFixedThisEpoch /\ [Next]_vars => HistoryExtends'
  BY HistoryExtendsStep
<1> QED
  BY <1>1, <1>2, TypeCorrect, RootsAreFixed, PTL DEF Spec

LEMMA LostStandingStaysLost ==
  ASSUME TypeOK, HistoryExtends
  PROVE  StandingIsLostForGood
<1> SUFFICES ASSUME NEW d \in Genesis..epoch, NEW e \in Genesis..epoch, d < e,
                    NEW c \in Classes, NEW l \in Range(history[d].classes[c]),
                    l \notin Standing(d, c), NEW b \in Classes
             PROVE  l \notin Standing(e, b)
  BY DEF StandingIsLostForGood
<1>1. l \in Leaves
  <2>1. history[d].classes[c] \in Seq(Leaves)
    BY DEF TypeOK, PublishedOK, Snapshots
  <2> QED
    BY <2>1 DEF Range
<1>2. RevocationKey(l) \in history[d].revocation \/ MigrationSpend(l) \in history[d].spend
  BY <1>1 DEF Standing, ChainHolds
<1>3. d <= e
  BY DEF TypeOK, ScalarsOK, Epochs
<1>4. /\ history[d].revocation \subseteq history[e].revocation
      /\ history[d].spend \subseteq history[e].spend
  BY <1>3 DEF HistoryExtends
<1> QED
  BY <1>2, <1>4 DEF Standing, ChainHolds

(* A leaf that lost its standing never has any again, in any class.        *)
THEOREM LostStandingIsFinal == Spec => []StandingIsLostForGood
<1>1. TypeOK /\ HistoryExtends => StandingIsLostForGood
  BY LostStandingStaysLost
<1> QED
  BY <1>1, TypeCorrect, HistoryOnlyGrows, PTL

-------------------------------------------------------------------------------
(* Access.                                                                 *)

(* What a step adds to the accesses: one, by a proof that verified.        *)
LEMMA AccessSteps ==
  ASSUME TypeOK, [Next]_vars
  PROVE  \/ accesses' = accesses
         \/ \E c \in Classes, l \in Leaves :
              /\ ChainHolds(history[epoch], l, c)
              /\ accesses' = accesses \cup {[epoch |-> epoch, class |-> c, leaf |-> l]}
<1>1. CASE \E ch \in challenges, c \in Classes, l \in Leaves : RedeemAccess(ch, c, l)
  BY <1>1 DEF RedeemAccess
<1>2. CASE ~ \E ch \in challenges, c \in Classes, l \in Leaves : RedeemAccess(ch, c, l)
  BY <1>2 DEF Next, vars, AdvanceEpoch, Boundary, Exhausted, CredentialsInit, StartVouch, VouchAttest,
       VouchFinalize, Migrate, Propose, Approve, ExecutePolicy, ExecuteHorizon, ExecuteRevocation,
       ExecuteDissolution, IssueChallenge, Retire, Renew
<1> QED
  BY <1>1, <1>2

LEMMA AccessEndsStep ==
  ASSUME TypeOK, AccessEndsWithStanding, [Next]_vars
  PROVE  AccessEndsWithStanding'
<1>1. CASE UNCHANGED <<epoch, landed, revocations, revokedLeaves, spends, history>>
  <2>1. \A c \in Classes, l \in Leaves :
          ChainHolds(history[epoch], l, c) <=> l \in Standing(epoch, c)
    BY DEF Standing
  <2>2. \A c : Standing(epoch, c)' = Standing(epoch, c)
    BY <1>1 DEF Standing, ChainHolds
  <2> SUFFICES ASSUME NEW a \in accesses', a.epoch = epoch, ~dissolved'
               PROVE  a.leaf \in Standing(epoch, a.class)
    BY <1>1, <2>2 DEF AccessEndsWithStanding, Admits, Live
  <2>3. CASE a \in accesses /\ Live
    BY <2>3 DEF AccessEndsWithStanding, Admits
  <2>4. CASE a \in accesses /\ ~Live
    BY <2>4, FrozenTakesNoStep DEF vars, Live
  <2>5. CASE a \notin accesses
    BY <2>1, <2>5, AccessSteps
  <2> QED
    BY <2>3, <2>4, <2>5
<1>2. CASE \E revoked \in SUBSET Leaves : Boundary(revoked)
  <2>1. epoch' = epoch + 1 /\ accesses' = accesses
    BY <1>2 DEF Boundary
  <2>2. \A a \in accesses : a.epoch \in Genesis..epoch
    BY DEF TypeOK, PublishedOK
  <2>3. \A e \in Genesis..epoch : e # epoch + 1
    BY BoundAssumption DEF TypeOK, ScalarsOK, Epochs
  <2> QED
    BY <2>1, <2>2, <2>3 DEF AccessEndsWithStanding, Admits
<1> QED
  BY <1>1, <1>2, OnlyBoundariesMoveRoots

(* An access the gate admits is held by a leaf with standing, so it ends   *)
(* with the boundary that takes the standing away.                         *)
THEOREM AccessEnds == Spec => []AccessEndsWithStanding
<1>1. Init => AccessEndsWithStanding
  BY DEF Init, AccessEndsWithStanding
<1>2. TypeOK /\ AccessEndsWithStanding /\ [Next]_vars => AccessEndsWithStanding'
  BY AccessEndsStep
<1> QED
  BY <1>1, <1>2, TypeCorrect, PTL DEF Spec

-------------------------------------------------------------------------------
(* What a threshold counts.  The nullifiers of an open session or proposal *)
(* are finitely many and each is a credential's with standing now          *)
(* (CountsOK).  A nullifier determines the key it was derived from, so     *)
(* counting nullifiers counts distinct keys: an admission and a decision   *)
(* are backed by as many members as the code's comparison of lengths       *)
(* suggests.                                                               *)

SessionCounts(s) ==
  /\ IsFiniteSet(s.nullifiers)
  /\ \A n \in s.nullifiers :
       \E l \in Standing(epoch, VoucherOf[s.target]) : n = VouchNullifier(l, s.id)

ProposalCounts(p) ==
  /\ IsFiniteSet(p.approvals)
  /\ p.opened = epoch
  /\ \A n \in p.approvals : \E l \in Standing(epoch, p.approving) : n = PolicyNullifier(l, p)

CountsOK ==
  /\ \A s \in sessions : SessionCounts(s)
  /\ \A p \in proposals : ProposalCounts(p)

-------------------------------------------------------------------------------
(* What a step does to the open sessions and proposals.                    *)

LEMMA SessionSteps ==
  ASSUME TypeOK, [Next]_vars
  PROVE  \/ sessions' \subseteq sessions
         \/ \E new : sessions' = sessions \cup {new} /\ new.nullifiers = {}
         \/ \E s \in sessions, l \in Leaves :
              /\ ChainHolds(history[epoch], l, VoucherOf[s.target])
              /\ sessions' \subseteq
                   sessions \cup {[s EXCEPT !.nullifiers = @ \cup {VouchNullifier(l, s.id)}]}
<1>1. CASE \E l \in Leaves, c \in Classes : StartVouch(l, c)
  <2>1. PICK l \in Leaves, c \in Classes : StartVouch(l, c)
    BY <1>1
  <2> DEFINE new == [id |-> drawn, candidate |-> l, target |-> c, nullifiers |-> {}]
  <2>2. sessions' = sessions \cup {new} /\ new.nullifiers = {}
    BY <2>1 DEF StartVouch
  <2> QED
    BY <2>2
<1>2. CASE \E s \in sessions, l \in Leaves : VouchAttest(s, l)
  <2>1. PICK s \in sessions, l \in Leaves : VouchAttest(s, l)
    BY <1>2
  <2>2. /\ ChainHolds(history[epoch], l, VoucherOf[s.target])
        /\ sessions' = (sessions \ {s})
                         \cup {[s EXCEPT !.nullifiers = @ \cup {VouchNullifier(l, s.id)}]}
    BY <2>1 DEF VouchAttest
  <2> QED
    BY <2>2
<1>3. CASE ~ \/ \E l \in Leaves, c \in Classes : StartVouch(l, c)
             \/ \E s \in sessions, l \in Leaves : VouchAttest(s, l)
  <2>1. sessions' \subseteq sessions
    BY <1>3 DEF Next, vars, opened, AdvanceEpoch, Boundary, ExpireOpen, Exhausted, CredentialsInit,
         VouchFinalize, Migrate, Propose, Approve, ExecutePolicy, ExecuteHorizon,
         ExecuteRevocation, ExecuteDissolution, IssueChallenge, RedeemAccess, Retire, Renew
  <2> QED
    BY <2>1
<1> QED
  BY <1>1, <1>2, <1>3

LEMMA ProposalSteps ==
  ASSUME TypeOK, [Next]_vars
  PROVE  \/ proposals' \subseteq proposals
         \/ \E new : /\ proposals' = proposals \cup {new}
                     /\ new.approvals = {} /\ new.opened = epoch
         \/ \E p \in proposals, l \in Leaves :
              /\ ChainHolds(history[epoch], l, p.approving)
              /\ proposals' \subseteq
                   proposals \cup {[p EXCEPT !.approvals = @ \cup {PolicyNullifier(l, p)}]}
<1>1. CASE \E d \in Decisions, c \in Classes : Propose(d, c)
  <2>1. PICK d \in Decisions, c \in Classes : Propose(d, c)
    BY <1>1
  <2> DEFINE new == [decision |-> d, approving |-> c, opened |-> epoch, nonce |-> drawn,
                     approvals |-> {}]
  <2>2. proposals' = proposals \cup {new} /\ new.approvals = {} /\ new.opened = epoch
    BY <2>1 DEF Propose
  <2> QED
    BY <2>2
<1>2. CASE \E p \in proposals, l \in Leaves : Approve(p, l)
  <2>1. PICK p \in proposals, l \in Leaves : Approve(p, l)
    BY <1>2
  <2>2. /\ ChainHolds(history[epoch], l, p.approving)
        /\ proposals' = (proposals \ {p})
                          \cup {[p EXCEPT !.approvals = @ \cup {PolicyNullifier(l, p)}]}
    BY <2>1 DEF Approve
  <2> QED
    BY <2>2
<1>3. CASE ~ \/ \E d \in Decisions, c \in Classes : Propose(d, c)
             \/ \E p \in proposals, l \in Leaves : Approve(p, l)
  <2>1. proposals' \subseteq proposals
    BY <1>3 DEF Next, vars, opened, AdvanceEpoch, Boundary, ExpireOpen, Exhausted, CredentialsInit,
         StartVouch, VouchAttest, VouchFinalize, Migrate, ExecutePolicy, ExecuteHorizon,
         ExecuteRevocation, ExecuteDissolution, IssueChallenge, RedeemAccess, Retire, Renew
  <2> QED
    BY <2>1
<1> QED
  BY <1>1, <1>2, <1>3

(* A boundary closes everything that was counting.                         *)
LEMMA BoundaryCloses ==
  ASSUME NEW revoked, Boundary(revoked)
  PROVE  sessions' = {} /\ proposals' = {}
BY DEF Boundary, ExpireOpen

-------------------------------------------------------------------------------
(* CountsOK is inductive.                                                  *)

LEMMA SessionCountsStep ==
  ASSUME TypeOK, CountsOK, [Next]_vars, UNCHANGED <<epoch, history>>, NEW s \in sessions'
  PROVE  SessionCounts(s)
<1>1. CASE s \in sessions
  BY <1>1 DEF CountsOK
<1>2. CASE s.nullifiers = {}
  BY <1>2, FS_EmptySet DEF SessionCounts
<1>3. ASSUME NEW old \in sessions, NEW l \in Leaves,
             ChainHolds(history[epoch], l, VoucherOf[old.target]),
             s = [old EXCEPT !.nullifiers = @ \cup {VouchNullifier(l, old.id)}]
      PROVE  SessionCounts(s)
  <2>1. SessionOK(old)
    BY DEF TypeOK, OpenedOK
  <2>2. /\ s.id = old.id /\ s.target = old.target
        /\ s.nullifiers = old.nullifiers \cup {VouchNullifier(l, old.id)}
    BY <1>3, <2>1 DEF SessionOK
  <2>3. SessionCounts(old)
    BY DEF CountsOK
  <2>4. l \in Standing(epoch, VoucherOf[s.target])
    BY <1>3, <2>2 DEF Standing
  <2>5. IsFiniteSet(s.nullifiers)
    BY <2>2, <2>3, FS_AddElement DEF SessionCounts
  <2> QED
    BY <2>2, <2>3, <2>4, <2>5 DEF SessionCounts
<1> QED
  BY <1>1, <1>2, <1>3, SessionSteps

LEMMA ProposalCountsStep ==
  ASSUME TypeOK, CountsOK, [Next]_vars, UNCHANGED <<epoch, history>>, NEW p \in proposals'
  PROVE  ProposalCounts(p)
<1>1. CASE p \in proposals
  BY <1>1 DEF CountsOK
<1>2. CASE p.approvals = {} /\ p.opened = epoch
  BY <1>2, FS_EmptySet DEF ProposalCounts
<1>3. ASSUME NEW old \in proposals, NEW l \in Leaves,
             ChainHolds(history[epoch], l, old.approving),
             p = [old EXCEPT !.approvals = @ \cup {PolicyNullifier(l, old)}]
      PROVE  ProposalCounts(p)
  <2>1. ProposalOK(old)
    BY DEF TypeOK, OpenedOK
  <2>2. /\ p.opened = old.opened /\ p.approving = old.approving
        /\ p.decision = old.decision /\ p.nonce = old.nonce
        /\ p.approvals = old.approvals \cup {PolicyNullifier(l, old)}
    BY <1>3, <2>1 DEF ProposalOK
  <2>3. SubjectId(p) = SubjectId(old)
    BY <2>2 DEF SubjectId
  <2>4. \A m \in Leaves : PolicyNullifier(m, p) = PolicyNullifier(m, old)
    BY <2>3 DEF PolicyNullifier
  <2>5. ProposalCounts(old)
    BY DEF CountsOK
  <2>6. l \in Standing(epoch, p.approving)
    BY <1>3, <2>2 DEF Standing
  <2>7. IsFiniteSet(p.approvals)
    BY <2>2, <2>5, FS_AddElement DEF ProposalCounts
  <2>8. \A n \in p.approvals : \E m \in Standing(epoch, p.approving) : n = PolicyNullifier(m, p)
    <3> TAKE n \in p.approvals
    <3>1. CASE n \in old.approvals
      <4>1. PICK m \in Standing(epoch, p.approving) : n = PolicyNullifier(m, old)
        BY <2>2, <2>5, <3>1 DEF ProposalCounts
      <4>2. m \in Leaves
        BY DEF Standing
      <4> QED
        BY <2>4, <4>1, <4>2
    <3>2. CASE n = PolicyNullifier(l, old)
      BY <2>4, <2>6, <3>2
    <3> QED
      BY <2>2, <3>1, <3>2
  <2> QED
    BY <2>2, <2>5, <2>7, <2>8 DEF ProposalCounts
<1> QED
  BY <1>1, <1>2, <1>3, ProposalSteps

LEMMA CountsStep ==
  ASSUME TypeOK, CountsOK, [Next]_vars
  PROVE  CountsOK'
<1>1. CASE UNCHANGED <<epoch, landed, revocations, revokedLeaves, spends, history>>
  <2>1. UNCHANGED <<epoch, history>>
    BY <1>1
  <2>2. \A s : SessionCounts(s)' <=> SessionCounts(s)
    BY <2>1 DEF SessionCounts, Standing, ChainHolds
  <2>3. \A p : ProposalCounts(p)' <=> ProposalCounts(p)
    BY <2>1 DEF ProposalCounts, Standing, ChainHolds
  <2>4. \A s \in sessions' : SessionCounts(s)
    BY <2>1, SessionCountsStep
  <2>5. \A p \in proposals' : ProposalCounts(p)
    BY <2>1, ProposalCountsStep
  <2> QED
    BY <2>2, <2>3, <2>4, <2>5 DEF CountsOK
<1>2. CASE \E revoked \in SUBSET Leaves : Boundary(revoked)
  BY <1>2, BoundaryCloses DEF CountsOK
<1> QED
  BY <1>1, <1>2, OnlyBoundariesMoveRoots

LEMMA CountsInvariant == Spec => []CountsOK
<1>1. Init => CountsOK
  BY DEF Init, CountsOK
<1>2. TypeOK /\ CountsOK /\ [Next]_vars => CountsOK'
  BY CountsStep
<1> QED
  BY <1>1, <1>2, TypeCorrect, PTL DEF Spec

(* No count outlives the group it was gathered from: each nullifier of an  *)
(* open session or proposal is a credential's with standing now.           *)
THEOREM CountsAreCurrent == Spec => []OpenCountsAreCurrent
<1>1. CountsOK => OpenCountsAreCurrent
  BY DEF CountsOK, SessionCounts, ProposalCounts, OpenCountsAreCurrent
<1> QED
  BY <1>1, CountsInvariant, PTL

-------------------------------------------------------------------------------
(* Counting nullifiers counts keys.                                        *)

LEMMA VouchersCounted ==
  ASSUME NEW s, SessionCounts(s)
  PROVE  Cardinality(Vouchers(s)) = Cardinality(s.nullifiers)
<1> DEFINE Keys == Vouchers(s)
           f == [n \in s.nullifiers |-> n[2]]
<1>1. \A sk \in Keys : \E l \in Leaves : sk = SkOf[l] /\ VouchNullifier(l, s.id) \in s.nullifiers
  BY DEF Vouchers, Standing
<1>2. \A n \in s.nullifiers : \E sk \in Keys : n = <<"vouch", sk, s.id>>
  <2> TAKE n \in s.nullifiers
  <2>1. PICK l \in Standing(epoch, VoucherOf[s.target]) : n = VouchNullifier(l, s.id)
    BY DEF SessionCounts
  <2>2. SkOf[l] \in Keys
    BY <2>1 DEF Vouchers
  <2> QED
    BY <2>1, <2>2 DEF VouchNullifier
<1> HIDE DEF Keys
<1>3. \A sk \in Keys : <<"vouch", sk, s.id>> \in s.nullifiers
  BY <1>1 DEF VouchNullifier
<1>4. f \in Bijection(s.nullifiers, Keys)
  <2>1. f \in [s.nullifiers -> Keys]
    BY <1>2
  <2>2. \A n, m \in s.nullifiers : f[n] = f[m] => n = m
    BY <1>2
  <2>3. \A sk \in Keys : \E n \in s.nullifiers : f[n] = sk
    BY <1>3
  <2> QED
    BY <2>1, <2>2, <2>3 DEF Bijection, Injection, Surjection, IsInjective
<1>5. ExistsBijection(s.nullifiers, Keys)
  BY <1>4 DEF ExistsBijection
<1> QED
  BY <1>5, FS_Bijection DEF SessionCounts, Keys

LEMMA ApproversCounted ==
  ASSUME NEW p, ProposalCounts(p)
  PROVE  Cardinality(Approvers(p)) = Cardinality(p.approvals)
<1> DEFINE Keys == Approvers(p)
           f == [n \in p.approvals |-> n[2]]
<1>1. \A sk \in Keys : \E l \in Leaves : sk = SkOf[l] /\ PolicyNullifier(l, p) \in p.approvals
  BY DEF Approvers, Standing
<1>2. \A n \in p.approvals : \E sk \in Keys : n = <<"policy", sk, SubjectId(p)>>
  <2> TAKE n \in p.approvals
  <2>1. PICK l \in Standing(epoch, p.approving) : n = PolicyNullifier(l, p)
    BY DEF ProposalCounts
  <2>2. SkOf[l] \in Keys
    BY <2>1 DEF Approvers
  <2> QED
    BY <2>1, <2>2 DEF PolicyNullifier
<1> HIDE DEF Keys
<1>3. \A sk \in Keys : <<"policy", sk, SubjectId(p)>> \in p.approvals
  BY <1>1 DEF PolicyNullifier
<1>4. f \in Bijection(p.approvals, Keys)
  <2>1. f \in [p.approvals -> Keys]
    BY <1>2
  <2>2. \A n, m \in p.approvals : f[n] = f[m] => n = m
    BY <1>2
  <2>3. \A sk \in Keys : \E n \in p.approvals : f[n] = sk
    BY <1>3
  <2> QED
    BY <2>1, <2>2, <2>3 DEF Bijection, Injection, Surjection, IsInjective
<1>5. ExistsBijection(p.approvals, Keys)
  BY <1>4 DEF ExistsBijection
<1> QED
  BY <1>5, FS_Bijection DEF ProposalCounts, Keys

LEMMA AdmissionBacked ==
  ASSUME TypeOK, CountsOK, [Next]_vars, NEW r \in receipts', r \notin receipts, r.from = NoLeaf
  PROVE  \E s \in sessions \ sessions' :
           /\ s.target = r.class /\ s.candidate = r.leaf
           /\ Cardinality(Vouchers(s)) >= threshold[r.class]
<1>1. CASE \E s \in sessions : VouchFinalize(s)
  <2>1. PICK s \in sessions : VouchFinalize(s)
    BY <1>1
  <2>2. ThresholdMet(s) /\ r = Admission(s.target, s.candidate, NoLeaf)
    BY <2>1 DEF VouchFinalize, StageAdmission, Acknowledged
  <2>3. s \notin sessions'
    BY <2>1 DEF VouchFinalize
  <2>4. r.class = s.target /\ r.leaf = s.candidate
    BY <2>2 DEF Admission
  <2>5. Cardinality(Vouchers(s)) = Cardinality(s.nullifiers)
    BY VouchersCounted DEF CountsOK
  <2>6. Cardinality(s.nullifiers) >= threshold[s.target]
    BY <2>2 DEF ThresholdMet
  <2> QED
    BY <2>3, <2>4, <2>5, <2>6
<1>2. CASE \E c \in Classes, old, new \in Leaves, k \in InboxKeys : Migrate(c, old, new, k)
  <2>1. PICK c \in Classes, old \in Leaves, new \in Leaves, k \in InboxKeys : Migrate(c, old, new, k)
    BY <1>2
  <2>2. r = Admission(c, new, old)
    BY <2>1 DEF Migrate, StageAdmission, Acknowledged
  <2> QED
    BY <2>2, FoundingAssumption DEF Admission, NoLeaf
<1>3. CASE ~ \/ \E s \in sessions : VouchFinalize(s)
             \/ \E c \in Classes, old, new \in Leaves, k \in InboxKeys : Migrate(c, old, new, k)
  BY <1>3 DEF Next, vars, AdvanceEpoch, Boundary, Exhausted, CredentialsInit, StartVouch,
       VouchAttest, Propose, Approve, ExecutePolicy, ExecuteHorizon, ExecuteRevocation,
       ExecuteDissolution, IssueChallenge, RedeemAccess, Retire, Renew
<1> QED
  BY <1>1, <1>2, <1>3

(* Every vouched admission consumed a session attested by as many distinct *)
(* keys with standing in the voucher class as the threshold asks for.      *)
THEOREM VouchingIsBacked == Spec => AdmissionsAreBacked
<1> DEFINE Step == \A r \in receipts' \ receipts :
                     r.from = NoLeaf =>
                       \E s \in sessions \ sessions' :
                         /\ s.target = r.class /\ s.candidate = r.leaf
                         /\ Cardinality(Vouchers(s)) >= threshold[r.class]
<1>1. TypeOK /\ CountsOK /\ [Next]_vars => [Step]_vars
  BY AdmissionBacked
<1> QED
  BY <1>1, TypeCorrect, CountsInvariant, PTL DEF Spec, AdmissionsAreBacked

(* Which steps execute a proposal, and what they leave alone otherwise.    *)
LEMMA DecisionSteps ==
  ASSUME TypeOK, [Next]_vars
  PROVE  \/ decided' = decided /\ dissolved' = dissolved /\ revokedLeaves' = revokedLeaves
         \/ \E p \in proposals :
              \/ ExecutePolicy(p) \/ ExecuteHorizon(p)
              \/ ExecuteRevocation(p) \/ ExecuteDissolution(p)
<1>1. CASE AdvanceEpoch
  BY <1>1 DEF AdvanceEpoch, Boundary, Exclude, Exhausted, accumulators
<1>2. CASE ~ \/ AdvanceEpoch
             \/ \E p \in proposals : \/ ExecutePolicy(p) \/ ExecuteHorizon(p)
                                     \/ ExecuteRevocation(p) \/ ExecuteDissolution(p)
  BY <1>2 DEF Next, vars, accumulators, CredentialsInit, StartVouch, VouchAttest, VouchFinalize,
       Migrate, Propose, Approve, IssueChallenge, RedeemAccess, Retire, Renew
<1> QED
  BY <1>1, <1>2

LEMMA DecisionBacked ==
  ASSUME TypeOK, CountsOK, [Next]_vars
  PROVE  /\ decided' # decided => Backed({"policy", "horizon"}) # {}
         /\ dissolved' # dissolved => Backed({"dissolution"}) # {}
         /\ \A l \in revokedLeaves' \ revokedLeaves :
              \E p \in Backed({"revocation"}) : p.decision.leaf = l
<1>1. \A p \in proposals : QuorumMet(p) => Cardinality(Approvers(p)) >= governanceQuorum
  BY ApproversCounted DEF CountsOK, QuorumMet
<1>2. \A p \in proposals : \A kinds :
        QuorumMet(p) /\ p.decision.kind \in kinds => p \in Backed(kinds)
  BY <1>1 DEF Backed
<1>3. CASE decided' = decided /\ dissolved' = dissolved /\ revokedLeaves' = revokedLeaves
  BY <1>3
<1>4. ASSUME NEW p \in proposals, ExecutePolicy(p) \/ ExecuteHorizon(p)
      PROVE  /\ dissolved' = dissolved /\ revokedLeaves' = revokedLeaves
             /\ p \in Backed({"policy", "horizon"})
  BY <1>2, <1>4 DEF ExecutePolicy, ExecuteHorizon, accumulators
<1>5. ASSUME NEW p \in proposals, ExecuteDissolution(p)
      PROVE  /\ decided' = decided /\ revokedLeaves' = revokedLeaves
             /\ p \in Backed({"dissolution"})
  BY <1>2, <1>5 DEF ExecuteDissolution, decided, accumulators
<1>6. ASSUME NEW p \in proposals, ExecuteRevocation(p)
      PROVE  /\ decided' = decided /\ dissolved' = dissolved
             /\ revokedLeaves' \subseteq revokedLeaves \cup {p.decision.leaf}
             /\ p \in Backed({"revocation"})
  <2>1. p \in Backed({"revocation"})
    BY <1>2, <1>6 DEF ExecuteRevocation
  <2>2. CASE Boundary({p.decision.leaf})
    BY <2>1, <2>2 DEF Boundary, Exclude, decided
  <2>3. CASE Exhausted
    BY <2>1, <2>3 DEF Exhausted, decided, accumulators
  <2> QED
    BY <1>6, <2>2, <2>3 DEF ExecuteRevocation
<1>7. CASE \E p \in proposals : ExecutePolicy(p) \/ ExecuteHorizon(p)
  BY <1>4, <1>7
<1>8. CASE \E p \in proposals : ExecuteDissolution(p)
  BY <1>5, <1>8
<1>9. CASE \E p \in proposals : ExecuteRevocation(p)
  <2>1. PICK p \in proposals : ExecuteRevocation(p)
    BY <1>9
  <2> QED
    BY <1>6, <2>1
<1> QED
  BY <1>3, <1>7, <1>8, <1>9, DecisionSteps

(* No decision takes effect but by a proposal for it that a quorum of      *)
(* distinct keys with standing in the approving class has approved.        *)
THEOREM GovernanceIsBacked == Spec => DecisionsAreBacked
<1> DEFINE Step == /\ decided' # decided => Backed({"policy", "horizon"}) # {}
                   /\ dissolved' # dissolved => Backed({"dissolution"}) # {}
                   /\ \A l \in revokedLeaves' \ revokedLeaves :
                        \E p \in Backed({"revocation"}) : p.decision.leaf = l
<1>1. TypeOK /\ CountsOK /\ [Next]_vars => [Step]_vars
  BY DecisionBacked
<1> QED
  BY <1>1, TypeCorrect, CountsInvariant, PTL DEF Spec, DecisionsAreBacked

-------------------------------------------------------------------------------
(* Part 4: membership.                                                     *)

Gone    == {l \in Leaves : RevocationKey(l) \in revocations \/ MigrationSpend(l) \in spends}
Leaving == {l \in Leaves : MigrationSpend(l) \in stagedSpends}

(* Standing is what landed and is not gone.                                *)
LEMMA StandingNow ==
  TypeOK /\ RootsFixedThisEpoch =>
    \A c \in Classes : Standing(epoch, c) = Range(landed[c]) \ Gone
<1> SUFFICES ASSUME TypeOK, RootsFixedThisEpoch, NEW c \in Classes
             PROVE  Standing(epoch, c) = Range(landed[c]) \ Gone
  OBVIOUS
<1>1. /\ history[epoch].classes = landed
      /\ history[epoch].revocation = revocations /\ history[epoch].spend = spends
  BY DEF RootsFixedThisEpoch, NewSnapshot
<1>2. Range(landed[c]) \subseteq Leaves
  BY DEF TypeOK, AccumulatorsOK, Range
<1> QED
  BY <1>1, <1>2 DEF Standing, ChainHolds, Gone

LEMMA StandingNext ==
  TypeOK' /\ RootsFixedThisEpoch' =>
    (\A c \in Classes : Standing(epoch, c) = Range(landed[c]) \ Gone)'
BY StandingNow, PTL

Membered == <<epoch, dissolved, landed, revocations, spends, history>>

(* A step of the operator, seen through what membership depends on.        *)
LEMMA MembershipFrame ==
  ASSUME TypeOK, [Next]_vars
  PROVE  \/ UNCHANGED <<Membered, stagedAdmissions, stagedSpends, receipts>>
         \/ /\ Live
            /\ \E revoked \in {{}} \cup {{l} : l \in Leaves} : Boundary(revoked)
         \/ Live /\ Exhausted
         \/ /\ Live /\ dissolved' = TRUE
            /\ StagingEmptied /\ stagedSpends' = {}
            /\ UNCHANGED <<epoch, landed, revocations, spends, history, receipts>>
         \/ /\ Live /\ UNCHANGED <<Membered, stagedSpends>>
            /\ \E c \in Classes, l \in Leaves : StageAdmission(c, l, NoLeaf)
         \/ \E c \in Classes, old, new \in Leaves, k \in InboxKeys : Migrate(c, old, new, k)
<1>1. CASE AdvanceEpoch
  BY <1>1 DEF AdvanceEpoch
<1>2. CASE \E l \in Leaves, k \in InboxKeys : CredentialsInit(l, k) \/ Retire(l, k) \/ Renew(l, k)
  BY <1>2 DEF CredentialsInit, Retire, Renew, accumulators, staged, Membered
<1>3. CASE \E l \in Leaves, c \in Classes : StartVouch(l, c)
  BY <1>3 DEF StartVouch, accumulators, staged, Membered
<1>4. CASE \E s \in sessions, l \in Leaves : VouchAttest(s, l)
  BY <1>4 DEF VouchAttest, accumulators, staged, Membered
<1>5. CASE \E s \in sessions : VouchFinalize(s)
  <2>1. PICK s \in sessions : VouchFinalize(s)
    BY <1>5
  <2>2. s.target \in Classes /\ s.candidate \in Leaves
    BY DEF TypeOK, OpenedOK, SessionOK
  <2> QED
    BY <2>1, <2>2 DEF VouchFinalize, accumulators, Membered
<1>6. CASE \E c \in Classes, old, new \in Leaves, k \in InboxKeys : Migrate(c, old, new, k)
  BY <1>6
<1>7. CASE \E d \in Decisions, c \in Classes : Propose(d, c)
  BY <1>7 DEF Propose, accumulators, staged, Membered
<1>8. CASE \E p \in proposals, l \in Leaves : Approve(p, l)
  BY <1>8 DEF Approve, accumulators, staged, Membered
<1>9. CASE \E p \in proposals : ExecutePolicy(p) \/ ExecuteHorizon(p)
  BY <1>9 DEF ExecutePolicy, ExecuteHorizon, accumulators, staged, Membered
<1>10. CASE \E p \in proposals : ExecuteDissolution(p)
  BY <1>10 DEF ExecuteDissolution, accumulators, StagingEmptied
<1>11. CASE \E p \in proposals : ExecuteRevocation(p)
  <2>1. PICK p \in proposals : ExecuteRevocation(p)
    BY <1>11
  <2>2. {p.decision.leaf} \in {{l} : l \in Leaves}
    BY <2>1, DecisionAssumption DEF TypeOK, OpenedOK, ProposalOK, ExecuteRevocation
  <2> QED
    BY <2>1, <2>2 DEF ExecuteRevocation
<1>12. CASE IssueChallenge
  BY <1>12 DEF IssueChallenge, accumulators, staged, Membered
<1>13. CASE \E ch \in challenges, c \in Classes, l \in Leaves : RedeemAccess(ch, c, l)
  BY <1>13 DEF RedeemAccess, accumulators, staged, Membered
<1>14. CASE UNCHANGED vars
  BY <1>14 DEF vars, accumulators, staged, Membered
<1> QED
  BY <1>1, <1>2, <1>3, <1>4, <1>5, <1>6, <1>7, <1>8, <1>9, <1>10, <1>11, <1>12, <1>13, <1>14
     DEF Next

(* What a staged leaf does to the newcomers of its class.                  *)
LEMMA StagingJoins ==
  ASSUME TypeOK, NEW c \in Classes, NEW l \in Leaves, NEW from, StageAdmission(c, l, from)
  PROVE  /\ l \notin Range(stagedAdmissions[c])
         /\ \A d \in Classes : Range(stagedAdmissions'[d]) =
              IF d = c THEN Range(stagedAdmissions[c]) \cup {l} ELSE Range(stagedAdmissions[d])
<1>1. stagedAdmissions \in [Classes -> Seq(Leaves)]
  BY DEF TypeOK, AccumulatorsOK
<1>2. stagedAdmissions' = [stagedAdmissions EXCEPT ![c] = Append(@, l)]
  BY DEF StageAdmission
<1>3. \A s \in Seq(Leaves) : Range(Append(s, l)) = Range(s) \cup {l}
  <2> TAKE s \in Seq(Leaves)
  <2>1. /\ DOMAIN Append(s, l) = 1..(Len(s) + 1) /\ DOMAIN s = 1..Len(s) /\ Len(s) \in Nat
        /\ \A i \in 1..Len(s) : Append(s, l)[i] = s[i]
        /\ Append(s, l)[Len(s) + 1] = l
    BY AppendProperties
  <2> QED
    BY <2>1 DEF Range
<1>4. l \notin Range(stagedAdmissions[c])
  BY DEF StageAdmission, CanStage
<1> QED
  BY <1>1, <1>2, <1>3, <1>4

(* Nothing landed, left or returned: only the newcomers may have changed.  *)
LEMMA MembersUnchanged ==
  ASSUME UNCHANGED <<epoch, landed, revocations, spends, history>>
  PROVE  Gone' = Gone /\ \A c : Standing(epoch, c)' = Standing(epoch, c)
BY DEF Gone, Standing, ChainHolds

-------------------------------------------------------------------------------
(* Receipts.                                                               *)

Index(r) == r.position \div 2 + 1

At(s, i, l) == i <= Len(s) /\ s[i] = l

LandedAsReceipted(r) ==
  \A e \in Genesis..epoch :
    IF e < r.active_from THEN r.leaf \notin Range(history[e].classes[r.class])
                         ELSE At(history[e].classes[r.class], Index(r), r.leaf)

AwaitsItsPlace(r) ==
  r.active_from > epoch =>
    dissolved \/ (r.active_from = epoch + 1 /\ At(Held(r.class), Index(r), r.leaf))

LEMMA ReceiptsInParts ==
  ReceiptsHonoured <=> \A r \in receipts : LandedAsReceipted(r) /\ AwaitsItsPlace(r)
<1>1. ASSUME NEW r \in receipts
      PROVE  (LET index == r.position \div 2 + 1
              IN /\ \A e \in Genesis..epoch :
                      IF e < r.active_from
                        THEN r.leaf \notin Range(history[e].classes[r.class])
                        ELSE /\ index <= Len(history[e].classes[r.class])
                             /\ history[e].classes[r.class][index] = r.leaf
                 /\ r.active_from > epoch =>
                      \/ dissolved
                      \/ /\ r.active_from = epoch + 1
                         /\ index <= Len(landed[r.class] \o stagedAdmissions[r.class])
                         /\ (landed[r.class] \o stagedAdmissions[r.class])[index] = r.leaf)
             <=> LandedAsReceipted(r) /\ AwaitsItsPlace(r)
  BY DEF LandedAsReceipted, AwaitsItsPlace, Index, At, Held
<1> QED
  BY <1>1, Zenon DEF ReceiptsHonoured

LEMMA ReceiptsInPartsNext ==
  ReceiptsHonoured' <=> (\A r \in receipts : LandedAsReceipted(r) /\ AwaitsItsPlace(r))'
BY ReceiptsInParts, PTL

LEMMA ReceiptType ==
  ASSUME TypeOK, NEW r \in receipts
  PROVE  /\ r.class \in Classes /\ r.leaf \in Leaves /\ r.active_from \in Epochs
         /\ r.active_from \in Nat /\ Index(r) \in Nat \ {0}
         /\ epoch \in Nat /\ Genesis \in Nat /\ Genesis <= epoch /\ epoch <= MaxEpoch
<1>1. r \in [class : Classes, leaf : Leaves, active_from : Epochs, position : Nat,
             from : Leaves \cup {NoLeaf}]
  BY DEF TypeOK, PublishedOK
<1>2. \A n \in Nat : n \div 2 + 1 \in Nat \ {0}
  OBVIOUS
<1>3. epoch \in Epochs
  BY DEF TypeOK, ScalarsOK
<1> QED
  BY <1>1, <1>2, <1>3, BoundAssumption DEF Index, Epochs

(* What is at a place stays there when leaves land behind it.              *)
LEMMA AtBehindConcat ==
  ASSUME NEW s \in Seq(Leaves), NEW t \in Seq(Leaves), NEW i \in Nat \ {0}, NEW l, At(s, i, l)
  PROVE  At(s \o t, i, l)
BY DEF At

LEMMA AtBehindAppend ==
  ASSUME NEW s \in Seq(Leaves), NEW x \in Leaves, NEW i \in Nat \ {0}, NEW l, At(s, i, l)
  PROVE  At(Append(s, x), i, l)
BY DEF At

LEMMA ReceiptsQuietStep ==
  ASSUME ReceiptsHonoured,
         UNCHANGED <<epoch, dissolved, landed, history, stagedAdmissions, receipts>>
  PROVE  ReceiptsHonoured'
BY DEF ReceiptsHonoured

LEMMA ReceiptsEmptiedStep ==
  ASSUME TypeOK, ReceiptsHonoured, UNCHANGED <<epoch, history, receipts>>,
         dissolved' \/ epoch = MaxEpoch
  PROVE  ReceiptsHonoured'
<1> SUFFICES ASSUME NEW r \in receipts
             PROVE  LandedAsReceipted(r)' /\ AwaitsItsPlace(r)'
  BY ReceiptsInPartsNext
<1>1. LandedAsReceipted(r)
  BY ReceiptsInParts
<1>2. LandedAsReceipted(r)'
  BY <1>1 DEF LandedAsReceipted
<1>3. AwaitsItsPlace(r)'
  <2>1. CASE dissolved'
    BY <2>1 DEF AwaitsItsPlace
  <2>2. CASE epoch = MaxEpoch
    <3>1. r.active_from \in Nat /\ r.active_from <= MaxEpoch
      BY ReceiptType, BoundAssumption DEF Epochs
    <3> QED
      BY <2>2, <3>1, BoundAssumption DEF AwaitsItsPlace
  <2> QED
    BY <2>1, <2>2
<1> QED
  BY <1>2, <1>3

LEMMA ReceiptsStagedStep ==
  ASSUME TypeOK, TypeOK', RootsFixedThisEpoch, HistoryExtends, ReceiptsHonoured, Live,
         UNCHANGED <<epoch, dissolved, landed, history>>,
         NEW c \in Classes, NEW l \in Leaves, NEW from \in Leaves \cup {NoLeaf},
         StageAdmission(c, l, from)
  PROVE  ReceiptsHonoured'
<1> SUFFICES ASSUME NEW r \in receipts'
             PROVE  LandedAsReceipted(r)' /\ AwaitsItsPlace(r)'
  BY ReceiptsInPartsNext
<1>1. /\ landed \in [Classes -> Seq(Leaves)] /\ stagedAdmissions \in [Classes -> Seq(Leaves)]
      /\ stagedAdmissions' = [stagedAdmissions EXCEPT ![c] = Append(@, l)]
      /\ l \notin Range(landed[c])
      /\ epoch \in Nat /\ Genesis \in Nat /\ Genesis <= epoch
  BY BoundAssumption DEF TypeOK, ScalarsOK, Epochs, AccumulatorsOK, StageAdmission, CanStage
<1>2. /\ Held(c)' = Append(Held(c), l) /\ \A d \in Classes \ {c} : Held(d)' = Held(d)
      /\ Len(Held(c)) = Len(landed[c]) + Len(stagedAdmissions[c])
      /\ \A d \in Classes : Held(d) \in Seq(Leaves)
  <2>1. \A s, t \in Seq(Leaves), x \in Leaves : s \o Append(t, x) = Append(s \o t, x)
    BY AppendAfterConcat
  <2>2. landed[c] \in Seq(Leaves) /\ stagedAdmissions[c] \in Seq(Leaves)
    BY <1>1
  <2>3. Held(c)' = landed[c] \o Append(stagedAdmissions[c], l)
    BY <1>1 DEF Held
  <2>4. Held(c)' = Append(Held(c), l)
    BY <2>1, <2>2, <2>3, Zenon DEF Held
  <2>5. \A d \in Classes \ {c} : Held(d)' = Held(d)
    BY <1>1 DEF Held
  <2> QED
    BY <1>1, <2>2, <2>4, <2>5 DEF Held
<1>3. CASE r \in receipts
  <2>1. LandedAsReceipted(r) /\ AwaitsItsPlace(r)
    BY <1>3, ReceiptsInParts
  <2>2. LandedAsReceipted(r)'
    BY <2>1 DEF LandedAsReceipted
  <2>3. At(Held(r.class), Index(r), r.leaf) => At(Held(r.class)', Index(r), r.leaf)
    <3>1. r.class \in Classes /\ Index(r) \in Nat \ {0}
      BY <1>3, ReceiptType
    <3> QED
      BY <1>2, <3>1, AtBehindAppend
  <2>4. AwaitsItsPlace(r)'
    BY <2>1, <2>3 DEF AwaitsItsPlace
  <2> QED
    BY <2>2, <2>4
<1>4. CASE r \notin receipts
  <2>1. r = Admission(c, l, from)
    BY <1>4 DEF StageAdmission, Acknowledged
  <2>2. /\ r.class = c /\ r.leaf = l /\ r.active_from = epoch + 1
        /\ r.position = PositionOf(Len(landed[c]) + Len(stagedAdmissions[c]) + 1)
    BY <2>1 DEF Admission
  <2>3. Index(r) = Len(Held(c)) + 1
    <3>1. Len(landed[c]) + Len(stagedAdmissions[c]) \in Nat
      BY <1>1
    <3>2. \A n \in Nat : (2 * ((n + 1) - 1)) \div 2 + 1 = n + 1
      OBVIOUS
    <3> QED
      BY <1>2, <2>2, <3>1, <3>2 DEF Index, PositionOf
  <2>4. At(Append(Held(c), l), Len(Held(c)) + 1, l)
    <3>1. \A s \in Seq(Leaves) : At(Append(s, l), Len(s) + 1, l)
      BY AppendProperties DEF At
    <3> QED
      BY <1>2, <3>1
  <2>5. AwaitsItsPlace(r)'
    BY <1>2, <2>2, <2>3, <2>4 DEF AwaitsItsPlace
  <2>6. \A e \in Genesis..epoch : l \notin Range(history[e].classes[c])
    <3> TAKE e \in Genesis..epoch
    <3>1. history[epoch].classes[c] = landed[c]
      BY DEF RootsFixedThisEpoch, NewSnapshot
    <3>2. IsPrefix(history[e].classes[c], landed[c])
      BY <1>1, <3>1 DEF HistoryExtends
    <3>3. history[e].classes[c] \in Seq(Leaves)
      BY DEF TypeOK, PublishedOK, Snapshots
    <3>4. \A s, t \in Seq(Leaves) : IsPrefix(s, t) => Range(s) \subseteq Range(t)
      <4> SUFFICES ASSUME NEW s \in Seq(Leaves), NEW t \in Seq(Leaves), IsPrefix(s, t),
                          NEW i \in DOMAIN s
                   PROVE  s[i] \in Range(t)
        BY DEF Range
      <4>1. /\ Len(s) \in Nat /\ Len(t) \in Nat /\ Len(s) <= Len(t) /\ i \in 1..Len(s)
            /\ SubSeq(s, 1, Len(s)) = SubSeq(t, 1, Len(s))
        BY DEF IsPrefix
      <4>2. SubSeq(s, 1, Len(s))[i] = s[i] /\ SubSeq(t, 1, Len(s))[i] = t[i]
        BY <4>1
      <4> QED
        BY <4>1, <4>2 DEF Range
    <3> QED
      BY <1>1, <3>2, <3>3, <3>4
  <2>7. LandedAsReceipted(r)'
    BY <1>1, <2>2, <2>6 DEF LandedAsReceipted
  <2> QED
    BY <2>5, <2>7
<1> QED
  BY <1>3, <1>4

LEMMA ReceiptsBoundaryStep ==
  ASSUME TypeOK, RootsFixedThisEpoch, ReceiptsHonoured, Live,
         NEW revoked \in SUBSET Leaves, Boundary(revoked)
  PROVE  ReceiptsHonoured'
<1>1. /\ receipts' = receipts /\ epoch' = epoch + 1 /\ dissolved' = dissolved
      /\ landed' = [c \in Classes |-> Held(c)]
      /\ history' = [e \in Genesis..(epoch + 1) |->
                       IF e = epoch + 1 THEN NewSnapshot(landed', revocations', spends')
                                        ELSE history[e]]
  BY DEF Boundary, Land, Landing, Held, TakeSnapshot
<1> SUFFICES ASSUME NEW r \in receipts
             PROVE  LandedAsReceipted(r)' /\ AwaitsItsPlace(r)'
  BY <1>1, ReceiptsInPartsNext
<1>2. /\ r.class \in Classes /\ r.leaf \in Leaves /\ r.active_from \in Nat
      /\ Index(r) \in Nat \ {0} /\ epoch \in Nat /\ Genesis \in Nat /\ Genesis <= epoch
  BY ReceiptType
<1>3. LandedAsReceipted(r) /\ AwaitsItsPlace(r) /\ ~dissolved
  BY ReceiptsInParts DEF Live
<1>4. r.active_from <= epoch + 1 /\ At(Held(r.class), Index(r), r.leaf)
  <2>1. CASE r.active_from > epoch
    BY <1>2, <1>3, <2>1 DEF AwaitsItsPlace
  <2>2. CASE ~(r.active_from > epoch)
    <3>1. At(history[epoch].classes[r.class], Index(r), r.leaf)
      BY <1>2, <1>3, <2>2 DEF LandedAsReceipted
    <3>2. history[epoch].classes = landed
      BY DEF RootsFixedThisEpoch, NewSnapshot
    <3>3. landed[r.class] \in Seq(Leaves) /\ stagedAdmissions[r.class] \in Seq(Leaves)
      BY <1>2 DEF TypeOK, AccumulatorsOK
    <3> QED
      BY <1>2, <2>2, <3>1, <3>2, <3>3, AtBehindConcat DEF Held
  <2> QED
    BY <2>1, <2>2
<1>5. AwaitsItsPlace(r)'
  BY <1>1, <1>2, <1>4 DEF AwaitsItsPlace
<1>6. ASSUME NEW e \in Genesis..(epoch + 1)
      PROVE  IF e < r.active_from THEN r.leaf \notin Range(history'[e].classes[r.class])
                                  ELSE At(history'[e].classes[r.class], Index(r), r.leaf)
  <2>1. CASE e = epoch + 1
    <3>1. history'[e].classes[r.class] = Held(r.class)
      BY <1>1, <1>2, <2>1 DEF NewSnapshot
    <3> QED
      BY <1>2, <1>4, <2>1, <3>1
  <2>2. CASE e # epoch + 1
    <3>1. e \in Genesis..epoch /\ history'[e] = history[e]
      BY <1>1, <1>2, <2>2
    <3> QED
      BY <1>3, <3>1 DEF LandedAsReceipted
  <2> QED
    BY <2>1, <2>2
<1>7. LandedAsReceipted(r)'
  BY <1>1, <1>6 DEF LandedAsReceipted
<1> QED
  BY <1>5, <1>7

LEMMA ReceiptsStep ==
  ASSUME TypeOK, TypeOK', RootsFixedThisEpoch, HistoryExtends, ReceiptsHonoured, [Next]_vars
  PROVE  ReceiptsHonoured'
<1>1. CASE UNCHANGED <<Membered, stagedAdmissions, stagedSpends, receipts>>
  BY <1>1, ReceiptsQuietStep DEF Membered
<1>2. CASE Live /\ \E revoked \in {{}} \cup {{l} : l \in Leaves} : Boundary(revoked)
  <2>1. \A revoked \in {{}} \cup {{l} : l \in Leaves} : revoked \in SUBSET Leaves
    OBVIOUS
  <2> QED
    BY <1>2, <2>1, ReceiptsBoundaryStep
<1>3. CASE Live /\ Exhausted
  BY <1>3, ReceiptsEmptiedStep DEF Exhausted
<1>4. CASE /\ Live /\ dissolved' = TRUE
           /\ StagingEmptied /\ stagedSpends' = {}
           /\ UNCHANGED <<epoch, landed, revocations, spends, history, receipts>>
  BY <1>4, ReceiptsEmptiedStep
<1>5. CASE /\ Live /\ UNCHANGED <<Membered, stagedSpends>>
           /\ \E c \in Classes, l \in Leaves : StageAdmission(c, l, NoLeaf)
  BY <1>5, ReceiptsStagedStep DEF Membered
<1>6. CASE \E c \in Classes, old, new \in Leaves, k \in InboxKeys : Migrate(c, old, new, k)
  BY <1>6, ReceiptsStagedStep DEF Migrate, accumulators
<1> QED
  BY <1>1, <1>2, <1>3, <1>4, <1>5, <1>6, MembershipFrame

(* An acknowledged admission is exact: the leaf is at the position the     *)
(* receipt names from active_from on and under no earlier root, and until  *)
(* then it is staged to land there.                                        *)
THEOREM ReceiptsAreHonoured == Spec => []ReceiptsHonoured
<1>1. Init => ReceiptsHonoured
  BY DEF Init, ReceiptsHonoured
<1>2. /\ TypeOK /\ TypeOK' /\ RootsFixedThisEpoch /\ HistoryExtends /\ ReceiptsHonoured
      /\ [Next]_vars
      => ReceiptsHonoured'
  BY ReceiptsStep
<1> QED
  BY <1>1, <1>2, TypeCorrect, RootsAreFixed, HistoryOnlyGrows, PTL DEF Spec

-------------------------------------------------------------------------------
(* Inbox keys.                                                             *)

Waiting == pending \cup {s.candidate : s \in sessions} \cup Joining

Reachable(l) == stagedInboxes[l] # NoKey \/ \E c \in Classes : l \in Range(landed[c])

(* Whoever stops waiting, or waits on, keeps the key staged for it.        *)
LEMMA FewerWaiting ==
  ASSUME InboxTravelsWithLeaf, UNCHANGED <<epoch, landed, stagedInboxes>>, Waiting' \subseteq Waiting
  PROVE  InboxTravelsWithLeaf'
BY DEF InboxTravelsWithLeaf, Waiting

(* Staging a leaf makes it the one newcomer.                               *)
LEMMA StagedJoins ==
  ASSUME TypeOK, NEW c \in Classes, NEW l \in Leaves,
         stagedAdmissions' = [stagedAdmissions EXCEPT ![c] = Append(@, l)]
  PROVE  Joining' = Joining \cup {l}
<1>1. stagedAdmissions \in [Classes -> Seq(Leaves)]
  BY DEF TypeOK, AccumulatorsOK
<1>2. \A s \in Seq(Leaves) : Range(Append(s, l)) = Range(s) \cup {l}
  <2> TAKE s \in Seq(Leaves)
  <2>1. /\ DOMAIN Append(s, l) = 1..(Len(s) + 1) /\ DOMAIN s = 1..Len(s) /\ Len(s) \in Nat
        /\ \A i \in 1..Len(s) : Append(s, l)[i] = s[i]
        /\ Append(s, l)[Len(s) + 1] = l
    BY AppendProperties
  <2> QED
    BY <2>1 DEF Range
<1>3. \A d \in Classes : Range(stagedAdmissions'[d]) =
        IF d = c THEN Range(stagedAdmissions[d]) \cup {l} ELSE Range(stagedAdmissions[d])
  BY <1>1, <1>2
<1>4. ASSUME NEW x
      PROVE  x \in Joining' <=> x \in Joining \cup {l}
  <2>1. x \in Joining <=> \E d \in Classes : x \in Range(stagedAdmissions[d])
    BY DEF Joining
  <2>2. x \in Joining' <=> \E d \in Classes : x \in Range(stagedAdmissions'[d])
    BY DEF Joining
  <2>3. \A d \in Classes :
          x \in Range(stagedAdmissions'[d]) <=> x \in Range(stagedAdmissions[d]) \/ (d = c /\ x = l)
    <3> TAKE d \in Classes
    <3>1. CASE d = c
      <4>1. Range(stagedAdmissions'[d]) = Range(stagedAdmissions[d]) \cup {l}
        BY <1>3, <3>1
      <4> QED
        BY <3>1, <4>1
    <3>2. CASE d # c
      <4>1. Range(stagedAdmissions'[d]) = Range(stagedAdmissions[d])
        BY <1>3, <3>2
      <4> QED
        BY <3>2, <4>1
    <3> QED
      BY <3>1, <3>2
  <2> QED
    BY <2>1, <2>2, <2>3, Zenon
<1> QED
  BY <1>4

LEMMA InboxCredentialsStep ==
  ASSUME TypeOK, InboxTravelsWithLeaf, NEW l \in Leaves, NEW k \in InboxKeys, CredentialsInit(l, k)
  PROVE  InboxTravelsWithLeaf'
<1>1. /\ Waiting' = Waiting \cup {l} /\ UNCHANGED <<epoch, landed>>
      /\ stagedInboxes' = [stagedInboxes EXCEPT ![l] = k] /\ k # NoKey
  BY FoundingAssumption DEF CredentialsInit, Waiting, Joining, accumulators, staged, opened, NoKey
<1>2. \A m : stagedInboxes'[m] # NoKey \/ stagedInboxes'[m] = stagedInboxes[m]
  BY <1>1 DEF TypeOK, InboxesOK
<1>3. stagedInboxes'[l] # NoKey
  BY <1>1 DEF TypeOK, InboxesOK
<1> QED
  BY <1>1, <1>2, <1>3 DEF InboxTravelsWithLeaf, Waiting

LEMMA InboxMigrateStep ==
  ASSUME TypeOK, InboxTravelsWithLeaf, NEW c \in Classes, NEW old \in Leaves, NEW new \in Leaves,
         NEW k \in InboxKeys, Migrate(c, old, new, k)
  PROVE  InboxTravelsWithLeaf'
<1>1. CASE epoch < MaxEpoch
  <2>1. /\ UNCHANGED <<epoch, landed, pending, sessions>>
        /\ stagedInboxes' = [stagedInboxes EXCEPT ![new] = k] /\ k # NoKey
        /\ Joining' = Joining \cup {new}
    BY <1>1, FoundingAssumption, StagedJoins
       DEF Migrate, StageAdmission, accumulators, opened, NoKey
  <2>2. Waiting' = Waiting \cup {new}
    BY <2>1 DEF Waiting
  <2>3. \A m : stagedInboxes'[m] # NoKey \/ stagedInboxes'[m] = stagedInboxes[m]
    BY <2>1 DEF TypeOK, InboxesOK
  <2>4. stagedInboxes'[new] # NoKey
    BY <2>1 DEF TypeOK, InboxesOK
  <2> QED
    BY <2>1, <2>2, <2>3, <2>4 DEF InboxTravelsWithLeaf, Waiting
<1>2. CASE ~(epoch < MaxEpoch)
  BY <1>2 DEF InboxTravelsWithLeaf, Migrate
<1> QED
  BY <1>1, <1>2

LEMMA InboxFinalizeStep ==
  ASSUME TypeOK, InboxTravelsWithLeaf, NEW s \in sessions, VouchFinalize(s)
  PROVE  InboxTravelsWithLeaf'
<1>1. /\ UNCHANGED <<epoch, landed, stagedInboxes>>
      /\ pending' \subseteq pending /\ sessions' \subseteq sessions
  BY DEF VouchFinalize, accumulators
<1>2. Joining' \subseteq Joining \cup {s.candidate}
  <2>1. s.target \in Classes /\ s.candidate \in Leaves
    BY DEF TypeOK, OpenedOK, SessionOK
  <2>2. CASE StageAdmission(s.target, s.candidate, NoLeaf)
    BY <2>1, <2>2, StagedJoins DEF StageAdmission
  <2>3. CASE UNCHANGED stagedAdmissions
    BY <2>3 DEF Joining
  <2> QED
    BY <2>2, <2>3 DEF VouchFinalize
<1>3. Waiting' \subseteq Waiting
  BY <1>1, <1>2 DEF Waiting
<1> QED
  BY <1>1, <1>3, FewerWaiting

LEMMA InboxBoundaryStep ==
  ASSUME TypeOK, InboxTravelsWithLeaf, NEW revoked \in SUBSET Leaves, Boundary(revoked)
  PROVE  InboxTravelsWithLeaf'
<1>1. /\ epoch < MaxEpoch /\ epoch' = epoch + 1 /\ pending' = pending /\ sessions' = {}
      /\ stagedInboxes' = [l \in Leaves |-> IF l \in Joining THEN NoKey ELSE stagedInboxes[l]]
      /\ landed' = [c \in Classes |-> landed[c] \o stagedAdmissions[c]]
      /\ stagedAdmissions' = [c \in Classes |-> << >>]
  BY DEF Boundary, Land, Landing, CarriedInboxes, ExpireOpen
<1>2. Waiting' = pending
  <2>1. Joining' = {}
    BY <1>1 DEF Joining, Range
  <2> QED
    BY <1>1, <2>1 DEF Waiting
<1>3. \A c \in Classes : Range(landed'[c]) = Range(landed[c]) \cup Range(stagedAdmissions[c])
  BY <1>1, RangeOfConcat DEF TypeOK, AccumulatorsOK
<1>4. ASSUME NEW l \in pending
      PROVE  Reachable(l)'
  <2>1. l \in Leaves
    BY DEF TypeOK, OpenedOK
  <2>2. Reachable(l)
    BY <1>1 DEF InboxTravelsWithLeaf, Reachable
  <2>3. CASE l \in Joining
    BY <1>3, <2>3 DEF Joining, Reachable
  <2>4. CASE l \notin Joining
    BY <1>1, <1>3, <2>1, <2>2, <2>4 DEF Reachable
  <2> QED
    BY <2>3, <2>4
<1> QED
  BY <1>2, <1>4 DEF InboxTravelsWithLeaf, Reachable, Waiting

LEMMA InboxTravelsStep ==
  ASSUME TypeOK, InboxTravelsWithLeaf, [Next]_vars
  PROVE  InboxTravelsWithLeaf'
<1> USE DEF Waiting, Joining
<1>1. CASE Exhausted
  <2>1. epoch = MaxEpoch /\ epoch' = epoch /\ MaxEpoch \in Nat
    BY <1>1, BoundAssumption DEF Exhausted
  <2> QED
    BY <2>1 DEF InboxTravelsWithLeaf
<1>2. CASE AdvanceEpoch
  BY <1>1, <1>2, InboxBoundaryStep DEF AdvanceEpoch
<1>3. CASE \E l \in Leaves, k \in InboxKeys : CredentialsInit(l, k)
  BY <1>3, InboxCredentialsStep
<1>4. CASE \E l \in Leaves, k \in InboxKeys : Retire(l, k) \/ Renew(l, k)
  BY <1>4, FewerWaiting DEF Retire, Renew, accumulators, staged, opened
<1>5. CASE \E l \in Leaves, c \in Classes : StartVouch(l, c)
  <2>1. PICK l \in Leaves, c \in Classes : StartVouch(l, c)
    BY <1>5
  <2>2. l \in pending /\ UNCHANGED <<epoch, landed, stagedInboxes, pending, stagedAdmissions>>
    BY <2>1 DEF StartVouch, accumulators, staged
  <2>3. \A s \in sessions' : s \in sessions \/ s.candidate = l
    BY <2>1 DEF StartVouch
  <2> QED
    BY <2>2, <2>3, FewerWaiting
<1>6. CASE \E s \in sessions, l \in Leaves : VouchAttest(s, l)
  <2>1. PICK s \in sessions, l \in Leaves : VouchAttest(s, l)
    BY <1>6
  <2>2. UNCHANGED <<epoch, landed, stagedInboxes, pending, stagedAdmissions>>
    BY <2>1 DEF VouchAttest, accumulators, staged
  <2>3. \A t \in sessions' : t \in sessions \/ t.candidate = s.candidate
    BY <2>1 DEF VouchAttest, TypeOK, OpenedOK, SessionOK
  <2> QED
    BY <2>2, <2>3, FewerWaiting
<1>7. CASE \E s \in sessions : VouchFinalize(s)
  BY <1>7, InboxFinalizeStep
<1>8. CASE \E c \in Classes, old, new \in Leaves, k \in InboxKeys : Migrate(c, old, new, k)
  BY <1>8, InboxMigrateStep
<1>9. CASE \E d \in Decisions, c \in Classes : Propose(d, c)
  BY <1>9, FewerWaiting DEF Propose, accumulators, staged
<1>10. CASE \E p \in proposals, l \in Leaves : Approve(p, l)
  BY <1>10, FewerWaiting DEF Approve, accumulators, staged
<1>11. CASE \E p \in proposals : ExecutePolicy(p) \/ ExecuteHorizon(p)
  BY <1>11, FewerWaiting DEF ExecutePolicy, ExecuteHorizon, accumulators, staged
<1>12. CASE \E p \in proposals : ExecuteRevocation(p)
  <2>1. PICK p \in proposals : ExecuteRevocation(p)
    BY <1>12
  <2>2. {p.decision.leaf} \in SUBSET Leaves
    BY <2>1, DecisionAssumption DEF TypeOK, OpenedOK, ProposalOK, ExecuteRevocation
  <2> QED
    BY <1>1, <2>1, <2>2, InboxBoundaryStep DEF ExecuteRevocation
<1>13. CASE \E p \in proposals : ExecuteDissolution(p)
  <2>1. Waiting' = {} /\ UNCHANGED <<epoch, landed, stagedInboxes>>
    BY <1>13 DEF ExecuteDissolution, Range, accumulators
  <2> QED
    BY <2>1, FewerWaiting
<1>14. CASE IssueChallenge
  BY <1>14, FewerWaiting DEF IssueChallenge, accumulators, staged
<1>15. CASE \E ch \in challenges, c \in Classes, l \in Leaves : RedeemAccess(ch, c, l)
  BY <1>15, FewerWaiting DEF RedeemAccess, accumulators, staged
<1>16. CASE UNCHANGED vars
  BY <1>16, FewerWaiting DEF vars, accumulators, staged, opened
<1> QED
  BY <1>2, <1>3, <1>4, <1>5, <1>6, <1>7, <1>8, <1>9, <1>10, <1>11, <1>12, <1>13, <1>14, <1>15,
     <1>16 DEF Next

(* A candidate's inbox key travels with its leaf, through sessions,        *)
(* refused finalizes, migrations and boundaries, until the leaf lands.     *)
THEOREM InboxesTravel == Spec => []InboxTravelsWithLeaf
<1>1. Init => InboxTravelsWithLeaf
  BY DEF Init, InboxTravelsWithLeaf, Joining, Range
<1>2. TypeOK /\ InboxTravelsWithLeaf /\ [Next]_vars => InboxTravelsWithLeaf'
  BY InboxTravelsStep
<1> QED
  BY <1>1, <1>2, TypeCorrect, PTL DEF Spec

-------------------------------------------------------------------------------
(* Migration.                                                              *)

(* An acknowledged migration has spent its leaf, or is about to.           *)
SpentAs(r) ==
  IF r.active_from <= epoch THEN MigrationSpend(r.from) \in spends
                            ELSE dissolved \/ MigrationSpend(r.from) \in stagedSpends

SpendsCover == \A r \in receipts : r.from # NoLeaf => SpentAs(r)

SpentOnce == \A r, q \in receipts : r.from # NoLeaf /\ q.from = r.from => q = r

(* Who would have standing after the next boundary, were it not to revoke. *)
Prospects(c) ==
  {l \in Range(Held(c)) :
     RevocationKey(l) \notin revocations /\ MigrationSpend(l) \notin spends \cup stagedSpends}

Vouched(c) == {r \in receipts : r.class = c /\ r.from = NoLeaf}

Founders(c) == Cardinality({i \in DOMAIN FounderClasses : FounderClasses[i] = c})

Admitted(c) == Founders(c) + Cardinality(Vouched(c))

(* The strengthening of the count: those with standing are accounted for   *)
(* by the admissions, and so are those who will have it.                   *)
Counted ==
  /\ IsFiniteSet(receipts)
  /\ \A c \in Classes : Cardinality(Standing(epoch, c)) <= Admitted(c)
  /\ Live /\ epoch < MaxEpoch => \A c \in Classes : Cardinality(Prospects(c)) <= Admitted(c)

MigrationInv == SpendsCover /\ SpentOnce /\ Counted

LEMMA RangeFinite ==
  ASSUME NEW S, NEW s \in Seq(S)
  PROVE  IsFiniteSet(Range(s))
<1>1. s \in Surjection(1..Len(s), Range(s))
  BY DEF Surjection, Range
<1>2. IsFiniteSet(1..Len(s))
  BY FS_Interval
<1> QED
  BY <1>1, <1>2, FS_Surjection

LEMMA CountsAreNumbers ==
  TypeOK /\ RootsFixedThisEpoch /\ IsFiniteSet(receipts) =>
    \A c \in Classes :
      /\ IsFiniteSet(Standing(epoch, c)) /\ IsFiniteSet(Prospects(c)) /\ IsFiniteSet(Vouched(c))
      /\ Founders(c) \in Nat /\ Cardinality(Vouched(c)) \in Nat
      /\ Cardinality(Standing(epoch, c)) \in Nat /\ Cardinality(Prospects(c)) \in Nat
      /\ landed[c] \in Seq(Leaves) /\ Held(c) \in Seq(Leaves)
<1> SUFFICES ASSUME TypeOK, RootsFixedThisEpoch, IsFiniteSet(receipts), NEW c \in Classes
             PROVE  /\ IsFiniteSet(Standing(epoch, c)) /\ IsFiniteSet(Prospects(c))
                    /\ IsFiniteSet(Vouched(c)) /\ Founders(c) \in Nat
                    /\ landed[c] \in Seq(Leaves) /\ Held(c) \in Seq(Leaves)
  BY FS_CardinalityType
<1>1. landed[c] \in Seq(Leaves) /\ Held(c) \in Seq(Leaves)
  BY DEF TypeOK, AccumulatorsOK, Held
<1>2. IsFiniteSet(Range(landed[c])) /\ IsFiniteSet(Range(Held(c)))
  BY <1>1, RangeFinite
<1>3. Standing(epoch, c) \subseteq Range(landed[c])
  BY StandingNow
<1>4. Prospects(c) \subseteq Range(Held(c)) /\ Vouched(c) \subseteq receipts
  BY DEF Prospects, Vouched
<1>5. Founders(c) \in Nat
  <2>1. IsFiniteSet(DOMAIN FounderClasses)
    BY FoundingAssumption, FS_Interval
  <2> QED
    BY <2>1, FS_Subset, FS_CardinalityType DEF Founders
<1> QED
  BY <1>1, <1>2, <1>3, <1>4, <1>5, FS_Subset

LEMMA CountsAreNumbersNext ==
  TypeOK' /\ RootsFixedThisEpoch' /\ IsFiniteSet(receipts)' =>
    (\A c \in Classes :
      /\ IsFiniteSet(Standing(epoch, c)) /\ IsFiniteSet(Prospects(c)) /\ IsFiniteSet(Vouched(c))
      /\ Founders(c) \in Nat /\ Cardinality(Vouched(c)) \in Nat
      /\ Cardinality(Standing(epoch, c)) \in Nat /\ Cardinality(Prospects(c)) \in Nat
      /\ landed[c] \in Seq(Leaves) /\ Held(c) \in Seq(Leaves))'
BY CountsAreNumbers, PTL

LEMMA MigrationInit ==
  ASSUME Init, TypeOK, RootsFixedThisEpoch
  PROVE  MigrationInv
<1>1. receipts = {} /\ IsFiniteSet(receipts)
  BY FS_EmptySet DEF Init
<1>2. ASSUME NEW c \in Classes
      PROVE  /\ Cardinality(Standing(epoch, c)) <= Admitted(c)
             /\ Cardinality(Prospects(c)) <= Admitted(c)
  <2>1. FounderLeaves(c) \in Seq(Leaves)
    BY FounderLeavesType
  <2>2. landed[c] = FounderLeaves(c) /\ Held(c) = FounderLeaves(c)
    BY <2>1, ConcatEmptySeq DEF Init, Held
  <2>3. /\ Standing(epoch, c) \subseteq Range(FounderLeaves(c))
        /\ Prospects(c) \subseteq Range(FounderLeaves(c))
    BY <2>2, StandingNow DEF Prospects
  <2>4. /\ Founders(c) \in Nat
        /\ Cardinality(Standing(epoch, c)) \in Nat /\ Cardinality(Prospects(c)) \in Nat
    BY <1>1, CountsAreNumbers
  <2>5. Cardinality(Vouched(c)) = 0
    BY <1>1, FS_EmptySet DEF Vouched
  <2>6. FounderLeaves(c) = [i \in 1..Founders(c) |-> Founder]
    BY DEF FounderLeaves, Founders
  <2>7. Cardinality(Range(FounderLeaves(c))) <= Founders(c)
    <3>1. FounderLeaves(c) \in Surjection(1..Founders(c), Range(FounderLeaves(c)))
      BY <2>4, <2>6 DEF Surjection, Range
    <3>2. IsFiniteSet(1..Founders(c)) /\ Cardinality(1..Founders(c)) = Founders(c)
      BY <2>4, FS_Interval
    <3> QED
      BY <3>1, <3>2, FS_Surjection
  <2>8. IsFiniteSet(Range(FounderLeaves(c))) /\ Cardinality(Range(FounderLeaves(c))) \in Nat
    BY <2>1, RangeFinite, FS_CardinalityType
  <2>9. /\ Cardinality(Standing(epoch, c)) <= Cardinality(Range(FounderLeaves(c)))
        /\ Cardinality(Prospects(c)) <= Cardinality(Range(FounderLeaves(c)))
    BY <2>3, <2>8, FS_Subset
  <2> QED
    BY <2>4, <2>5, <2>7, <2>8, <2>9 DEF Admitted
<1> QED
  BY <1>1, <1>2 DEF MigrationInv, SpendsCover, SpentOnce, Counted

(* Nothing that is counted changed.                                        *)
LEMMA MigrationQuietStep ==
  ASSUME MigrationInv, UNCHANGED <<Membered, stagedAdmissions, stagedSpends, receipts>>
  PROVE  MigrationInv'
<1>1. /\ \A c : Standing(epoch, c)' = Standing(epoch, c)
      /\ \A c : Prospects(c)' = Prospects(c) /\ Admitted(c)' = Admitted(c)
  BY DEF Membered, Standing, ChainHolds, Prospects, Held, Admitted, Vouched
<1>2. Counted'
  BY <1>1 DEF MigrationInv, Counted, Live, Membered
<1>3. SpendsCover' /\ SpentOnce'
  BY DEF MigrationInv, SpendsCover, SpentOnce, SpentAs, Membered
<1> QED
  BY <1>2, <1>3 DEF MigrationInv

(* The staging is lost, at the last epoch or with the agora itself.        *)
LEMMA MigrationEmptiedStep ==
  ASSUME TypeOK, MigrationInv,
         UNCHANGED <<epoch, landed, revocations, spends, history, receipts>>,
         dissolved' = TRUE \/ (epoch = MaxEpoch /\ dissolved' = dissolved)
  PROVE  MigrationInv'
<1>1. \A c : Standing(epoch, c)' = Standing(epoch, c) /\ Admitted(c)' = Admitted(c)
  BY DEF Standing, ChainHolds, Admitted, Vouched
<1>2. ~(Live' /\ epoch' < MaxEpoch)
  BY BoundAssumption DEF Live
<1>3. Counted'
  BY <1>1, <1>2 DEF MigrationInv, Counted
<1>4. \A r \in receipts : r.from # NoLeaf => SpentAs(r)'
  <2> TAKE r \in receipts
  <2>1. r.active_from \in Nat /\ r.active_from <= MaxEpoch
    BY ReceiptType, BoundAssumption DEF Epochs
  <2>2. r.from # NoLeaf => SpentAs(r)
    BY DEF MigrationInv, SpendsCover
  <2> QED
    BY <2>1, <2>2, BoundAssumption DEF SpentAs
<1>5. SpendsCover' /\ SpentOnce'
  BY <1>4 DEF MigrationInv, SpendsCover, SpentOnce
<1> QED
  BY <1>3, <1>5 DEF MigrationInv

(* The boundary gives standing to those who were to have it, less the      *)
(* revoked.                                                                *)
LEMMA MigrationBoundaryStep ==
  ASSUME TypeOK, TypeOK', RootsFixedThisEpoch, RootsFixedThisEpoch', ReceiptsHonoured,
         MigrationInv, Live, NEW revoked \in SUBSET Leaves, Boundary(revoked)
  PROVE  MigrationInv'
<1>1. /\ epoch < MaxEpoch /\ epoch' = epoch + 1 /\ UNCHANGED <<receipts, dissolved>>
      /\ spends' = spends \cup stagedSpends /\ stagedSpends' = {}
      /\ revocations \subseteq revocations'
  BY DEF Boundary, Exclude
<1>2. ASSUME NEW c \in Classes
      PROVE  /\ Standing(epoch, c)' \subseteq Prospects(c) /\ Prospects(c)' \subseteq Prospects(c)
             /\ Cardinality(Prospects(c)) <= Admitted(c) /\ Admitted(c)' = Admitted(c)
  <2>1. landed'[c] = Held(c) /\ stagedAdmissions'[c] = << >> /\ Held(c) \in Seq(Leaves)
    BY DEF Boundary, Land, Landing, Held, TypeOK, AccumulatorsOK
  <2>2. Held(c)' = Held(c)
    BY <2>1, ConcatEmptySeq DEF Held
  <2>3. Standing(epoch, c)' = Range(Held(c)) \ Gone'
    BY <2>1, StandingNext
  <2>4. Range(Held(c)) \subseteq Leaves
    BY <2>1 DEF Range
  <2>5. Standing(epoch, c)' \subseteq Prospects(c)
    BY <1>1, <2>3, <2>4 DEF Gone, Prospects
  <2>6. Prospects(c)' \subseteq Prospects(c)
    BY <1>1, <2>2 DEF Prospects
  <2> QED
    BY <1>1, <2>5, <2>6 DEF MigrationInv, Counted, Admitted, Vouched
<1>3. Counted'
  <2> SUFFICES ASSUME NEW c \in Classes
               PROVE  /\ (Cardinality(Standing(epoch, c)) <= Admitted(c))'
                      /\ (Cardinality(Prospects(c)) <= Admitted(c))'
    BY <1>1 DEF MigrationInv, Counted
  <2>1. /\ IsFiniteSet(Prospects(c)) /\ Cardinality(Prospects(c)) \in Nat /\ Admitted(c) \in Nat
    BY CountsAreNumbers DEF MigrationInv, Counted, Admitted
  <2>2. Cardinality(Standing(epoch, c)') \in Nat /\ Cardinality(Prospects(c)') \in Nat
    BY <1>1, CountsAreNumbersNext DEF MigrationInv, Counted
  <2>3. /\ Cardinality(Standing(epoch, c)') <= Cardinality(Prospects(c))
        /\ Cardinality(Prospects(c)') <= Cardinality(Prospects(c))
    BY <1>2, <2>1, FS_Subset
  <2> QED
    BY <1>2, <2>1, <2>2, <2>3
<1>4. SpendsCover'
  <2> SUFFICES ASSUME NEW r \in receipts, r.from # NoLeaf
               PROVE  SpentAs(r)'
    BY <1>1 DEF SpendsCover
  <2>1. SpentAs(r) /\ AwaitsItsPlace(r)
    BY ReceiptsInParts DEF MigrationInv, SpendsCover
  <2>2. r.active_from \in Nat /\ epoch \in Nat
    BY ReceiptType
  <2>3. r.active_from <= epoch + 1
    BY <2>1, <2>2 DEF AwaitsItsPlace, Live
  <2>4. MigrationSpend(r.from) \in spends \cup stagedSpends
    BY <2>1 DEF SpentAs, Live
  <2> QED
    BY <1>1, <2>3, <2>4 DEF SpentAs
<1>5. SpentOnce'
  BY <1>1 DEF MigrationInv, SpentOnce
<1> QED
  BY <1>3, <1>4, <1>5 DEF MigrationInv

(* No receipt was handed out for this place before.                        *)
LEMMA AdmissionIsNew ==
  ASSUME TypeOK, ReceiptsHonoured, Live, NEW c \in Classes, NEW l \in Leaves,
         NEW from \in Leaves \cup {NoLeaf}
  PROVE  Admission(c, l, from) \notin receipts
<1> SUFFICES ASSUME NEW r \in receipts, r = Admission(c, l, from)
             PROVE  FALSE
  OBVIOUS
<1>1. /\ r.class = c /\ r.leaf = l /\ r.active_from = epoch + 1
      /\ r.position = PositionOf(Len(landed[c]) + Len(stagedAdmissions[c]) + 1)
  BY DEF Admission
<1>2. landed[c] \in Seq(Leaves) /\ stagedAdmissions[c] \in Seq(Leaves)
  BY DEF TypeOK, AccumulatorsOK
<1>3. Len(Held(c)) = Len(landed[c]) + Len(stagedAdmissions[c]) /\ Len(Held(c)) \in Nat
  BY <1>2, ConcatProperties, LenProperties DEF Held
<1>4. Index(r) = Len(Held(c)) + 1
  <2>1. \A n \in Nat : (2 * ((n + 1) - 1)) \div 2 + 1 = n + 1
    OBVIOUS
  <2> QED
    BY <1>1, <1>3, <2>1 DEF Index, PositionOf
<1>5. AwaitsItsPlace(r) /\ epoch \in Nat
  BY ReceiptsInParts, ReceiptType
<1>6. At(Held(c), Index(r), l)
  BY <1>1, <1>5 DEF AwaitsItsPlace, Live
<1>7. Len(Held(c)) + 1 <= Len(Held(c))
  BY <1>4, <1>6 DEF At
<1>8. \A n \in Nat : ~(n + 1 <= n)
  OBVIOUS
<1> QED
  BY <1>3, <1>7, <1>8, Zenon

(* Staging a leaf makes it the one new prospect.                           *)
LEMMA StagedHeld ==
  ASSUME TypeOK, NEW c \in Classes, NEW l \in Leaves, landed' = landed,
         stagedAdmissions' = [stagedAdmissions EXCEPT ![c] = Append(@, l)]
  PROVE  \A d \in Classes :
           Range(Held(d))' = IF d = c THEN Range(Held(d)) \cup {l} ELSE Range(Held(d))
<1>1. \A d \in Classes : landed[d] \in Seq(Leaves) /\ stagedAdmissions[d] \in Seq(Leaves)
  BY DEF TypeOK, AccumulatorsOK
<1>2. \A d \in Classes :
        stagedAdmissions'[d] = IF d = c THEN Append(stagedAdmissions[d], l) ELSE stagedAdmissions[d]
  BY DEF TypeOK, AccumulatorsOK
<1>3. \A s, t \in Seq(Leaves) : /\ Range(s \o t) = Range(s) \cup Range(t)
                                /\ Range(Append(t, l)) = Range(t) \cup {l}
                                /\ Append(t, l) \in Seq(Leaves)
  <2> TAKE s, t \in Seq(Leaves)
  <2>1. Range(s \o t) = Range(s) \cup Range(t)
    BY RangeOfConcat
  <2>2. /\ DOMAIN Append(t, l) = 1..(Len(t) + 1) /\ DOMAIN t = 1..Len(t) /\ Len(t) \in Nat
        /\ \A i \in 1..Len(t) : Append(t, l)[i] = t[i]
        /\ Append(t, l)[Len(t) + 1] = l
    BY AppendProperties
  <2>3. Range(Append(t, l)) = Range(t) \cup {l}
    BY <2>2 DEF Range
  <2> QED
    BY <2>1, <2>3
<1> TAKE d \in Classes
<1>4. CASE d = c
  <2>1. Range(Held(d))' = Range(landed[d] \o Append(stagedAdmissions[d], l))
    BY <1>2, <1>4 DEF Held
  <2>2. Range(Held(d))' = Range(landed[d]) \cup (Range(stagedAdmissions[d]) \cup {l})
    <3>1. /\ landed[d] \in Seq(Leaves) /\ stagedAdmissions[d] \in Seq(Leaves)
          /\ Append(stagedAdmissions[d], l) \in Seq(Leaves)
      BY <1>1
    <3>2. Range(landed[d] \o Append(stagedAdmissions[d], l))
            = Range(landed[d]) \cup Range(Append(stagedAdmissions[d], l))
      BY <3>1, RangeOfConcat
    <3>3. Range(Append(stagedAdmissions[d], l)) = Range(stagedAdmissions[d]) \cup {l}
      BY <1>3, <3>1
    <3> QED
      BY <2>1, <3>2, <3>3
  <2>3. Range(Held(d)) = Range(landed[d]) \cup Range(stagedAdmissions[d])
    BY <1>1, <1>3 DEF Held
  <2> QED
    BY <1>4, <2>2, <2>3
<1>5. CASE d # c
  BY <1>2, <1>5 DEF Held
<1> QED
  BY <1>4, <1>5

(* A refused acknowledgement, in the last epoch, counts for nothing.       *)
LEMMA MigrationLastEpochStep ==
  ASSUME TypeOK, MigrationInv, UNCHANGED <<Membered, stagedSpends, receipts>>, ~(epoch < MaxEpoch)
  PROVE  MigrationInv'
<1>1. \A c : Standing(epoch, c)' = Standing(epoch, c) /\ Admitted(c)' = Admitted(c)
  BY DEF Membered, Standing, ChainHolds, Admitted, Vouched
<1>2. Counted'
  BY <1>1 DEF MigrationInv, Counted, Membered
<1>3. SpendsCover' /\ SpentOnce'
  BY DEF MigrationInv, SpendsCover, SpentOnce, SpentAs, Membered
<1> QED
  BY <1>2, <1>3 DEF MigrationInv

(* A vouched admission adds a prospect, and a receipt to account for it.   *)
LEMMA MigrationVouchedStep ==
  ASSUME TypeOK, TypeOK', RootsFixedThisEpoch, RootsFixedThisEpoch', ReceiptsHonoured,
         MigrationInv, Live, UNCHANGED <<Membered, stagedSpends>>,
         NEW c \in Classes, NEW l \in Leaves, StageAdmission(c, l, NoLeaf)
  PROVE  MigrationInv'
<1>1. CASE ~(epoch < MaxEpoch)
  BY <1>1, MigrationLastEpochStep DEF StageAdmission, Acknowledged
<1>2. CASE epoch < MaxEpoch
  <2> DEFINE a == Admission(c, l, NoLeaf)
  <2>1. /\ receipts' = receipts \cup {a} /\ a \notin receipts
        /\ a.class = c /\ a.from = NoLeaf
    BY <1>2, AdmissionIsNew DEF StageAdmission, Acknowledged, Admission
  <2> HIDE DEF a
  <2>2. \A d \in Classes :
          Range(Held(d))' = IF d = c THEN Range(Held(d)) \cup {l} ELSE Range(Held(d))
    BY StagedHeld DEF StageAdmission, Membered
  <2>3. IsFiniteSet(receipts) /\ IsFiniteSet(receipts)'
    BY <2>1, FS_AddElement DEF MigrationInv, Counted
  <2>4. ASSUME NEW d \in Classes
        PROVE  /\ Admitted(d) \in Nat /\ Admitted(d)' \in Nat
               /\ Admitted(d)' = IF d = c THEN Admitted(d) + 1 ELSE Admitted(d)
    <3>1. /\ Founders(d) \in Nat /\ IsFiniteSet(Vouched(d))
          /\ Cardinality(Vouched(d)) \in Nat /\ Founders(d)' = Founders(d)
      BY <2>3, CountsAreNumbers DEF Founders
    <3>2. CASE d = c
      <4>1. Vouched(d)' = Vouched(d) \cup {a} /\ a \notin Vouched(d)
        BY <2>1, <3>2 DEF Vouched
      <4>2. Cardinality(Vouched(d)') = Cardinality(Vouched(d)) + 1
        BY <3>1, <4>1, FS_AddElement
      <4> QED
        BY <3>1, <3>2, <4>2 DEF Admitted
    <3>3. CASE d # c
      <4>1. Vouched(d)' = Vouched(d)
        BY <2>1, <3>3 DEF Vouched
      <4> QED
        BY <3>1, <3>3, <4>1 DEF Admitted
    <3> QED
      BY <3>2, <3>3
  <2>5. ASSUME NEW d \in Classes
        PROVE  Cardinality(Standing(epoch, d)') <= Admitted(d)'
    <3>1. Standing(epoch, d)' = Standing(epoch, d) /\ Cardinality(Standing(epoch, d)) \in Nat
      BY <2>3, CountsAreNumbers DEF Membered, Standing, ChainHolds
    <3>2. Cardinality(Standing(epoch, d)) <= Admitted(d)
      BY DEF MigrationInv, Counted
    <3> QED
      BY <2>4, <3>1, <3>2
  <2>6. ASSUME NEW d \in Classes
        PROVE  Cardinality(Prospects(d)') <= Admitted(d)'
    <3>1. /\ IsFiniteSet(Prospects(d)) /\ Cardinality(Prospects(d)) \in Nat
          /\ Cardinality(Prospects(d)') \in Nat
      BY <2>3, CountsAreNumbers, CountsAreNumbersNext
    <3>2. Cardinality(Prospects(d)) <= Admitted(d)
      BY <1>2 DEF MigrationInv, Counted
    <3>3. CASE d = c
      <4>1. Prospects(d)' \subseteq Prospects(d) \cup {l}
        BY <2>2, <3>3 DEF Prospects, Membered
      <4>2. /\ IsFiniteSet(Prospects(d) \cup {l})
            /\ Cardinality(Prospects(d) \cup {l}) \in Nat
            /\ Cardinality(Prospects(d) \cup {l}) <= Cardinality(Prospects(d)) + 1
        BY <3>1, FS_AddElement
      <4>3. Cardinality(Prospects(d)') <= Cardinality(Prospects(d) \cup {l})
        BY <4>1, <4>2, FS_Subset
      <4> QED
        BY <2>4, <3>1, <3>2, <3>3, <4>2, <4>3
    <3>4. CASE d # c
      <4>1. Prospects(d)' = Prospects(d)
        BY <2>2, <3>4 DEF Prospects, Membered
      <4> QED
        BY <2>4, <3>2, <3>4, <4>1
    <3> QED
      BY <3>3, <3>4
  <2>7. Counted'
    BY <2>3, <2>5, <2>6 DEF Counted
  <2>8. SpendsCover' /\ SpentOnce'
    <3>1. UNCHANGED <<epoch, dissolved, spends, stagedSpends>>
      BY DEF Membered
    <3> QED
      BY <2>1, <3>1 DEF MigrationInv, SpendsCover, SpentOnce, SpentAs
  <2> QED
    BY <2>7, <2>8 DEF MigrationInv
<1> QED
  BY <1>1, <1>2

(* A migration exchanges one prospect for another.                         *)
LEMMA MigrationMigrateStep ==
  ASSUME TypeOK, TypeOK', RootsFixedThisEpoch, RootsFixedThisEpoch', ReceiptsHonoured,
         MigrationInv, NEW c \in Classes, NEW old \in Leaves, NEW new \in Leaves,
         NEW k \in InboxKeys, Migrate(c, old, new, k)
  PROVE  MigrationInv'
<1>1. /\ Live /\ StageAdmission(c, new, old) /\ UNCHANGED Membered
      /\ old # NoLeaf /\ MigrationSpend(old) \notin spends \cup stagedSpends
  BY FoundingAssumption DEF Migrate, accumulators, Membered, NoLeaf, SpendIsFresh
<1>2. CASE ~(epoch < MaxEpoch)
  BY <1>1, <1>2, MigrationLastEpochStep DEF Migrate, StageAdmission, Acknowledged
<1>3. CASE epoch < MaxEpoch
  <2>0. PICK a : a = Admission(c, new, old)
    OBVIOUS
  <2>1. /\ receipts' = receipts \cup {a} /\ stagedSpends' = stagedSpends \cup {MigrationSpend(old)}
        /\ a.from = old /\ a.active_from = epoch + 1
    BY <1>1, <1>3, <2>0 DEF StageAdmission, Acknowledged, Admission, Migrate
  <2>2. \A d \in Classes :
          Range(Held(d))' = IF d = c THEN Range(Held(d)) \cup {new} ELSE Range(Held(d))
    BY <1>1, StagedHeld DEF StageAdmission, Membered
  <2>3. IsFiniteSet(receipts) /\ IsFiniteSet(receipts)'
    BY <2>1, FS_AddElement DEF MigrationInv, Counted
  <2>4. ASSUME NEW d \in Classes
        PROVE  Admitted(d) \in Nat /\ Admitted(d)' = Admitted(d)
    <3>1. Vouched(d)' = Vouched(d)
      BY <1>1, <2>1 DEF Vouched
    <3>2. Founders(d) \in Nat /\ Cardinality(Vouched(d)) \in Nat /\ Founders(d)' = Founders(d)
      BY <2>3, CountsAreNumbers DEF Founders
    <3> QED
      BY <3>1, <3>2 DEF Admitted
  <2>5. ASSUME NEW d \in Classes
        PROVE  Cardinality(Standing(epoch, d)') <= Admitted(d)'
    <3>1. Standing(epoch, d)' = Standing(epoch, d)
      BY <1>1 DEF Membered, Standing, ChainHolds
    <3> QED
      BY <2>4, <3>1 DEF MigrationInv, Counted
  <2>6. ASSUME NEW d \in Classes
        PROVE  Cardinality(Prospects(d)') <= Admitted(d)'
    <3>1. /\ IsFiniteSet(Prospects(d)) /\ Cardinality(Prospects(d)) \in Nat
          /\ Cardinality(Prospects(d)') \in Nat
      BY <2>3, CountsAreNumbers, CountsAreNumbersNext
    <3>2. Cardinality(Prospects(d)) <= Admitted(d)
      BY <1>1, <1>3 DEF MigrationInv, Counted
    <3>3. CASE d = c
      <4>1. old \in Prospects(d)
        <5>1. /\ old \in Range(history[epoch].classes[c])
              /\ RevocationKey(old) \notin history[epoch].revocation
          BY DEF Migrate, MigrationHolds
        <5>2. old \in Range(landed[c]) /\ RevocationKey(old) \notin revocations
          BY <5>1 DEF RootsFixedThisEpoch, NewSnapshot
        <5>3. Range(landed[c]) \subseteq Range(Held(c))
          <6>1. landed[c] \in Seq(Leaves) /\ stagedAdmissions[c] \in Seq(Leaves)
            BY DEF TypeOK, AccumulatorsOK
          <6> QED
            BY <6>1, RangeOfConcat DEF Held
        <5> QED
          BY <1>1, <3>3, <5>2, <5>3 DEF Prospects
      <4>2. Prospects(d)' \subseteq (Prospects(d) \ {old}) \cup {new}
        <5>1. revocations' = revocations /\ spends' = spends
          BY <1>1 DEF Membered
        <5>2. MigrationSpend(old) \in stagedSpends' /\ stagedSpends \subseteq stagedSpends'
          BY <2>1
        <5>3. Range(Held(d))' = Range(Held(d)) \cup {new}
          BY <2>2, <3>3
        <5> QED
          BY <5>1, <5>2, <5>3 DEF Prospects
      <4> DEFINE T == Prospects(d) \ {old}
      <4>3. IsFiniteSet(T) /\ Cardinality(T) = Cardinality(Prospects(d)) - 1
        BY <3>1, <4>1, FS_RemoveElement
      <4>4. Prospects(d)' \subseteq T \cup {new}
        BY <4>2
      <4> HIDE DEF T
      <4>5. /\ IsFiniteSet(T \cup {new})
            /\ Cardinality(T \cup {new}) = IF new \in T THEN Cardinality(T) ELSE Cardinality(T) + 1
        BY <4>3, FS_AddElement
      <4>6. /\ Cardinality(T \cup {new}) \in Nat
            /\ Cardinality(Prospects(d)') <= Cardinality(T \cup {new})
        BY <4>4, <4>5, FS_Subset, FS_CardinalityType
      <4> QED
        BY <2>4, <3>1, <3>2, <4>3, <4>5, <4>6
    <3>4. CASE d # c
      <4>1. Prospects(d)' \subseteq Prospects(d)
        BY <1>1, <2>1, <2>2, <3>4 DEF Prospects, Membered
      <4>2. Cardinality(Prospects(d)') <= Cardinality(Prospects(d))
        BY <3>1, <4>1, FS_Subset
      <4> QED
        BY <2>4, <3>1, <3>2, <4>2
    <3> QED
      BY <3>3, <3>4
  <2>7. Counted'
    BY <2>3, <2>5, <2>6 DEF Counted
  <2>8. SpendsCover'
    <3>1. UNCHANGED <<epoch, dissolved, spends>> /\ epoch \in Nat
      BY <1>1, BoundAssumption DEF Membered, TypeOK, ScalarsOK, Epochs
    <3>2. a.from # NoLeaf => SpentAs(a)'
      BY <2>1, <3>1 DEF SpentAs
    <3>3. \A r \in receipts : r.from # NoLeaf => SpentAs(r)'
      BY <2>1, <3>1 DEF MigrationInv, SpendsCover, SpentAs
    <3> QED
      BY <2>1, <3>2, <3>3 DEF SpendsCover
  <2>9. SpentOnce'
    <3>1. \A r \in receipts : r.from # old
      BY <1>1 DEF MigrationInv, SpendsCover, SpentAs, Live
    <3> QED
      BY <2>1, <3>1 DEF MigrationInv, SpentOnce
  <2> QED
    BY <2>7, <2>8, <2>9 DEF MigrationInv
<1> QED
  BY <1>2, <1>3

LEMMA MigrationStep ==
  ASSUME TypeOK, TypeOK', RootsFixedThisEpoch, RootsFixedThisEpoch', ReceiptsHonoured,
         MigrationInv, [Next]_vars
  PROVE  MigrationInv'
<1>1. CASE UNCHANGED <<Membered, stagedAdmissions, stagedSpends, receipts>>
  BY <1>1, MigrationQuietStep
<1>2. CASE Live /\ \E revoked \in {{}} \cup {{l} : l \in Leaves} : Boundary(revoked)
  <2>1. \A revoked \in {{}} \cup {{l} : l \in Leaves} : revoked \in SUBSET Leaves
    OBVIOUS
  <2> QED
    BY <1>2, <2>1, MigrationBoundaryStep
<1>3. CASE Live /\ Exhausted
  BY <1>3, MigrationEmptiedStep DEF Exhausted, accumulators
<1>4. CASE /\ Live /\ dissolved' = TRUE
           /\ StagingEmptied /\ stagedSpends' = {}
           /\ UNCHANGED <<epoch, landed, revocations, spends, history, receipts>>
  BY <1>4, MigrationEmptiedStep
<1>5. CASE /\ Live /\ UNCHANGED <<Membered, stagedSpends>>
           /\ \E c \in Classes, l \in Leaves : StageAdmission(c, l, NoLeaf)
  BY <1>5, MigrationVouchedStep
<1>6. CASE \E c \in Classes, old, new \in Leaves, k \in InboxKeys : Migrate(c, old, new, k)
  BY <1>6, MigrationMigrateStep
<1> QED
  BY <1>1, <1>2, <1>3, <1>4, <1>5, <1>6, MembershipFrame

LEMMA MigrationInvMeans ==
  ASSUME TypeOK, RootsFixedThisEpoch, ReceiptsHonoured, MigrationInv
  PROVE  MigrationNeverInflates
<1>1. ASSUME NEW r \in receipts, r.from # NoLeaf
      PROVE  r.from \notin Standing(epoch, r.class) \/ r.leaf \notin Standing(epoch, r.class)
  <2>1. r.class \in Classes /\ r.active_from \in Nat /\ epoch \in Genesis..epoch /\ epoch \in Nat
    BY ReceiptType
  <2>2. CASE r.active_from <= epoch
    <3>1. MigrationSpend(r.from) \in spends
      BY <1>1, <2>2 DEF MigrationInv, SpendsCover, SpentAs
    <3>2. MigrationSpend(r.from) \in history[epoch].spend
      BY <3>1 DEF RootsFixedThisEpoch, NewSnapshot
    <3> QED
      BY <3>2 DEF Standing, ChainHolds
  <2>3. CASE ~(r.active_from <= epoch)
    <3>1. LandedAsReceipted(r)
      BY ReceiptsInParts
    <3>2. r.leaf \notin Range(history[epoch].classes[r.class])
      BY <2>1, <2>3, <3>1 DEF LandedAsReceipted
    <3> QED
      BY <3>2 DEF Standing, ChainHolds
  <2> QED
    BY <2>2, <2>3
<1>2. OneSuccessorPerLeaf
  BY <1>1 DEF OneSuccessorPerLeaf, MigrationInv, SpentOnce
<1> QED
  BY <1>2 DEF MigrationNeverInflates, MigrationInv, Counted, Admitted, Founders, Vouched

(* Migration carries standing over and never creates it: a leaf has one    *)
(* successor, the two never stand together, and however many migrations    *)
(* are chained a class has no more members than its founder and the        *)
(* admissions it vouched for.                                              *)
THEOREM MigrationConserves == Spec => []MigrationNeverInflates
<1>1. Init /\ TypeOK /\ RootsFixedThisEpoch => MigrationInv
  BY MigrationInit
<1>2. /\ TypeOK /\ TypeOK' /\ RootsFixedThisEpoch /\ RootsFixedThisEpoch' /\ ReceiptsHonoured
      /\ MigrationInv /\ [Next]_vars
      => MigrationInv'
  BY MigrationStep
<1>3. TypeOK /\ RootsFixedThisEpoch /\ ReceiptsHonoured /\ MigrationInv => MigrationNeverInflates
  BY MigrationInvMeans
<1> QED
  BY <1>1, <1>2, <1>3, TypeCorrect, RootsAreFixed, ReceiptsAreHonoured, PTL DEF Spec

-------------------------------------------------------------------------------
(* The refinement: every method that stages is Admit or Supersede, the     *)
(* boundary is Turn, and everything else but a freeze stutters.            *)

LEMMA TurnStep ==
  ASSUME TypeOK, RootsFixedThisEpoch, TypeOK', RootsFixedThisEpoch', Live,
         NEW revoked \in SUBSET Leaves, Boundary(revoked)
  PROVE  Membership!Turn(revoked)
<1>1. ~dissolved /\ epoch < MaxEpoch /\ epoch' = epoch + 1 /\ dissolved' = dissolved
  BY DEF Live, Boundary
<1>2. Gone' = Gone \cup Leaving \cup revoked
  <2>1. /\ revocations' = revocations \cup {RevocationKey(l) : l \in revoked}
        /\ spends' = spends \cup stagedSpends
    BY DEF Boundary, Exclude
  <2>2. \A l \in Leaves : RevocationKey(l) \in {RevocationKey(m) : m \in revoked} <=> l \in revoked
    BY DEF RevocationKey
  <2> QED
    BY <2>1, <2>2 DEF Gone, Leaving
<1>3. \A c \in Classes : Range(landed'[c]) = Range(landed[c]) \cup Range(stagedAdmissions[c])
  <2> TAKE c \in Classes
  <2>1. landed'[c] = landed[c] \o stagedAdmissions[c]
    BY DEF Boundary, Land, Landing
  <2>2. landed[c] \in Seq(Leaves) /\ stagedAdmissions[c] \in Seq(Leaves)
    BY DEF TypeOK, AccumulatorsOK
  <2> QED
    BY <2>1, <2>2, RangeOfConcat
<1>4. \A c \in Classes :
        Standing(epoch, c)' = (Standing(epoch, c) \cup Range(stagedAdmissions[c])) \ Gone'
  <2> TAKE c \in Classes
  <2>1. /\ Standing(epoch, c) = Range(landed[c]) \ Gone
        /\ Standing(epoch, c)' = Range(landed'[c]) \ Gone'
    BY StandingNow, StandingNext
  <2> QED
    BY <1>2, <1>3, <2>1
<1>5. \A c \in Classes : Range(stagedAdmissions'[c]) = {}
  BY DEF Boundary, Land, Range
<1>6. stagedSpends' = {}
  BY DEF Boundary, Exclude
<1> QED
  BY <1>1, <1>2, <1>4, <1>5, <1>6 DEF Membership!Turn, Gone, Leaving

LEMMA EmptiedStep ==
  ASSUME StagingEmptied, stagedSpends' = {}
  PROVE  /\ \A c \in Classes : Range(stagedAdmissions'[c]) = {}
         /\ {l \in Leaves : MigrationSpend(l) \in stagedSpends'} = {}
BY DEF StagingEmptied, Range

LEMMA ExhaustStep ==
  ASSUME Live, Exhausted
  PROVE  Membership!Exhaust
<1>1. /\ ~dissolved /\ epoch = MaxEpoch /\ UNCHANGED <<Membered>>
      /\ StagingEmptied /\ stagedSpends' = {}
  BY DEF Live, Exhausted, accumulators, Membered, StagingEmptied
<1>2. Gone' = Gone /\ \A c : Standing(epoch, c)' = Standing(epoch, c)
  BY <1>1, MembersUnchanged DEF Membered
<1> QED
  BY <1>1, <1>2, EmptiedStep DEF Membership!Exhaust, Gone, Membered

LEMMA FreezeStep ==
  ASSUME Live, dissolved' = TRUE, StagingEmptied, stagedSpends' = {},
         UNCHANGED <<epoch, landed, revocations, spends, history>>
  PROVE  Membership!Freeze
<1>1. Gone' = Gone /\ \A c : Standing(epoch, c)' = Standing(epoch, c)
  BY MembersUnchanged
<1> QED
  BY <1>1, EmptiedStep DEF Membership!Freeze, Gone, Live

LEMMA AdmitStep ==
  ASSUME TypeOK, Live, UNCHANGED <<Membered, stagedSpends>>,
         NEW c \in Classes, NEW l \in Leaves, StageAdmission(c, l, NoLeaf)
  PROVE  Membership!Enrol
<1>1. ~dissolved /\ Gone' = Gone /\ \A d : Standing(epoch, d)' = Standing(epoch, d)
  BY MembersUnchanged DEF Live, Membered
<1>2. /\ l \notin Range(stagedAdmissions[c])
      /\ \A d \in Classes : Range(stagedAdmissions'[d]) =
           IF d = c THEN Range(stagedAdmissions[c]) \cup {l} ELSE Range(stagedAdmissions[d])
  BY StagingJoins
<1>3. Membership!Admit(c, l)
  BY <1>1, <1>2 DEF Membership!Admit, Gone, Membered
<1>4. [d \in Classes |-> Range(stagedAdmissions[d])]' # [d \in Classes |-> Range(stagedAdmissions[d])]
  <2>1. l \in [d \in Classes |-> Range(stagedAdmissions'[d])][c]
    BY <1>2
  <2>2. l \notin [d \in Classes |-> Range(stagedAdmissions[d])][c]
    BY <1>2
  <2> QED
    BY <2>1, <2>2
<1> QED
  BY <1>3, <1>4 DEF Membership!Enrol

LEMMA MigrateStep ==
  ASSUME TypeOK, RootsFixedThisEpoch, NEW c \in Classes, NEW old \in Leaves, NEW new \in Leaves,
         NEW k \in InboxKeys, Migrate(c, old, new, k)
  PROVE  Membership!Enrol
<1>1. /\ Live /\ StageAdmission(c, new, old)
      /\ UNCHANGED <<epoch, dissolved, landed, revocations, spends, history>>
  BY DEF Migrate, accumulators
<1>2. ~dissolved /\ Gone' = Gone /\ \A d : Standing(epoch, d)' = Standing(epoch, d)
  BY <1>1, MembersUnchanged DEF Live
<1>3. /\ new \notin Range(stagedAdmissions[c])
      /\ \A d \in Classes : Range(stagedAdmissions'[d]) =
           IF d = c THEN Range(stagedAdmissions[c]) \cup {new} ELSE Range(stagedAdmissions[d])
  BY <1>1, StagingJoins
<1>4. CASE epoch < MaxEpoch
  <2>1. stagedSpends' = stagedSpends \cup {MigrationSpend(old)}
    BY <1>4 DEF Migrate
  <2>2. Leaving' = Leaving \cup {old}
    <3>1. \A l \in Leaves : MigrationSpend(l) = MigrationSpend(old) <=> l = old
      BY DEF MigrationSpend
    <3> QED
      BY <2>1, <3>1 DEF Leaving
  <2>3. old \in Standing(epoch, c) /\ old \notin Leaving
    <3>1. MigrationSpend(old) \notin spends \cup stagedSpends
      BY DEF Migrate, SpendIsFresh
    <3>2. /\ old \in Range(history[epoch].classes[c])
          /\ RevocationKey(old) \notin history[epoch].revocation
      BY DEF Migrate, MigrationHolds
    <3>3. history[epoch].spend = spends
      BY DEF RootsFixedThisEpoch, NewSnapshot
    <3> QED
      BY <3>1, <3>2, <3>3 DEF Standing, ChainHolds, Leaving
  <2>4. Membership!Supersede(c, old, new)
    BY <1>1, <1>2, <1>3, <1>4, <2>2, <2>3 DEF Membership!Supersede, Gone, Leaving
  <2> QED
    BY <1>3, <2>4 DEF Membership!Enrol
<1>5. CASE ~(epoch < MaxEpoch)
  <2>1. stagedSpends' = stagedSpends
    BY <1>5 DEF Migrate
  <2>2. Membership!Admit(c, new)
    BY <1>1, <1>2, <1>3, <2>1 DEF Membership!Admit, Gone
  <2> QED
    BY <1>3, <2>2 DEF Membership!Enrol
<1> QED
  BY <1>4, <1>5

LEMMA MembershipInit ==
  ASSUME Init, TypeOK, RootsFixedThisEpoch
  PROVE  Membership!Init
<1> DEFINE C == {c \in Classes : Len(FounderLeaves(c)) > 0}
<1>1. \A c \in Classes : Standing(epoch, c) = IF c \in C THEN {Founder} ELSE {}
  <2> TAKE c \in Classes
  <2>1. Standing(epoch, c) = Range(FounderLeaves(c))
    <3>1. Standing(epoch, c) = Range(landed[c]) \ Gone
      BY StandingNow
    <3> QED
      BY <3>1 DEF Init, Gone
  <2>2. /\ FounderLeaves(c) \in Seq(Leaves)
        /\ \A i \in DOMAIN FounderLeaves(c) : FounderLeaves(c)[i] = Founder
    <3>1. FounderLeaves(c) \in Seq(Leaves)
      BY FounderLeavesType
    <3> QED
      BY <3>1 DEF FounderLeaves
  <2>3. CASE Len(FounderLeaves(c)) > 0
    <3>1. 1 \in DOMAIN FounderLeaves(c)
      BY <2>2, <2>3
    <3> QED
      BY <2>1, <2>2, <2>3, <3>1 DEF Range
  <2>4. CASE ~(Len(FounderLeaves(c)) > 0)
    <3>1. DOMAIN FounderLeaves(c) = {}
      BY <2>2, <2>4
    <3> QED
      BY <2>1, <2>4, <3>1 DEF Range
  <2> QED
    BY <2>3, <2>4
<1>2. /\ epoch = Genesis /\ dissolved = FALSE /\ Gone = {} /\ Leaving = {}
      /\ \A c \in Classes : Range(stagedAdmissions[c]) = {}
  BY DEF Init, Gone, Leaving, Range
<1>3. /\ C \in SUBSET Classes /\ Founder \in Leaves
      /\ [c \in Classes |-> Standing(epoch, c)] = [c \in Classes |-> IF c \in C THEN {Founder} ELSE {}]
  BY <1>1, FoundingAssumption
<1> HIDE DEF C
<1> QED
  BY <1>2, <1>3 DEF Membership!Init, Gone, Leaving

LEMMA MembershipStep ==
  ASSUME TypeOK, RootsFixedThisEpoch, TypeOK', RootsFixedThisEpoch', [Next]_vars
  PROVE  [Membership!Next]_(Membership!vars)
<1>1. CASE UNCHANGED <<Membered, stagedAdmissions, stagedSpends, receipts>>
  <2>1. Gone' = Gone /\ \A c : Standing(epoch, c)' = Standing(epoch, c)
    BY <1>1, MembersUnchanged DEF Membered
  <2>2. UNCHANGED Membership!vars
    BY <1>1, <2>1 DEF Membership!vars, Gone, Membered
  <2> QED
    BY <2>2
<1>2. CASE Live /\ \E revoked \in {{}} \cup {{l} : l \in Leaves} : Boundary(revoked)
  <2>1. PICK revoked \in {{}} \cup {{l} : l \in Leaves} : Boundary(revoked)
    BY <1>2
  <2>2. Membership!Turn(revoked)
    BY <1>2, <2>1, TurnStep
  <2> QED
    BY <2>1, <2>2 DEF Membership!Next
<1>3. CASE Live /\ Exhausted
  BY <1>3, ExhaustStep DEF Membership!Next
<1>4. CASE /\ Live /\ dissolved' = TRUE
           /\ StagingEmptied /\ stagedSpends' = {}
           /\ UNCHANGED <<epoch, landed, revocations, spends, history, receipts>>
  BY <1>4, FreezeStep DEF Membership!Next
<1>5. CASE /\ Live /\ UNCHANGED <<Membered, stagedSpends>>
           /\ \E c \in Classes, l \in Leaves : StageAdmission(c, l, NoLeaf)
  BY <1>5, AdmitStep DEF Membership!Next
<1>6. CASE \E c \in Classes, old, new \in Leaves, k \in InboxKeys : Migrate(c, old, new, k)
  BY <1>6, MigrateStep DEF Membership!Next
<1> QED
  BY <1>1, <1>2, <1>3, <1>4, <1>5, <1>6, MembershipFrame

(* The operator implements EpochMembership: sessions, proofs, proposals    *)
(* and logs come down to sets of members that change only at a boundary,   *)
(* where the admitted join and the migrated and revoked leave for ever.    *)
THEOREM OperatorImplementsMembership == Spec => ImplementsMembership
<1>1. Init /\ TypeOK /\ RootsFixedThisEpoch => Membership!Init
  BY MembershipInit
<1>2. /\ TypeOK /\ RootsFixedThisEpoch /\ TypeOK' /\ RootsFixedThisEpoch' /\ [Next]_vars
      => [Membership!Next]_(Membership!vars)
  BY MembershipStep
<1> QED
  BY <1>1, <1>2, TypeCorrect, RootsAreFixed, PTL DEF Spec, ImplementsMembership, Membership!Spec
=============================================================================
