------------------------------ MODULE AgoraState ------------------------------
(***************************************************************************)
(* The operator role of nymora: one agora's server-side state and every    *)
(* flow that mutates it (nymora-protocol/src/operator).                    *)
(*                                                                         *)
(* The engine is sans-io: the host calls one method at a time on a value   *)
(* of type AgoraState, so each method is one action here.  A call that is  *)
(* refused and changes nothing is a stuttering step and is not written; a  *)
(* call that is refused and DOES change something (a failed finalize, a    *)
(* burnt challenge, an exhausted epoch counter) is part of its action.     *)
(*                                                                         *)
(* What is abstracted:                                                     *)
(*   - a root is the data it commits to: a class root is the sequence of   *)
(*     landed leaves, an exclusion root the set of excluded keys;          *)
(*   - a leaf is a commitment to a credential key, SkOf[leaf]; two leaves  *)
(*     with one key are two generations of one lineage (migration);        *)
(*   - a nullifier is the tuple it is derived from, so it is injective;    *)
(*   - a proof verifies exactly when the statement's clauses hold of the   *)
(*     presenting leaf and the CURRENT snapshot (stub.rs chain_holds and   *)
(*     migration_holds): the prover is whoever owns the leaf;              *)
(*   - FreshEntropy never repeats: `drawn' counts the draws, and each draw *)
(*     is a new session identifier, proposal nonce or challenge.           *)
(*                                                                         *)
(* receipts and accesses are not fields of the Rust struct: they are the   *)
(* Admission and MemberAccess values its methods have handed out, which    *)
(* their holders keep.                                                     *)
(***************************************************************************)
EXTENDS Naturals, Sequences, FiniteSets, Functions

CONSTANTS
  Leaves,             \* credential commitments
  SkOf,               \* [Leaves -> keys]: the sk_cred each leaf commits to
  ClassOrder,         \* the policy classes, in the ascending order of the BTreeMap
  VoucherOf,          \* [Classes -> Classes]: ClassPolicy.voucher_class
  FoundingThreshold,  \* [Classes -> Nat]: admission_threshold at founding
  Founder,            \* the founder's leaf
  FounderClasses,     \* Founding.founder_classes, a slice: a sequence of classes
  InboxKeys,          \* inbox public keys
  Decisions,          \* the quorum decisions the host may propose
  Genesis,            \* the epoch the agora is founded in
  MaxEpoch,           \* the last epoch number: u64::MAX in the code
  Capacity,           \* ClassState::CAPACITY, the leaves one class can ever hold
  MinHorizon,         \* MIN_INBOX_HORIZON
  DefaultHorizon,     \* DEFAULT_INBOX_HORIZON
  LogEnabled,         \* whether the agora opted into the transparency log
  MaxDraws            \* bound: how many values the host draws from its entropy

Classes == Range(ClassOrder)
Sks == {SkOf[l] : l \in Leaves}
Epochs == Genesis..MaxEpoch

ASSUME FoundingAssumption ==
  /\ ClassOrder \in Seq(Classes) /\ ClassOrder # << >> /\ IsInjective(ClassOrder)
  /\ VoucherOf \in [Classes -> Classes]
  /\ FoundingThreshold \in [Classes -> Nat \ {0}]
  /\ Founder \in Leaves
  /\ FounderClasses \in Seq(Classes)
  /\ "none" \notin Leaves \cup InboxKeys

ASSUME DecisionAssumption ==
  \A d \in Decisions :
    \/ d.kind = "policy" /\ d.threshold \in Nat /\ d.quorum \in Nat
    \/ d.kind = "revocation" /\ d.leaf \in Leaves
    \/ d.kind = "dissolution"
    \/ d.kind = "horizon" /\ d.boundaries \in Nat

ASSUME BoundAssumption ==
  /\ Genesis \in Nat /\ MaxEpoch \in Nat /\ Genesis <= MaxEpoch
  /\ Capacity \in Nat \ {0}
  /\ MinHorizon \in Nat \ {0} /\ DefaultHorizon \in Nat /\ MinHorizon <= DefaultHorizon
  /\ LogEnabled \in BOOLEAN
  /\ MaxDraws \in Nat

VARIABLES
  epoch, dissolved,
  governanceQuorum, threshold, version, inboxHorizon,  \* what decisions change
  landed,           \* [Classes -> Seq(Leaves)]: ClassState.tree, occupied and positions
  revocations,      \* the public revocation set, hashed entries
  revokedLeaves,    \* the operator's own record of revoked leaves
  spends,           \* the migration-spend set
  stagedAdmissions, \* [Classes -> Seq(Leaves)]: Staged.admissions, per class
  stagedSpends,     \* Staged.spends
  pending, sessions, proposals, challenges,
  inboxes, stagedInboxes,
  history,          \* [Genesis..epoch -> Snapshot]
  log,              \* the transparency log's entries; a head is a prefix of it
  drawn, receipts, accesses

decided      == <<governanceQuorum, threshold, version, inboxHorizon>>
accumulators == <<landed, revocations, revokedLeaves, spends>>
staged       == <<stagedAdmissions, stagedSpends>>
opened       == <<sessions, proposals, challenges>>
vars == <<epoch, dissolved, decided, accumulators, staged, pending, opened,
          inboxes, stagedInboxes, history, log, drawn, receipts, accesses>>

-------------------------------------------------------------------------------
(* Derived values: nullifiers, set entries, snapshots.                     *)

(* The gate every handler opens with.                                      *)
FaultyLive == TRUE  \* Faulty: the gate is gone.
Live == ~dissolved

NoKey    == "none"
NoInbox  == [key |-> NoKey, since |-> 0]
NoLeaf   == "none"

\* Faulty: a vouch nullifier derived from the leaf, not from the key it carries.
FaultyVouchNullifier(l, session) == <<"vouch", l, session>>
VouchNullifier(l, session) == <<"vouch", SkOf[l], session>>
SubjectId(p)               == <<p.opened, p.approving, p.decision, p.nonce>>
PolicyNullifier(l, p)      == <<"policy", SkOf[l], SubjectId(p)>>
MigrationSpend(l)          == <<"migration", SkOf[l], l>>
RevocationKey(l)           == <<"revoke", l>>

PositionOf(index) == 2 * (index - 1)

NewSnapshot(classes, revoked, spent) ==
  [classes |-> classes, revocation |-> revoked, spend |-> spent]

\* Faulty: without proposal 0015's spend clause a consumed leaf still verifies.
FaultyChainHolds(snap, l, c) ==
  /\ l \in Range(snap.classes[c])
  /\ RevocationKey(l) \notin snap.revocation

(* The clauses every routine proof shares: the leaf is under the class     *)
(* root and absent from both exclusion sets of that snapshot.              *)
ChainHolds(snap, l, c) ==
  /\ l \in Range(snap.classes[c])
  /\ RevocationKey(l) \notin snap.revocation
  /\ MigrationSpend(l) \notin snap.spend

(* Migration shows presence and non-revocation; freshness of the spend is  *)
(* the operator's own check.                                               *)
MigrationHolds(snap, old, successor, c) ==
  /\ old \in Range(snap.classes[c])
  /\ RevocationKey(old) \notin snap.revocation
  /\ SkOf[successor] = SkOf[old]

Standing(e, c) == {l \in Leaves : ChainHolds(history[e], l, c)}

SnapshotEntries(e, snap) ==
  [i \in 1..Len(ClassOrder) |->
     [kind |-> "ClassRoot", epoch |-> e, class |-> ClassOrder[i],
      root |-> snap.classes[ClassOrder[i]]]]
  \o << [kind |-> "ExclusionRoots", epoch |-> e,
         revocation |-> snap.revocation, spend |-> snap.spend] >>

Logged(entries) == IF LogEnabled THEN log \o entries ELSE log

-------------------------------------------------------------------------------
(* Founding.                                                               *)

FounderLeaves(c) ==
  [i \in 1..Cardinality({k \in DOMAIN FounderClasses : FounderClasses[k] = c}) |-> Founder]

Init ==
  /\ epoch = Genesis /\ dissolved = FALSE
  /\ governanceQuorum = 1 /\ threshold = FoundingThreshold
  /\ version = [c \in Classes |-> 1] /\ inboxHorizon = DefaultHorizon
  /\ landed = [c \in Classes |-> FounderLeaves(c)]
  /\ \A c \in Classes : Len(FounderLeaves(c)) <= Capacity
  /\ revocations = {} /\ revokedLeaves = {} /\ spends = {}
  /\ stagedAdmissions = [c \in Classes |-> << >>] /\ stagedSpends = {}
  /\ pending = {} /\ sessions = {} /\ proposals = {} /\ challenges = {}
  /\ inboxes \in {[l \in Leaves |->
        IF l = Founder THEN [key |-> k, since |-> Genesis] ELSE NoInbox] : k \in InboxKeys}
  /\ stagedInboxes = [l \in Leaves |-> NoKey]
  /\ history = [e \in {Genesis} |-> NewSnapshot(landed, revocations, spends)]
  /\ log = IF LogEnabled
             THEN SnapshotEntries(Genesis, NewSnapshot(landed, revocations, spends))
             ELSE << >>
  /\ drawn = 0 /\ receipts = {} /\ accesses = {}

-------------------------------------------------------------------------------
(* The boundary.  `revoked' is what execute pushed to Staged.revocations   *)
(* in the same call: nothing else writes that list, so between calls it is *)
(* empty.                                                                  *)

Joining == UNION {Range(stagedAdmissions[c]) : c \in Classes}

\* Faulty: leaves land in front, moving every position already handed out.
FaultyLanding(c) == stagedAdmissions[c] \o landed[c]
Landing(c) == landed[c] \o stagedAdmissions[c]

\* Faulty: the boundary forgets the keys of candidates who have not landed.
FaultyCarriedInboxes == [l \in Leaves |-> NoKey]
CarriedInboxes == [l \in Leaves |-> IF l \in Joining THEN NoKey ELSE stagedInboxes[l]]

(* Every staged leaf lands, in order, with the inbox key staged for it.    *)
Land ==
  /\ landed' = [c \in Classes |-> Landing(c)]
  /\ stagedAdmissions' = [c \in Classes |-> << >>]
  /\ inboxes' = [l \in Leaves |->
       IF l \in Joining /\ stagedInboxes[l] # NoKey
         THEN [key |-> stagedInboxes[l], since |-> epoch + 1]
         ELSE inboxes[l]]
  /\ stagedInboxes' = CarriedInboxes

\* Faulty: the revoked leaf enters the public set but not the operator's record.
FaultyExcludePublicOnly(revoked) ==
  /\ spends' = spends \cup stagedSpends /\ stagedSpends' = {}
  /\ revocations' = revocations \cup {RevocationKey(l) : l \in revoked}
  /\ UNCHANGED revokedLeaves

\* Faulty: each boundary's revocations replace the set.
FaultyExcludeReplacing(revoked) ==
  /\ spends' = spends \cup stagedSpends /\ stagedSpends' = {}
  /\ revocations' = {RevocationKey(l) : l \in revoked}
  /\ revokedLeaves' = revokedLeaves \cup revoked

\* Faulty: the staged spends are dropped with the rest of the staging.
FaultyExcludeLosing(revoked) ==
  /\ stagedSpends' = {} /\ UNCHANGED spends
  /\ revocations' = revocations \cup {RevocationKey(l) : l \in revoked}
  /\ revokedLeaves' = revokedLeaves \cup revoked

Exclude(revoked) ==
  /\ spends' = spends \cup stagedSpends /\ stagedSpends' = {}
  /\ revocations' = revocations \cup {RevocationKey(l) : l \in revoked}
  /\ revokedLeaves' = revokedLeaves \cup revoked

\* Faulty: open proposals outlive the boundary.
FaultyExpireOpen == sessions' = {} /\ challenges' = {} /\ UNCHANGED proposals
ExpireOpen == sessions' = {} /\ proposals' = {} /\ challenges' = {}

\* Faulty: the snapshot is recorded before the staged changes land.
FaultySnapshotTooEarly ==
  LET snap == NewSnapshot(landed, revocations, spends)
  IN /\ history' = [e \in Genesis..(epoch + 1) |->
                       IF e = epoch + 1 THEN snap ELSE history[e]]
     /\ log' = Logged(SnapshotEntries(epoch + 1, snap))

\* Faulty: the new roots are recorded and logged under the epoch that ended, too.
FaultySnapshotOverwriting ==
  LET snap == NewSnapshot(landed', revocations', spends')
  IN /\ history' = [e \in Genesis..(epoch + 1) |->
                       IF e >= epoch THEN snap ELSE history[e]]
     /\ log' = Logged(SnapshotEntries(epoch, snap))

(* The new epoch's snapshot, recorded and logged after everything landed.  *)
TakeSnapshot ==
  LET snap == NewSnapshot(landed', revocations', spends')
  IN /\ history' = [e \in Genesis..(epoch + 1) |->
                       IF e = epoch + 1 THEN snap ELSE history[e]]
     /\ log' = Logged(SnapshotEntries(epoch + 1, snap))

Boundary(revoked) ==
  /\ epoch < MaxEpoch
  /\ epoch' = epoch + 1
  /\ Land /\ Exclude(revoked) /\ ExpireOpen /\ TakeSnapshot
  /\ UNCHANGED <<dissolved, decided, pending, drawn, receipts, accesses>>

(* Epoch::next is None at the last epoch, after the staging was taken.     *)
Exhausted ==
  /\ epoch = MaxEpoch
  /\ stagedAdmissions' = [c \in Classes |-> << >>] /\ stagedSpends' = {}
  /\ UNCHANGED <<epoch, dissolved, decided, accumulators, pending, sessions, challenges,
                 inboxes, stagedInboxes, history, log, drawn, receipts, accesses>>

AdvanceEpoch ==
  /\ Live
  /\ \/ Boundary({})
     \/ Exhausted /\ UNCHANGED proposals

-------------------------------------------------------------------------------
(* Staging an admission: where vouching and migration converge.            *)

\* Faulty: capacity counted without what is already staged.
FaultyRemainingCapacity(c) == Capacity - Len(landed[c])
RemainingCapacity(c) == Capacity - Len(landed[c]) - Len(stagedAdmissions[c])

\* Faulty: only the landed leaves are looked at (the hole proposal 0026 closed).
FaultyCanStage(c, l) == RemainingCapacity(c) > 0 /\ l \notin Range(landed[c])

CanStage(c, l) ==
  /\ RemainingCapacity(c) > 0
  /\ l \notin Range(landed[c]) \cup Range(stagedAdmissions[c])

\* Faulty: the position ignores the leaves staged before this one.
FaultyAdmission(c, l, from) ==
  [class |-> c, leaf |-> l, active_from |-> epoch + 1,
   position |-> PositionOf(Len(landed[c]) + 1), from |-> from]

Admission(c, l, from) ==
  [class |-> c, leaf |-> l, active_from |-> epoch + 1,
   position |-> PositionOf(Len(landed[c]) + Len(stagedAdmissions[c]) + 1),
   from |-> from]

\* Faulty: the admission is acknowledged even when there is no next epoch.
FaultyAcknowledged(c, l, from) == receipts \cup {Admission(c, l, from)}
Acknowledged(c, l, from) ==
  IF epoch < MaxEpoch THEN receipts \cup {Admission(c, l, from)} ELSE receipts

(* The leaf is pushed before Epoch::next is asked, so in the last epoch it *)
(* is staged and no admission is acknowledged.                             *)
StageAdmission(c, l, from) ==
  /\ CanStage(c, l)
  /\ stagedAdmissions' = [stagedAdmissions EXCEPT ![c] = Append(@, l)]
  /\ receipts' = Acknowledged(c, l, from)

-------------------------------------------------------------------------------
(* Vouch sessions.                                                         *)

CredentialsInit(l, key) ==
  /\ Live
  /\ pending' = pending \cup {l}
  /\ stagedInboxes' = [stagedInboxes EXCEPT ![l] = key]
  /\ UNCHANGED <<epoch, dissolved, decided, accumulators, staged, opened, inboxes,
                 history, log, drawn, receipts, accesses>>

StartVouch(candidate, target) ==
  /\ Live
  /\ candidate \in pending
  /\ candidate \notin Range(landed[target])
  /\ RemainingCapacity(target) > 0
  /\ drawn < MaxDraws
  /\ drawn' = drawn + 1
  /\ sessions' = sessions \cup
       {[id |-> drawn, candidate |-> candidate, target |-> target, nullifiers |-> {}]}
  /\ UNCHANGED <<epoch, dissolved, decided, accumulators, staged, pending, proposals,
                 challenges, inboxes, stagedInboxes, history, log, receipts, accesses>>

VouchAttest(s, voucher) ==
  LET nullifier == VouchNullifier(voucher, s.id)
  IN /\ Live
     /\ ChainHolds(history[epoch], voucher, VoucherOf[s.target])
     /\ nullifier \notin s.nullifiers
     /\ sessions' = (sessions \ {s}) \cup {[s EXCEPT !.nullifiers = @ \cup {nullifier}]}
     /\ UNCHANGED <<epoch, dissolved, decided, accumulators, staged, pending, proposals,
                    challenges, inboxes, stagedInboxes, history, log, drawn, receipts,
                    accesses>>

ThresholdMet(s) == Cardinality(s.nullifiers) >= threshold[s.target]

(* The session is consumed whatever the outcome; the candidate stops being *)
(* pending once the threshold is met, even when staging then refuses.      *)
VouchFinalize(s) ==
  /\ Live
  /\ sessions' = sessions \ {s}
  /\ pending' = IF ThresholdMet(s) THEN pending \ {s.candidate} ELSE pending
  /\ IF ThresholdMet(s) /\ CanStage(s.target, s.candidate)
       THEN StageAdmission(s.target, s.candidate, NoLeaf)
       ELSE UNCHANGED <<stagedAdmissions, receipts>>
  /\ UNCHANGED <<epoch, dissolved, decided, accumulators, stagedSpends, proposals,
                 challenges, inboxes, stagedInboxes, history, log, drawn, accesses>>

-------------------------------------------------------------------------------
(* Planned migration.                                                      *)

\* Faulty: a spend staged earlier in the epoch is not looked for.
FaultySpendIsFresh(old) == MigrationSpend(old) \notin spends
SpendIsFresh(old) == MigrationSpend(old) \notin spends \cup stagedSpends

Migrate(c, old, successor, key) ==
  /\ Live
  /\ SpendIsFresh(old)
  /\ MigrationHolds(history[epoch], old, successor, c)
  /\ StageAdmission(c, successor, old)
  /\ IF epoch < MaxEpoch
       THEN /\ stagedSpends' = stagedSpends \cup {MigrationSpend(old)}
            /\ stagedInboxes' = [stagedInboxes EXCEPT ![successor] = key]
       ELSE UNCHANGED <<stagedSpends, stagedInboxes>>
  /\ UNCHANGED <<epoch, dissolved, decided, accumulators, pending, opened, inboxes,
                 history, log, drawn, accesses>>

-------------------------------------------------------------------------------
(* Quorum decisions.                                                       *)

\* Faulty: the zero floor of proposal 0027 is not enforced.
FaultyWellFormed(d) == d.kind = "policy" => d.class \in Classes

WellFormed(d) ==
  CASE d.kind = "policy"  -> d.class \in Classes /\ d.threshold > 0 /\ d.quorum > 0
    [] d.kind = "horizon" -> d.boundaries >= MinHorizon
    [] OTHER              -> TRUE

Propose(d, approving) ==
  /\ Live
  /\ WellFormed(d)
  /\ drawn < MaxDraws
  /\ drawn' = drawn + 1
  /\ proposals' = proposals \cup
       {[decision |-> d, approving |-> approving, opened |-> epoch, nonce |-> drawn,
         approvals |-> {}]}
  /\ UNCHANGED <<epoch, dissolved, decided, accumulators, staged, pending, sessions,
                 challenges, inboxes, stagedInboxes, history, log, receipts, accesses>>

Approve(p, member) ==
  LET nullifier == PolicyNullifier(member, p)
  IN /\ Live
     /\ ChainHolds(history[epoch], member, p.approving)
     /\ nullifier \notin p.approvals
     /\ proposals' = (proposals \ {p}) \cup {[p EXCEPT !.approvals = @ \cup {nullifier}]}
     /\ UNCHANGED <<epoch, dissolved, decided, accumulators, staged, pending, sessions,
                    challenges, inboxes, stagedInboxes, history, log, drawn, receipts,
                    accesses>>

\* Faulty: one approval short.
FaultyQuorumMet(p) == Cardinality(p.approvals) + 1 >= governanceQuorum
QuorumMet(p) == Cardinality(p.approvals) >= governanceQuorum

ExecutePolicy(p) ==
  /\ Live /\ QuorumMet(p) /\ p.decision.kind = "policy"
  /\ proposals' = proposals \ {p}
  /\ threshold' = [threshold EXCEPT ![p.decision.class] = p.decision.threshold]
  /\ version' = [version EXCEPT ![p.decision.class] = @ + 1]
  /\ governanceQuorum' = p.decision.quorum
  /\ log' = Logged(<<[kind |-> "PolicyChanged", epoch |-> epoch, class |-> p.decision.class,
                      version |-> version'[p.decision.class]]>>)
  /\ UNCHANGED <<epoch, dissolved, inboxHorizon, accumulators, staged, pending, sessions,
                 challenges, inboxes, stagedInboxes, history, drawn, receipts, accesses>>

ExecuteHorizon(p) ==
  /\ Live /\ QuorumMet(p) /\ p.decision.kind = "horizon"
  /\ proposals' = proposals \ {p}
  /\ inboxHorizon' = p.decision.boundaries
  /\ UNCHANGED <<epoch, dissolved, governanceQuorum, threshold, version, accumulators, staged,
                 pending, sessions, challenges, inboxes, stagedInboxes, history, log, drawn,
                 receipts, accesses>>

(* Revocation is a boundary; in the last epoch the boundary fails after    *)
(* the proposal was consumed and the staging taken.                        *)
ExecuteRevocation(p) ==
  /\ Live /\ QuorumMet(p) /\ p.decision.kind = "revocation"
  /\ \/ Boundary({p.decision.leaf})
     \/ Exhausted /\ proposals' = proposals \ {p}

ExecuteDissolution(p) ==
  /\ Live /\ QuorumMet(p) /\ p.decision.kind = "dissolution"
  /\ dissolved' = TRUE
  /\ sessions' = {} /\ proposals' = {} /\ challenges' = {} /\ pending' = {}
  /\ stagedAdmissions' = [c \in Classes |-> << >>] /\ stagedSpends' = {}
  /\ log' = Logged(<<[kind |-> "Frozen", epoch |-> epoch]>>)
  /\ UNCHANGED <<epoch, decided, accumulators, inboxes, stagedInboxes, history, drawn,
                 receipts, accesses>>

-------------------------------------------------------------------------------
(* Verification access.                                                    *)

IssueChallenge ==
  /\ Live
  /\ drawn < MaxDraws
  /\ drawn' = drawn + 1
  /\ challenges' = challenges \cup {drawn}
  /\ UNCHANGED <<epoch, dissolved, decided, accumulators, staged, pending, sessions,
                 proposals, inboxes, stagedInboxes, history, log, receipts, accesses>>

(* Consumed on presentation: a proof that does not verify burns it too.    *)
RedeemAccess(challenge, c, l) ==
  /\ Live
  /\ challenges' = challenges \ {challenge}
  /\ accesses' = IF ChainHolds(history[epoch], l, c)
                   THEN accesses \cup {[epoch |-> epoch, class |-> c, leaf |-> l]}
                   ELSE accesses
  /\ UNCHANGED <<epoch, dissolved, decided, accumulators, staged, pending, sessions,
                 proposals, inboxes, stagedInboxes, history, log, drawn, receipts>>

(* The gate of roots_at, tag_key_at, revocation_keys, spend_keys and       *)
(* verify_attestation.                                                     *)
\* Faulty: an access outlives the epoch it was proved in.
FaultyAdmits(access) == Live /\ access.epoch <= epoch
Admits(access) == Live /\ access.epoch = epoch

-------------------------------------------------------------------------------
(* Inbox instructions.  The leaf's owner may have signed either at any     *)
(* time, and a signed instruction can be submitted again.                  *)

Retire(l, key) ==
  /\ Live
  /\ inboxes[l] # NoInbox /\ inboxes[l].key = key
  /\ inboxes' = [inboxes EXCEPT ![l] = NoInbox]
  /\ UNCHANGED <<epoch, dissolved, decided, accumulators, staged, pending, opened,
                 stagedInboxes, history, log, drawn, receipts, accesses>>

Renew(l, key) ==
  /\ Live
  /\ \E c \in Classes : l \in Range(landed[c])
  /\ l \notin revokedLeaves
  /\ inboxes' = [inboxes EXCEPT ![l] = [key |-> key, since |-> epoch]]
  /\ UNCHANGED <<epoch, dissolved, decided, accumulators, staged, pending, opened,
                 stagedInboxes, history, log, drawn, receipts, accesses>>

InboxLive(l) ==
  /\ l \notin revokedLeaves
  /\ inboxes[l] # NoInbox
  /\ epoch - inboxes[l].since < inboxHorizon

(* ClassState.positions: where a landed leaf sits, its last place if it was *)
(* landed more than once.                                                  *)
IndexOf(c, l) ==
  CHOOSE i \in DOMAIN landed[c] :
    landed[c][i] = l /\ \A j \in DOMAIN landed[c] : landed[c][j] = l => j <= i

(* The signed broadcast for the current epoch: current_envelope, and what  *)
(* advance_epoch returns.  head is the log's latest signed head, a         *)
(* commitment to the whole log.                                            *)
EnvelopeNow ==
  [epoch |-> epoch, roots |-> history[epoch], revoked |-> revocations, spent |-> spends,
   ciphertexts |->
     UNION {{[class |-> c, leaf |-> l, position |-> PositionOf(IndexOf(c, l)),
              key |-> inboxes[l].key] :
                l \in {m \in Range(landed[c]) : InboxLive(m)}} : c \in Classes},
   head |-> log]

-------------------------------------------------------------------------------
Next ==
  \/ AdvanceEpoch
  \/ \E l \in Leaves, k \in InboxKeys : CredentialsInit(l, k)
  \/ \E l \in Leaves, c \in Classes : StartVouch(l, c)
  \/ \E s \in sessions, l \in Leaves : VouchAttest(s, l)
  \/ \E s \in sessions : VouchFinalize(s)
  \/ \E c \in Classes, old, new \in Leaves, k \in InboxKeys : Migrate(c, old, new, k)
  \/ \E d \in Decisions, c \in Classes : Propose(d, c)
  \/ \E p \in proposals, l \in Leaves : Approve(p, l)
  \/ \E p \in proposals :
       \/ ExecutePolicy(p)
       \/ ExecuteHorizon(p)
       \/ ExecuteRevocation(p)
       \/ ExecuteDissolution(p)
  \/ IssueChallenge
  \/ \E ch \in challenges, c \in Classes, l \in Leaves : RedeemAccess(ch, c, l)
  \/ \E l \in Leaves, k \in InboxKeys : Retire(l, k)
  \/ \E l \in Leaves, k \in InboxKeys : Renew(l, k)

Spec == Init /\ [][Next]_vars

(* The host advances the epoch on the agora's schedule; no other call is   *)
(* ever due.                                                               *)
FairSpec == Spec /\ WF_vars(AdvanceEpoch)
===============================================================================
