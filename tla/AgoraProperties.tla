---------------------------- MODULE AgoraProperties ----------------------------
(***************************************************************************)
(* What one agora's operator promises, stated over AgoraState.             *)
(***************************************************************************)
EXTENDS AgoraState, SequencesExt

-------------------------------------------------------------------------------
(* Types.                                                                  *)

Snapshots ==
  [classes : [Classes -> Seq(Leaves)],
   revocation : SUBSET {RevocationKey(l) : l \in Leaves},
   spend : SUBSET {MigrationSpend(l) : l \in Leaves}]

SessionOK(s) ==
  s \in [id : 0..(drawn - 1), candidate : Leaves, target : Classes,
         nullifiers : SUBSET {VouchNullifier(l, s.id) : l \in Leaves}]

ProposalOK(p) ==
  /\ p \in [decision : Decisions, approving : Classes, opened : Epochs, nonce : 0..(drawn - 1),
            approvals : SUBSET {PolicyNullifier(l, p) : l \in Leaves}]
  /\ WellFormed(p.decision)

LogEntries ==
  [kind : {"ClassRoot"}, epoch : Epochs, class : Classes, root : Seq(Leaves)]
  \cup [kind : {"ExclusionRoots"}, epoch : Epochs,
        revocation : SUBSET {RevocationKey(l) : l \in Leaves},
        spend : SUBSET {MigrationSpend(l) : l \in Leaves}]
  \cup [kind : {"PolicyChanged"}, epoch : Epochs, class : Classes, version : Nat]
  \cup [kind : {"Frozen"}, epoch : Epochs]

ScalarsOK ==
  /\ epoch \in Epochs /\ dissolved \in BOOLEAN
  /\ governanceQuorum \in Nat \ {0}
  /\ threshold \in [Classes -> Nat \ {0}] /\ version \in [Classes -> Nat \ {0}]
  /\ inboxHorizon \in Nat /\ inboxHorizon >= MinHorizon

AccumulatorsOK ==
  /\ landed \in [Classes -> Seq(Leaves)] /\ stagedAdmissions \in [Classes -> Seq(Leaves)]
  /\ revocations \subseteq {RevocationKey(l) : l \in Leaves} /\ revokedLeaves \subseteq Leaves
  /\ spends \subseteq {MigrationSpend(l) : l \in Leaves}
  /\ stagedSpends \subseteq {MigrationSpend(l) : l \in Leaves}

OpenedOK ==
  /\ pending \subseteq Leaves
  /\ drawn \in 0..MaxDraws
  /\ \A s \in sessions : SessionOK(s)
  /\ \A p \in proposals : ProposalOK(p)
  /\ challenges \subseteq 0..(drawn - 1)

InboxesOK ==
  /\ inboxes \in [Leaves -> [key : InboxKeys \cup {NoKey}, since : 0..epoch]]
  /\ stagedInboxes \in [Leaves -> InboxKeys \cup {NoKey}]

PublishedOK ==
  /\ history \in [Genesis..epoch -> Snapshots]
  /\ log \in Seq(LogEntries)
  /\ receipts \subseteq [class : Classes, leaf : Leaves, active_from : Epochs, position : Nat,
                         from : Leaves \cup {NoLeaf}]
  /\ accesses \subseteq [epoch : Genesis..epoch, class : Classes, leaf : Leaves]

(* Every field keeps its type; in particular the quorum and every admission *)
(* threshold stay at least 1 and the horizon at least MIN_INBOX_HORIZON     *)
(* (propose refuses the zero values, proposal 0027).                        *)
TypeOK == ScalarsOK /\ AccumulatorsOK /\ OpenedOK /\ InboxesOK /\ PublishedOK

-------------------------------------------------------------------------------
(* Epochs, accumulators and admissions.                                    *)

(* Every root a proof is checked against is fixed for the whole epoch      *)
(* (proposal 0020): at any moment the live accumulators are exactly what   *)
(* the epoch's snapshot recorded, so nothing any handler did since the     *)
(* boundary has moved a root.                                              *)
RootsFixedThisEpoch == history[epoch] = NewSnapshot(landed, revocations, spends)

(* A leaf is landed or staged at most once per class (proposal 0026),      *)
(* whichever sessions and migrations raced to stage it.                    *)
LandsAtMostOnce ==
  \A c \in Classes : IsInjective(landed[c] \o stagedAdmissions[c])

(* The landing loop of advance_epoch never meets a full class: what is     *)
(* staged still fits ("Unreachable by construction").                      *)
CapacityHeld ==
  \A c \in Classes : Len(landed[c]) + Len(stagedAdmissions[c]) <= Capacity

(* An acknowledged Admission is exact: from active_from on the leaf is at  *)
(* the position named and in no epoch before, and until then it is staged  *)
(* to land there.                                                          *)
ReceiptsHonoured ==
  \A r \in receipts :
    LET index == r.position \div 2 + 1
    IN /\ \A e \in Genesis..epoch :
            IF e < r.active_from
              THEN r.leaf \notin Range(history[e].classes[r.class])
              ELSE /\ index <= Len(history[e].classes[r.class])
                   /\ history[e].classes[r.class][index] = r.leaf
       /\ r.active_from > epoch =>
            \/ dissolved
            \/ /\ r.active_from = epoch + 1
               /\ index <= Len(landed[r.class] \o stagedAdmissions[r.class])
               /\ (landed[r.class] \o stagedAdmissions[r.class])[index] = r.leaf

(* A candidate's inbox key travels with its leaf: whoever is pending, in a *)
(* session or staged either still has a staged key or already landed.  (In *)
(* the last epoch a refused migration leaves a leaf staged without one,    *)
(* and no boundary is left to land it.)                                    *)
InboxTravelsWithLeaf ==
  epoch < MaxEpoch => \A l \in pending \cup {s.candidate : s \in sessions} \cup Joining :
    stagedInboxes[l] # NoKey \/ \E c \in Classes : l \in Range(landed[c])

(* Every acknowledged admission reaches its class root, provided the host  *)
(* keeps advancing the epoch and the agora is not dissolved first: again   *)
(* and again a moment comes when none is outstanding.                      *)
ReceiptsLand ==
  []<>(dissolved \/ \A r \in receipts : r.leaf \in Range(landed[r.class]))

(* The accumulators are append-only across the whole recorded history and  *)
(* no exclusion is ever taken back.                                        *)
HistoryExtends ==
  \A d, e \in Genesis..epoch : d <= e =>
    /\ \A c \in Classes : IsPrefix(history[d].classes[c], history[e].classes[c])
    /\ history[d].revocation \subseteq history[e].revocation
    /\ history[d].spend \subseteq history[e].spend

(* A recorded snapshot is never rewritten: an attestation verified against *)
(* an epoch's roots verifies against the same roots for ever.              *)
HistoryImmutable ==
  [][\A e \in DOMAIN history : e \in DOMAIN history' /\ history'[e] = history[e]]_vars

-------------------------------------------------------------------------------
(* Thresholds and quorums.                                                 *)

(* Every nullifier counted in an open session or proposal belongs to a     *)
(* credential with standing NOW in the class whose members count: no count *)
(* outlives the group it was gathered from.                                *)
OpenCountsAreCurrent ==
  /\ \A s \in sessions : \A n \in s.nullifiers :
       \E l \in Standing(epoch, VoucherOf[s.target]) : n = VouchNullifier(l, s.id)
  /\ \A p \in proposals :
       /\ p.opened = epoch
       /\ \A n \in p.approvals :
            \E l \in Standing(epoch, p.approving) : n = PolicyNullifier(l, p)

(* A vouched admission consumed a session attested by at least as many     *)
(* DISTINCT credential keys, each with standing in the voucher class, as   *)
(* the threshold in force at finalize asks for.                            *)
Vouchers(s) ==
  {SkOf[l] : l \in {m \in Standing(epoch, VoucherOf[s.target]) :
                     VouchNullifier(m, s.id) \in s.nullifiers}}

AdmissionsAreBacked ==
  [][\A r \in receipts' \ receipts :
       r.from = NoLeaf =>
         \E s \in sessions \ sessions' :
           /\ s.target = r.class /\ s.candidate = r.leaf
           /\ Cardinality(Vouchers(s)) >= threshold[r.class]]_vars

(* No policy, horizon, revocation or freeze takes effect but by a proposal *)
(* for it that as many distinct credential keys, each with standing in the *)
(* approving class, have approved as the quorum in force asks for.         *)
Approvers(p) ==
  {SkOf[l] : l \in {m \in Standing(epoch, p.approving) : PolicyNullifier(m, p) \in p.approvals}}

Backed(kinds) ==
  {p \in proposals : p.decision.kind \in kinds /\ Cardinality(Approvers(p)) >= governanceQuorum}

DecisionsAreBacked ==
  [][/\ decided' # decided => Backed({"policy", "horizon"}) # {}
     /\ dissolved' # dissolved => Backed({"dissolution"}) # {}
     /\ \A l \in revokedLeaves' \ revokedLeaves :
          \E p \in Backed({"revocation"}) : p.decision.leaf = l]_vars

-------------------------------------------------------------------------------
(* Revocation and migration.                                               *)

(* A revoked leaf is cut off on both sides at once: it verifies in no      *)
(* class, and no ciphertext in the broadcast is addressed to it.           *)
RevocationIsACut ==
  \A l \in {m \in Leaves : m \in revokedLeaves \/ RevocationKey(m) \in revocations} :
    /\ \A c \in Classes : l \notin Standing(epoch, c)
    /\ \A ct \in EnvelopeNow.ciphertexts : ct.leaf # l

(* Losing standing is for ever: a leaf that was under a class root without *)
(* standing has no standing in any class in any later epoch.               *)
StandingIsLostForGood ==
  \A d, e \in Genesis..epoch : d < e =>
    \A c \in Classes : \A l \in Range(history[d].classes[c]) \ Standing(d, c) :
      \A b \in Classes : l \notin Standing(e, b)

(* Migration carries standing over and never creates it: no two            *)
(* acknowledged migrations consume the same leaf, predecessor and successor *)
(* never both have standing in the class that was migrated, and a class    *)
(* never has more leaves with standing than its founder and the admissions *)
(* it vouched for.                                                         *)
OneSuccessorPerLeaf ==
  \A r \in receipts : r.from # NoLeaf =>
    /\ \A q \in receipts : q.from = r.from => q = r
    /\ \/ r.from \notin Standing(epoch, r.class)
       \/ r.leaf \notin Standing(epoch, r.class)

MigrationNeverInflates ==
  /\ OneSuccessorPerLeaf
  /\ \A c \in Classes :
       Cardinality(Standing(epoch, c)) <=
         Cardinality({i \in DOMAIN FounderClasses : FounderClasses[i] = c})
         + Cardinality({r \in receipts : r.class = c /\ r.from = NoLeaf})

(* A MemberAccess the gate still admits is held by a leaf that still has   *)
(* standing in the class it proved: revocation and migration end access    *)
(* with the boundary they force or wait for.                               *)
AccessEndsWithStanding ==
  \A a \in accesses : Admits(a) => a.leaf \in Standing(epoch, a.class)

-------------------------------------------------------------------------------
(* The transparency log, the broadcast and the freeze.                     *)

RootEntries(e) == {i \in DOMAIN log : log[i].epoch = e /\ log[i].kind = "ClassRoot"}

(* The log is the history: its epochs never rewind, nothing follows the    *)
(* freeze, and each epoch's roots are logged once per class and once for   *)
(* the exclusion sets, exactly as they were snapshotted, so the head an    *)
(* envelope embeds always covers the roots in its body.                    *)
LogConforms ==
  \A i, j \in DOMAIN log : i < j =>
    log[i].epoch <= log[j].epoch /\ log[i].kind # "Frozen"

LogIsTheHistory ==
  /\ LogConforms
  /\ LogEnabled => \A e \in Genesis..epoch :
       /\ \A c \in Classes : Cardinality({i \in RootEntries(e) : log[i].class = c}) = 1
       /\ \A i \in RootEntries(e) : log[i].root = history[e].classes[log[i].class]
       /\ \E i \in DOMAIN log :
            log[i] = [kind |-> "ExclusionRoots", epoch |-> e,
                      revocation |-> history[e].revocation, spend |-> history[e].spend]

(* Dissolution is final: no method changes anything afterwards.            *)
FrozenIsFinal == [][dissolved => UNCHANGED vars]_vars

(* The envelope current_envelope serves is the one advance_epoch handed    *)
(* out: "this serves the same value again" (mod.rs).                       *)
ServedEnvelopeIsStable ==
  [][epoch' = epoch /\ ~dissolved' => EnvelopeNow' = EnvelopeNow]_vars
===============================================================================
