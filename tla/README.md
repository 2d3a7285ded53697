# Nymora in TLA+

Nymora is a sans-io protocol engine: an *agora* is a group whose members prove
membership in zero knowledge, run by an operator that never learns who proves.
The crates hold values and pure functions; the host supplies storage, entropy,
time and transport and calls one method at a time. Concurrency is therefore the
interleaving of calls (many members, one operator value), failure is a port that
refuses in the middle of a method or a host that stops between two, and order is
what the epoch boundary imposes.

## 1. Inventory

| Part | State | Operations | What is hard, what must hold |
|---|---|---|---|
| **Operator state** `nymora-protocol/src/operator/mod.rs` | epoch, classes (tree, policy, version, occupancy, positions), revocation and spend sets, staging, open sessions/proposals/challenges, history of snapshots, log, inbox registry, dissolved | `create`, `advance_epoch`, `current_envelope`, `dissolve` | everything a handler changes waits for the boundary; the boundary must land it all, in order, once; roots are fixed in between; history is never rewritten |
| **Vouching** `operator/vouch.rs` | pending, sessions | `credentials_init`, `start_vouch`, `vouch_attest`, `vouch_finalize`, `stage_admission` | sessions race for a leaf and for the last places; one key counts once |
| **Quorum decisions** `operator/quorum.rs`, `decision.rs` | proposals | `propose`, `approve`, `execute` (policy, horizon, revocation, dissolution) | a count must not outlive its epoch; revocation forces a boundary inside `execute` |
| **Migration, operator side** `operator/migrate.rs` | staged spends, spend set | `migrate` | at most one successor per leaf; standing moves, never multiplies |
| **Access** `operator/access.rs` | challenges; `MemberAccess` values held by members | `issue_challenge`, `redeem_access`, `roots_at`, `tag_key_at`, `revocation_keys`, `spend_keys`, `verify_attestation` | a capability must die with the standing that earned it |
| **Inbox registry** `operator/inbox.rs` | inboxes, staged inboxes, horizon | `inbox_certificate` (retire, renew), `inbox_live` | the address travels with its leaf; revocation is a delivery cut |
| **Transparency log** `operator/log.rs` | entries, signed heads | `append`, `verify_log`, `equivocation`, `conforms` | epochs never rewind, nothing after the freeze, heads cover the roots |
| **Member credential** `nymora-protocol/src/credential.rs` | slots of secure storage: credential key, openings, inbox key, epoch keys and certificates, cursor | `create`, `roll_epoch`, `discard_expired`, `create_successor_root`, `authorize_migration`, `complete_migration`, loaders | a port may fail, or the host stop, between any two storage calls; secrets of past epochs must be destroyed; after a handoff the old device must not act |
| **Envelope delivery** `bulletin.rs`, `operator/mod.rs` `envelope_now` | the member's current epoch | `accept_envelope`, own ciphertext, `BodyView::open`, `envelope_equivocation` | replay, reordering and recombination by an untrusted transport; one body for all |
| **Live authentication** `live_auth.rs` | commit-reveal round (typestate) | `new`, `lock`, `reveal`, `finish` | whoever fixes a contribution must not know the others'; rosters differ, repeat and are replayed |
| **Statements** `nymora-crypto`, `nymora-circuits`, `nymora-proofs`, `proving.rs` | none | derivations, statements, the stub backend, the action API, witness loading | which clauses each action proves, against whose roots; what bytes become in the field |
| **Plonk backend** `nymora-plonk` | none | conversions, evaluators, circuits, its own tree and gap set | agrees with the stub; where the circuit constrains less than the evaluator checks |
| **Accumulators** `nymora-accumulator` | append-only tree; exclusion set over the gap tree | `append`, `root`, `witness`; `insert`, `root`, `absence_witness` | witnesses agree with roots; capacity edges |
| **Ports** `nymora-ports` | software key store, storage slots | `KeyStore`, `SecureStorage` | the traits' contracts |
| **Wire formats** `nymora-core`, `nymora-crypto/src/armor.rs`, `hash.rs` | none | bundle, handoff, invitation; text armor; framed hashing | canonical, strict decoding, on a narrow `usize`; text as clients mangle it |
| **Newtypes, errors, measure, spec, tests** | none | wrappers, benchmarks, the specification and its proposals, flow tests | read as reference |

`PROJECT.json` lists each part with its status, and under `hazards` the places
in the code that are hard to test, each with the properties that watch it.

## 2. Modules

| Module | Models |
|---|---|
| `AgoraState` | the whole operator: every method of the Rust `AgoraState` that changes state, as one action each |
| `AgoraProperties` | its type invariant, safety invariants, action and liveness properties |
| `EpochMembership` | the abstract promise: standing changes only at boundaries, whoever left never returns |
| `AgoraRefinement` | the refinement mapping from `AgoraState` to `EpochMembership` |
| `MCAgora` | foundings, leaves and decisions for TLC |
| `AgoraProofs` | proofs in four parts: types; roots, snapshots, capacity, landing once, the freeze, the log; revocation, the history, lost standing, access, thresholds and quorums; receipts, inboxes, migration, the refinement of `EpochMembership` |
| `MemberCredential` | `credential.rs` on one or more devices, each call a sequence of storage writes that may stop half way |
| `MCCredential` | device sets for TLC |
| `CredentialProofs` | proofs: the sweep, forward secrecy, handoffs, whole material |
| `Accumulators` | the class tree with its truncated paths and the exclusion set with its absence witnesses, and the copies of both in the Plonk backend, as functions over symbolic hashes; run directly |
| `AccumulatorProofs` | proofs: what a path and a bracket of two keys prove, for trees of every depth; the copies agree |
| `LiveAuth`, `MCLiveAuth` | rounds of live authentication among participants, their hosts and a stranger |
| `LiveAuthProofs` | proofs: the commit-reveal order, echoes, pseudonyms, what equal strings mean |
| `Bulletin`, `MCBulletin` | envelopes and the log as they leave the operator: members, auditors, relays, an operator that may fork |
| `SequenceLemmas` | sequences over their own range, prefixes, flattening, induction over the naturals |
| `BulletinProofs` | proofs: what the operators of `Bulletin` compute (the chain, the body's layout, envelopes and who can open them), its inductive invariant and its four properties |
| `Statements` | the derivations, the three statements, the stub backend and the public inputs of the action API, as operators |
| `Circuits` | the same statements at the Plonk backend: conversions, evaluators, relations; extends `Statements` |
| `Proving`, `MCProving` | holders that prove with either backend and an agora that verifies; extends `Circuits` |
| `ProvingProofs` | proofs: whose an accepted proof is, of which epoch, and that the backends agree |
| `WireFormats`, `MCWireFormats` | encoders, decoders, armor and hash framing with a channel between them |
| `WireFormatProofs` | proofs: encodings and preimages are canonical at every width; pasted text is read as what was sent |

`AgoraRefinement` extends `AgoraProperties` extends `AgoraState`. Each component has
one proof module, which extends the component and cites `SequenceLemmas`. The other
components meet the operator at an interface that each
side models in its own terms: `AgoraState` takes a root to be what it commits to
(`Accumulators` checks that it is), a verified proof to be the clauses of its
statement (`Proving` checks both backends for that), an envelope to be its content
(`Bulletin` seals, signs, relays and opens it), a leaf and a handoff to be values
(`MemberCredential` produces them, `WireFormats` carries them). Each of the lower
modules keeps as much of the operator as it needs: `Bulletin` and `Proving` have an
agora that is reduced to what each boundary publishes.

## 3. The operator

**State.** `landed[c]` is `ClassState.tree` together with `occupied` and
`positions`: the leaf at index `i` of the sequence has position `2 * (i - 1)`,
because the operator appends an empty value after every leaf.
`stagedAdmissions`, `stagedSpends` are `Staged`. `history` is the map of
snapshots, `log` the entries of the transparency log, a signed head being a
prefix of it. `sessions`, `proposals`, `challenges` are the three maps of open
work; the identifiers in them are draws from the host's entropy, counted by
`drawn`. `receipts` and `accesses` are the `Admission` and `MemberAccess` values
the methods have handed out; they are not fields of the struct, they are what its
callers hold, and most properties relate them to the state of a later moment.

**Actions.** One per method, with its guards in the order of the code where that
order is visible. The private functions they share are operators: `StageAdmission`
(`stage_admission`), `Boundary` (`advance_epoch` when it succeeds: land, exclude,
expire, snapshot, log), `Exhausted` (when the counter cannot advance: the staging
was already taken and is lost), `Exclude`, `ExpireOpen`, `TakeSnapshot`. A call
refused without effect is a stuttering step. Calls refused *with* an effect are
part of their action: a finalize that fails has consumed its session, a redeem
that fails has burnt its challenge, a migration in the last epoch has pushed its
leaf, a revocation in the last epoch has consumed its proposal and the staging.

**Data.** A root is what it commits to. A leaf is a model value with the key it
commits to (`SkOf`), so that two leaves may belong to one key. A nullifier is the
tuple it digests, which makes it injective. A proof verifies exactly when the
clauses of its statement hold of the presenting leaf under the current snapshot
(`ChainHolds`, `MigrationHolds`, from the clauses of `stub.rs`): whoever may
present a proof is the owner of a leaf. The ordering key of the exclusion sets is
a 253-bit truncation in the code and the key itself here.

## 4. The member's credential

A device is a map from storage slots to at most one value. Each function of
`credential.rs` is one action; what it does to the storage is a sequence of
writes in the order of the code (`Material`, `Sweep`, `RollWrites`,
`DestroyWrites`), and it either completes or stops at one of them. `Faults` says
how it may stop: `"refusal"` (the port returns `Unavailable`; the call performs
its unwinding and returns an error), `"unwinding"` (deletes of the unwinding may be
refused as well; the code discards their results), `"crash"` (the process dies,
nothing is unwound and nothing returned). Everything before the first write -
a root authority that declines, short buffers, an implausible span - leaves no
trace and stutters. Secrets are the number of the draw they were minted from.

`certified`, `leaves`, `handoffs`, `returned` are what the calls told their host.
The distinction matters: an epoch counts as certified for `CertifiedIsSweepable`
when the latest `roll_epoch` of it returned `Ok`. What happens to the key of a
roll that was *not* acknowledged is the subject of the run `CredentialLostCursor`.

## 5. The accumulators

A hash is the data it covers: a node at level `n` is the sequence of the `2^n`
leaf entries below it, hence injective among nodes of one level, the only ones
the code compares. `slots` is `Tree.leaves` of one class, grown by `Land` as the
operator grows it (a leaf, then the padding); `keys` is `ExclusionSet.keys`, grown
by `Insert`. Everything else is a function of the two, in the shape of the code:
`OccupiedLevels`, `RootOf`, `WitnessFor`, the height at which the operator cuts a
path and the refill of the member, the fold, the gaps with their sentinels,
absence witnesses and both verifiers. A 32-byte value, a field element and the
ordering domain are small ranges with the inclusions of the real ones
(`Upper < Modulus <= RawMax`), so that values that differ as bytes may coincide
as field elements or after truncation. Neither structure ever forgets, so an
earlier tree is a prefix and an earlier set a subset of the current one, and
staleness needs no history.

The Plonk backend's own copies (`Twin*` and `Poseidon*`) differ in shape: its tree
stores all occupied nodes by position, its absence check has no range check on the
bounds. `TwinsAgree` shows that the roots, paths and verdicts are the same for every
honest root.

## 6. Delivery, proofs and formats

**`LiveAuth`.** One action per method of the typestate; `lock` and `finish` consume
their receiver, so a refusal ends the round and is an action. Everything between
the participants is the hosts': any sequence of commitments ever posted may be
somebody's roster, any sequence of openings ever seen may be handed to `finish`, a
stranger posts commitments to nonces of its own or to ones it has seen opened.
Nonces are numbered as they are drawn, so "chosen after" is "greater". A session
records what it was derived from; the properties compare sessions with one another
and with the moment their owners locked.

**`Bulletin`.** `past[b]` is what each epoch of branch `b` was fixed as; an honest
operator has the branch `Main`, a forking one also `Fork`, and it signs envelopes
combining the body of one with the paths of another. The operator's epochs are
abstracted to one change per boundary (a leaf lands, is revoked, is spent, lapses),
everything that is made of them is in the code's shape: keys derived from secret,
agora and epoch; the body's canonical layout with its counts; one ciphertext per
live credential under an agreement; the digest over agora, epoch and parts; the log's
chain with a signed head per entry. Relays deliver any envelope ever published, of
this agora or of another one that the host runs with the same secrets, with any
field replaced by that of another. `Receive` is a member host's whole handler in the
order of `tests/common/mod.rs`: accept, find, open, open the body, check the path,
and keep nothing unless all succeed.

**`Statements`, `Circuits`, `Proving`.** The derivations are tuples; what the code
does to the *width* of a value is arithmetic, with `ScalarOrder`, `IdModulus`,
`FieldOrder` and `ByteStrings` in the order of the real ones (252, 254, 255 and 256
bits), so an identifier with a dropped bit, a secret past the field's order and every
byte form of one scalar all occur. In the circuit the 32 bytes of an epoch key become
two values, each with a reduction of its own: the native field element that is
bounded and hashed (`FieldForm`), and the curve scalar that is multiplied
(`ScalarForm`); the evaluator and the stub bound the bytes themselves. A holder
proves with a witness as stored or with one field replaced (an epoch key of another
epoch or any other byte form of its own, certificate, opening, root key, path, an older
epoch's absence witness), for the roots of any published epoch; the verifier uses its
own. `backend` chooses the stub or Plonk. A Plonk proof is what a witness of the
*relation* establishes for an instance, which is what proof soundness means:
`ProveChain` is the backend, which asks the evaluator first, and `SynthesizeChain` a
client that does not, since nothing that a verifier sees tells the two apart.
`BackendsAgree` compares the stub, the evaluator and the relation on every trial. It
names the one place where evaluator and circuit part, an epoch key whose bytes are at
or above the field order, and says that nothing else differs there.
The agora is three roots per epoch with `migrate`'s two set checks.

**`WireFormats`.** A sender encodes a bundle, an invitation, a handoff, an armored
payload or a hash's preimage; the channel rewraps, quotes or damages it; the
decoders read what is there. A digest is one symbol and a length two digits to base
3, so that lengths past the input and past `usize` are both representable; armor
groups three bytes of 4 bits into four characters of 3, the code's proportions. The
checksum is `CheckLen` bytes of any function `Digest`; TLC takes a weighted sum, one
that some damaged text passes.

## 7. Runs

| Run | Instance | Shows |
|---|---|---|
| `AgoraGovern` | 3 leaves, founder and one more of one key; one class of 2 places, log on; revocation, policies (one with a zero threshold), horizons, dissolution; 3 draws, 1 boundary and the exhausted counter after it | decisions need a quorum of their own epoch; proofs, delivery and access end together; the log conforms and is the history; nothing follows the freeze; the operator implements `EpochMembership` |
| `AgoraMembership` | classes A and B of 3 places, B asks for two vouchers, founder in both; revocation; 2 draws, 3 epochs; fairness | races for leaves and last places; thresholds count keys; positions announced are positions taken; migration inflates nothing; standing once lost is lost for good; again and again no acknowledged admission is outstanding |
| `AgoraReserve` | violation | `current_envelope` serves two envelopes in one epoch |
| `CredentialEpochs` | 1 device, 3 epochs, gap bound 1, every fault | sweeps never lose an acknowledged epoch; forward secrecy; a handed-off device is silent |
| `CredentialMigration` | 2 devices, refusals | slots of two credentials never combine; no key without its certificate |
| `CredentialLostCursor` | violation | a first roll whose cursor store is refused strands its key |
| `Accumulators` | class tree of depth 3, four leaves; gap tree of depth 2 over a domain of 4 keys, every subset | delivered paths verify and stale or foreign ones do not; absence is exact; no stale or made-up witness hides a present key, also when the gap tree is full; the backend's copies agree |
| `LiveAuth` | 2 participants of 2 rounds, a stranger, 2 channels, 3 nonces, rosters up to 3 | contributions are fixed before any is known; nobody is alone with an echo; equal strings mean equal contributions; no pseudonym recurs |
| `Bulletin` | 2 members of one class, a second empty class, 3 epochs, honest or forking | members see what was published for them and only that; views advance; forks leave evidence with members and auditors; an honest operator is never accused |
| `Proving` | 2 holders, 3 generations, 2 epochs, both backends, every action | counts are derived from their holder's secrets, one to a context below the field order; accepted proofs are current; one unspent leaf per lineage; the backends agree below the field order and differ in one thing above it; a proof is for its inputs as the field reads them |
| `ProvingForms` | violation, Plonk alone | ... and above it one key has a second count in a context |
| `WireFormats` | 3 formats with contents of up to 2 symbols, 8 armored payloads, 2 edits | canonical decoding; armor survives its carriers; framed hashes are injective |

**Bounds.** Three leaves are the smallest number with a member, a candidate and a
leaf sharing a key with either of them; two classes are needed for a leaf staged
in two places and for a voucher class other than the target's. Capacity 2 in
`AgoraGovern` is reached by the founder and one admission, so the last place is
contested; with a founder in both classes, three places leave two to race for in
`AgoraMembership`. `MaxEpoch` is both the bound and the code's `u64::MAX`: the
exhaustion branches run in every instance. One boundary is enough for
`AgoraGovern`: what it asks - counts, access and delivery that must not outlive
their epoch, a log that follows the history - goes wrong at the first boundary, and
the theorems of section 8 cover any number. Standing that must not *return* needs
a second one, which `AgoraMembership` has. `MaxDraws` limits how many sessions,
proposals and challenges are ever opened, not what is done with them; two are a
session racing a proposal or another session, three add a challenge. Two epochs
behind the current one and a gap bound below the largest jump are what the sweep's
conditions distinguish. A class tree of eight slots takes every shape from empty
to full, so the occupied height crosses each power of two; a gap tree of four
leaves is overfull with four keys, and the six field elements and ten raw values
contain every kind of collision with the four keys of the domain. In `LiveAuth`
three nonces give each of two participants one and a third to whoever answers late,
be it a second round or the stranger; rosters of three admit a repeated entry beside
both. In `Bulletin` a fork, its detection and a replay across both need three epochs;
one class is populated, since classes are treated alike, and the empty one exercises
the layout. `Proving` needs two migrations for a chain `0 -> 1 -> 2` and for two
successors of one leaf, one boundary for stale roots. The numbers 57 < 256 < 463 < 1024
of its configuration stand as the real ones do: the field order is eight group orders
and a small remainder, and there are 2.2 field orders of strings, so that a key has
seventeen or eighteen byte forms, of which the circuit's bound leaves three. Minted epoch
keys are three apart, so that a second form of one is never another. Two edits of
an encoding reach a damaged length with the bytes to match.

**Fairness.** Only `AgoraMembership` uses any: `WF_vars(AdvanceEpoch)`. The host
calls `advance_epoch` on the agora's published schedule (epochs are at least 24
hours long); no other call is ever owed. Deadlock checking is on where every state
has a further step (`Accumulators`, `Proving`, `ProvingForms`) and off elsewhere: a
dissolved agora, an exhausted epoch counter, exhausted draws, a device whose host has
nothing left to do and an artifact the channel is done with are terminal.

## 8. Proofs

The 47 theorems are about `Spec` of their module for every value of its constants
under named assumptions, which TLC evaluates in the runs. They are proved in
seven modules, one for each component, over more than 490 lemmas; the eighth,
`SequenceLemmas`, holds the lemmas that several of them need.

### The operator

For every founding and every number of leaves, classes, epochs and draws, under the
three assumptions of `AgoraState` (well-formed founding, decisions and bounds).
`ClassOrder` names no class twice: classes are the keys of a `BTreeMap` in the
code, so the order of iteration cannot repeat one.

*Types.* `TypeOK` is inductive as it stands; `AgoraProofs` has one lemma per
action and one per shared operator. It carries facts that are not mere typing:
quorum and thresholds at least 1, a nullifier in a session belongs to that
session, no snapshot outside `Genesis..epoch`.

*Frames.* Most actions leave most fields alone. `OnlyBoundariesMoveRoots`,
`StagingSteps`, `HeldSteps`, `SessionSteps`, `ProposalSteps`, `AccessSteps` each
say of one group of variables what any step of `Next` can do to it, so an
invariant over that group needs three or four cases, not fourteen.

*Safety.* `RootsAreFixed` follows from the first frame: only a boundary moves an
accumulator and it records the snapshot in the same step. `CapacityIsHeld` and
`AtMostOnce` rest on lemmas about `Range` and injectivity of concatenated
sequences; `AtMostOnce` assumes that `FounderClasses` names no class twice, which
`create` does not check (see section 10).

*Standing.* `RevocationCutsOff` needs `RevocationsAgree` (the public set and the
operator's own record name the same leaves), which is what makes it inductive.
`LostStandingIsFinal` follows from `HistoryOnlyGrows` without a further induction:
exclusions recorded in one snapshot are in every later one.

*Counting.* `OpenCountsAreCurrent` is strengthened to `CountsOK`: besides being
current, each open session and proposal carries only nullifiers of the group it
was opened for, and a boundary closes all of them. `VouchingIsBacked` and
`GovernanceIsBacked` then need that the number of nullifiers equals the number of
distinct keys, which is the bijection from nullifiers of one session to keys.

*The log.* `LogIsTheHistory` is about the entries of an epoch taken together, which
no step of a single entry preserves. `LogInv` adds what makes it inductive: the
entries conform, none is ahead of the epoch, none is `Frozen` while the agora lives,
and every recorded epoch is `Covered`, that is, the log contains exactly its
snapshot's roots. A boundary and the freeze then extend the log by what the code
appends, and the rest of it is the old history (`LogGrowth`, `LogBoundaryStep`).

*Receipts and inboxes.* `ReceiptsHonoured` speaks of the recorded roots of every
epoch since the receipt's, so its boundary step rests on `RootsAreFixed` (the snapshot
is what landed) and on `HistoryOnlyGrows`: a position once taken is taken in every
later root. `InboxTravelsWithLeaf` is inductive with types alone; the proof is about
who is waiting, since a step that makes nobody wait can only lose a key by landing it.

*Migration.* A bound on the leaves with standing is not inductive: a boundary lands
and excludes at once. `MigrationInv` also counts the *prospects* of a class, who
would have standing after the next boundary if it revoked nobody. An admission adds
one prospect and one receipt; a migration adds one and removes one, because the
spend it stages is not yet in the spend set (`SpendsCover`, `SpentOnce`); a boundary
turns prospects into standing.

*Refinement.* `OperatorImplementsMembership` is proved action by action: the initial
states map to initial states and every step of `Next` maps to `Admit`, `Supersede`,
`Turn`, `Exhaust`, `Freeze` or a stutter. Standing is read off the recorded
snapshots, so the mapping of a boundary rests on `RootsAreFixed`; everything that
opens, counts or closes something stutters (`MembershipFrame`).

`FreezeIsFinal`, `SnapshotsAreImmutable` and `HistoryOnlyGrows` state properties no run
lists; the last carries `LostStandingIsFinal`, the others are promises of their own.

### Delivery

For any members, any list of classes, any founding landed by a sequence of members,
any number of epochs, and whatever the operator signs and the relays recombine. All
four properties of the run `Bulletin` are proved.

*The invariant* is `HistoryOK /\ HoldingsOK`. `HistoryOK`: the branches are one or
two histories of one length, whose exclusions are finite and only grow.
`HoldingsOK`: what a member holds is, at every position, an envelope published for
this agora that the member's own secret opens, together with the view it opens to,
and the epochs increase along the holding. It is stronger than the properties in
saying *where every held view came from*; each property is then a fact about two
published envelopes and needs no further induction.

*The steps.* A boundary appends to the histories, so whatever was published stays
published (`EnvelopeStays`) and opens to the same view (`OpenedIsFixed`). `Receive`
extends a holding only past a verified signature, which by `OnlyPublishedVerifies`
makes the delivered envelope, with its recombined fields, equal to a published one
of this agora (`RelayedIsPublished`).

*The properties.* `HonestIsNeverAccused`: with one branch an epoch has one envelope
and a position of the log one head. `EquippedOnlyAsPublished`: `BodyOpens` and
`Layout` say that parsing the canonical bytes returns what was laid out, for any
classes and any sets, and `OwnIsServed` that the ciphertext found under one's own tag is
the one made for one's own leaf. `ForksAreAlwaysProvable`: by `OneBodyOneView` two
views that differ come from bodies that differ, so the signed digests do; and
`ChainBindsPrefix` says that equal heads of the log mean equal prefixes, whatever
follows them. `ViewsAlwaysAdvance`: increasing epochs, growing exclusions.

*Recursion.* The chain, the body's entries and their parsing are recursive
functions over sequences of any length. The library's induction theorems take an
operator and cannot be instantiated here; `SequenceLemmas` derives induction over a
*set* of naturals (`Induct`) from the well-foundedness of `<` and uses it for
`ChainUnfolds` and `FlattenUnfolds`.

*Assumptions.* `Founding \in Seq(Members)` and `Classes` a sequence. Cryptography is
symbolic by the shape of the definitions: a digest, a key, a signature and a
sealed value are the tuples of what goes into them.

### The member's credential

For any devices, any epochs, any bound on the gap and any set of faults. A call is
a sequence of writes that stops anywhere, so the proofs are about sequences: what a
prefix of them leaves in a slot (`AfterCases`), what the sequences of the code hold
(`MaterialProper`, `SweepShape`, `RollShape`, `DestroyShape`), then
what a call that stops at any of them, by any fault, does to the invariant.

*The invariant* is `CredentialInv`: types, `ForwardSecrecy`, `HandedOffIsSilent` and
`CertifiedIsCursor`. The run's `CertifiedIsSweepable` is too weak to be inductive with
the other two: it allows material *after* the cursor, which a handoff, destroying
only the cursor's own epoch, would leave behind. `CertifiedIsCursor` excludes it: what
is left of a certified epoch is at the cursor itself, because a later cursor is stored
only after the sweep of what was before it, and none is earlier. `SweepsReach`, `PastEpochsAreGone` and `HandoffsSilence` follow from it.
The *unacknowledged* key of `CredentialLostCursor` is no counterexample: its epoch was
never certified to the host.

`RefusalsTearNothing` proves `MaterialIsWhole` under the hypothesis
`Faults \subseteq {"refusal"}`, which is the instance its run has. With `"crash"` or
`"unwinding"` the property is false (section 10), since slots are written one by one.

### Live authentication

For any participants, rosters of any bounded length, any number of nonces and whatever
the hosts post or replay. `RoundInv` says what stands where at each moment: nothing is
posted or opened before it is drawn (`DrawnFirst`); until its owner locks, a nonce is
nowhere but in its own commitment (`SecretUntilLocked`); a locked roster holds it once,
beside commitments drawn before (`RostersFixed`); a session stands on the nonces of the
roster its owner locked (`SessionsDerived`); rounds of one participant do not overlap
in the order of draws (`RoundsApart`). The four properties of the run follow;
for `NoPseudonymTwice`, two sessions with the same context hold the same nonces, so
each one's own nonce is at most the other's time of locking.

*Sorting.* `ContextsAgreeExactly` says that sorting forgets the order of the nonces and
nothing else. The prover knows no definition of the library's `SortSeq`; `LiveAuth`
defines `InOrder` as the sequence rearranged by an ordering permutation.
`LiveAuthProofs` shows that there is one (`OrderingExists`) and that two sequences come
out equal exactly when every nonce occurs equally often in both
(`InOrderIsTheCounts`).

### Statements and proving

For any holders, generations, claims, epochs and migrations, any widths with
`1 < ScalarOrder < IdModulus < FieldOrder`, and either backend. All seven properties of
the run `Proving` are proved. `ByteAssumption` says that the byte strings reach past the
field order by at least the group order, which does not divide it (both are primes).
`MintAssumption` says that root keys are drawn distinct and
that each value is below the order it is minted under; `InstanceAssumption` names the
range of the claims and the backends.

*Two backends, one argument.* The stub checks clauses on bytes, Plonk a relation on field
elements. `StubEstablishes` and `PlonkEstablishes`, `MigrationEstablishes` and
`InboxEstablishes` extract from each the same facts (`ChainFacts`, `MigrationFacts`, `InboxFacts`): a leaf of the class
under the witness's key, unrevoked and unspent, a certificate over the epoch key,
an output that belongs to the claim. What follows is said once: a leaf names its owner
and generation (`LeafOwner`), and nobody signs with a root key but its holder, so the
proof is its sender's (`Author`, `Mover`, `Instructor`). No point outside the subgroup is
in a leaf (`NoLeafOffSubgroup`), which is where a witness with another key would
otherwise pass.

*The invariant.* `ProvingInv` says what each epoch published (`HistoryOK`), what the
next boundary will land (`StagedOK`), what every proof in transit was made from
(`SentOK`), that a holder has at most one leaf which is not yet spent, staged ones
included (`OneUnspent`), and `RevokedNeverMigrates`. `OneUnspent` is what carries
`OneLeafPerLineage`: a successor is staged together with the spend of its predecessor,
so only the two together preserve it.

*The forms of a key.* What the circuit bounds and hashes is the bytes reduced by the
field order, what it multiplies the bytes reduced by the group order; `Division`,
`RemainderIs` and `Forms` say when the two are the same number. `AnotherHashableForm`
is the result: below the field order the bound leaves one form, which is the comment's
claim, and over all strings of 32 bytes it leaves every key another, so what
`ProvingForms` finds in one instance is so for every key. `CountsAreTheHoldersInvariant`
is what remains: an accepted output is the one of its holder's minted secret, or, with
bytes at or above the field order, that of one of the forms which the bound leaves of
its holder's key of this epoch. For vouches and approvals, which
derive from `sk_cred`, the first case is the only one.

*Agreement.* `BackendsAgreeInvariant` compares, for every trial of a holder, the stub,
the evaluator and the relation. The evaluator stands between the two
(`EvaluatorIsCircuit`, `EvaluatorIsStub`). It is the relation for an epoch key below the
field order, and at or above it the relation is the evaluator's at the reduced key, with
the output derived again (`CircuitIsEvaluatorReduced`). It differs from the stub in how
values enter the field, which loses nothing of values below their moduli (`Canonical`,
`KeysCanonical`) and is what the order of the moduli is for.

### Accumulators

For trees of every depth, every set of commitments and keys, and any three widths with
`Upper < Modulus <= RawMax`. All three properties of the run are proved.

*Shapes.* A recursive function over levels becomes a closed form: a node at level `n`,
place `i`, is the block of `2^n` leaves from `i * 2^n` on, empty ones filled in
(`Block`). `LevelsAre` shows it of the levels computed at once, `PoseidonTreeIs` of the
circuit's copy that stores nodes by place, which is most of `TwinsAgree`. The
arithmetic of `2^n` is derived from the library's theorem about the number of
subsets (`PowerIs`, `Doubling`), the prover having no theory of powers.

*Paths.* The siblings of the tree fold to its root from every truncation and refill
(`ClimbComplete`); any siblings at all, of the right levels, put the leaf at its own place
of what they fold to (`ClimbSound`). Hashes being what they cover, a fold that equals a
root shows what that root has there, in an earlier tree as in a later one.

*Gaps.* `Sorted` lists a set by `Rank`, the number of keys at or below a key. Ranks number
the keys without a hole, so the key at one rank and the next have nothing between
them (`NothingInside`), and a key's rank names the gap it falls in (`RankNamesGap`). That
holds for every subset of the domain, the overfull ones, whose last gap the tree
drops, included.

### Wire formats

For every radix above 2, every width of a digest, a u64 and a length prefix that can
hold what the host's `usize` can, and every set of artifacts that a sender can name
(`WidthAssumption`, `ArtifactAssumption`).

*Numbers.* `LE` and `Number` undo one another in both directions (`NumberOfLE`,
`LEOfNumber`), the second only for byte strings of the width: that is why the
encoding of a length is unique.

*Readers and writers.* Each reader undoes its writer, and what it accepts is what the
writer writes, followed by what it leaves (`FieldBack`, `FieldSound`). `TakeFieldsSound`
carries the second along the fields of a format: after each of them, the bytes written
so far and the bytes left are the whole. `TakeFieldsBack` carries the first along
the chain of prefixes of the encoding (`PrefixAppends`). `PreimageIsExact` does the same
for the frames of two lists of values, by induction on the shorter.

*The invariant* `WireInv` is about the channel: undamaged bytes are the encoding of what
was sent, whatever they are they are bytes, and a preimage is that of the list hashed.

*The armor.* For any alphabet and byte of the code's proportions, any checksum and any
text (`ArmorAssumption`). Three bytes and four characters are the same number
(`Repack`, `Unpack`), and a shorter group is that number with zeros, whose last
character has bits no byte uses; so a group is read back (`GroupBack`), and what is
read of one is written as the same characters but for those bits (`GroupRead`).
`FlattenGroups` says where each of a run of groups lies in what they flatten to, and
with it a whole body is its groups and the groups are the body's (`BodyBack`, `BodyRead`).
`Inked` forgets white space wherever it stands: it commutes with concatenation
(`InkedConcat`), so rewrapping is a stutter of it, and trimming and unquoting see only
the first and the last character that is not white space (`StrippedOfArmor`). What is
read of a text is a function of that ink (`UnarmorReads`). The invariant `TextInv` is
that the ink of text that was only wrapped is the armor, in at most one pair of quotes:
a second pair is what `harmless` excludes, because the code strips one.

### Only model-checked

- `ReceiptsLand` of the operator: liveness under fairness is beyond the prover.

## 9. Not modelled

- The insides of the hashes, curves, signatures, key agreement and AEAD: symbolic and
  perfect. What the code does with their *inputs* - widths, framing, domain
  separation, canonical forms, subgroup checks - is modelled in `Statements`,
  `Circuits` and `WireFormats`.
- The Plonk proving system below the relation: gates, polynomial commitments, setup,
  proof bytes. A proof is knowledge of a witness of the relation.
- Newtypes and the zeroization of secrets in memory: no behaviour that a state of
  the model could show, and the compiler decides whether it happens.
- The software key store, beyond the contract `MemberCredential` takes from the
  trait (a call that may decline); `store_tag_key`, which writes a slot that nothing
  in the repository deletes; `log_key`, a getter.
- Benchmarks, the specification and the tests, which are read as reference.
- Time: epochs are counted by the host, and no code of the crates reads a clock.

## 10. Observations

Where a document and the code disagree, a run shows it and `findings` in
`PROJECT.json` quotes both. Smaller ones, without a run of their own:

*Operator.*

- `create` lands the founder once per entry of `founder_classes`
  (`operator/mod.rs:463`); a class named twice costs two places of its capacity.
- `tag_key_at` serves a key for epochs before the founding (`operator/access.rs:127`),
  although its doc says it refuses as `roots_at` does.
- `Renew` asks only that the leaf has landed and is not revoked
  (`operator/inbox.rs:60`), where the specification says that consumed leaves never
  renew (`spec/nymora-protocol.md:992`). The operator cannot tell which leaf was
  consumed; it is the holder who, having handed off, no longer renews.
- a migration staged before a revocation of its leaf in the same epoch lands its
  successor at the boundary the revocation forces; proposal 0020 accepts this,
  since the migration proof was valid against the epoch's roots.
- `migrate` in the last epoch leaves its leaf staged and returns an error; no
  boundary is left to land it.
- `verify_log` over entries with no signed head at all returns true: it has
  authenticated nothing. The auditors of `Bulletin` hold at least one head.
- `AgoraReserve` concerns the registry and log *inside* one epoch. `Bulletin` takes one
  envelope per epoch and branch, the one served first; a second one with another
  content is to its members a fork, and `HonestNeverAccused` assumes there is none.

*Member.*

- the stranded key of `CredentialLostCursor` also survives `authorize_migration`,
  whose doc says every epoch key is deleted in the call (`credential.rs:565`).
- creating over an existing credential with one store refused deletes part of the
  old credential (`credential.rs:210`): the unwinding deletes slots, it does not
  restore them.
- `authorize_migration` deletes the inbox secret before the epoch keys
  (`credential.rs:638`); when a later delete is refused the call returns an error, the
  inbox secret is gone and the epoch keys still act. Its doc (`credential.rs:564`)
  speaks of all of them at once.
- a crash between the two stores of a re-certification leaves a new key beside the
  old certificate (`credential.rs:414`); the pair proves nothing and the next roll
  replaces it.
- a mistaken current epoch up to the plausible span ahead is stored as the cursor
  (`credential.rs:729`), and every honest roll after it is refused: the code cannot
  know better than its host.
- `complete_migration` takes the successor's root from its caller and does not compare
  it with the one the certificate names (`credential.rs:666`); the migration proof
  fails later if they differ.

*Live authentication.*

- `finish` compares the reveal in the caller's own slot after it has opened that slot's
  commitment; since commitments bind, that comparison cannot fail.
- a nonce that is not one's own in this round may be one's own of an earlier round:
  `AnotherContributes` says what remains true. The truncation of the short string to
  what humans compare is not modelled.

*Accumulators and proofs.*

- an overfull gap tree drops its last gap silently: the root is that of the first
  `2^DEPTH` gaps and `absence_witness` panics for a key in the missing one, where a
  comment says exhaustion surfaces at root time (`exclusion.rs:280`). At the
  protocol's depth no set reaches this; no present key is shown absent by it.
- a key that truncates to 0 or to `2^253 - 1` can never be shown absent, nor can a
  key whose truncation collides with an inserted one: the strict comparisons cost
  their owner availability, never the set its soundness.
- the backend's absence check leaves out the range check of the other one; `TwinsAgree`
  shows that over the root of any set they give the same verdict.
- `ProvingForms` rests on what the circuit library's `assigned_from_le_bytes` does with 32
  bytes: a sum of the bytes' multiples in the native field, so a value modulo its order,
  with no bound of its own. The library is not in the repository; the model reads it from
  how `gadgets.rs:202` uses it, with a bound on the element put after it. A bound on
  the bytes, or on their quotient by the field order, would leave one form. The member's
  own client cannot produce a second form: it loads the key as stored, and `Backend`
  refuses what the evaluator refuses.
- an identifier altered in bits 254 and 255, which `from_id` clears
  (`field.rs:49`), is the same circuit instance, so a proof verifies for both, where
  `system.rs:35` says that one presented against any altered input must fail. The
  specification makes the clearing normative (`spec/nymora-protocol.md:386`);
  `BoundToItsEntry` states what holds: the stub is bound to every bit, Plonk to the
  entry, and the two differ in those bits alone.

*Formats.*

- `unarmor` ignores the unused low bits of the last character (`armor.rs:214`), so two
  texts may carry one payload; the checksum is over kind and payload, and
  `ArmorIsRecovered` is about these, not about texts. Nor does it say that damaged text
  is never read as another artifact: it is, when the checksum of what it reads as holds.
- the model's armor prefix is one symbol, so white space *inside* `nymora1` does not
  arise; `unarmor` looks for the prefix before it drops any, and refuses such a text.
- bundle and invitation have the same version byte; the kind in the armor's header,
  or the caller, tells them apart.
- the module comment of `kdf.rs` says its input is never a Diffie-Hellman output;
  the inbox key derivation is one.

## 11. Plan

1. **Migration end to end**: `MemberCredential` on two devices against the operator's
   spend set, with lost answers and retries.
2. **Two operators of one host**: agoras that share a secret are in `Bulletin` only as
   a source of foreign envelopes.
