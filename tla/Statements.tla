------------------------------ MODULE Statements ------------------------------
(***************************************************************************)
(* The three statements a member proves (nymora-circuits): the membership  *)
(* chain with one action clause, migration, and the inbox instruction, as  *)
(* the stub backend evaluates them, the derivations they share             *)
(* (nymora-crypto), and the public inputs the action API assembles         *)
(* (nymora-proofs).                                                        *)
(*                                                                         *)
(* A 32-byte string that is minted or chosen is a number; what the code    *)
(* does to its width is arithmetic: FromId drops the top bits, FromWitness *)
(* reduces.  A field element that is a hash is the tuple it covers, headed *)
(* by its domain tag.  A point is <<"point", its scalar>>, so two byte     *)
(* forms of one scalar name one point.  A class root is the sequence of    *)
(* its leaves and an exclusion root the set of its entries; an inclusion   *)
(* path is the tree it was cut from and a position, an absence witness the *)
(* set it was cut from.  What the folds and the gaps make of these is the  *)
(* subject of Accumulators.                                                *)
(***************************************************************************)
EXTENDS Integers, Sequences

CONSTANTS
  Agora,        \* agora_id, a number
  IdModulus,    \* 2^254
  FieldOrder,   \* r, the order of the proving field
  ScalarOrder   \* the order of the Jubjub subgroup

ASSUME OrderAssumption ==
  /\ Agora \in Nat /\ IdModulus \in Nat /\ FieldOrder \in Nat /\ ScalarOrder \in Nat
  /\ 1 < ScalarOrder /\ ScalarOrder < IdModulus /\ IdModulus < FieldOrder

-------------------------------------------------------------------------------
(* Entry into the field, and points.                                       *)

FromId(bytes)      == <<"id", bytes % IdModulus>>
FromContext(ident) == <<"compressed", ident>>
FromWitness(bytes) == bytes % FieldOrder
NonCanonical       == <<"names no element">>
Zero               == <<"zero">>

OffSubgroup   == <<"off the subgroup">>
IsPoint(pk)   == pk[1] = "point"
\* Faulty: the secret is reduced instead of refused.
FaultyPublicKey(sk) == <<"point", sk % ScalarOrder>>
PublicKey(sk) == IF sk < ScalarOrder THEN <<"point", sk>> ELSE OffSubgroup

Sign(sk, message) == <<"signature", sk, message>>
MalformedSignature == <<"malformed">>
VerifySignature(pk, message, signature) ==
  IsPoint(pk) /\ signature = Sign(pk[2], message)

EpochCertMessage(agora, epoch, pk)       == <<"epoch cert", FromId(agora), epoch, pk>>
MigrationCertMessage(agora, pk)          == <<"migration cert", FromId(agora), pk>>
\* Faulty: the certificate does not say whether to retire or to renew.
FaultyInboxCertMessage(agora, action, inbox) == <<"inbox cert", FromId(agora), 0, FromId(inbox)>>
InboxCertMessage(agora, action, inbox)   == <<"inbox cert", FromId(agora), action, FromId(inbox)>>

-------------------------------------------------------------------------------
(* Commitments and counts.                                                 *)

Commit(pk, key, opening, agora) ==
  <<"leaf", pk, FromWitness(key), FromWitness(opening), FromId(agora)>>
RevocationKey(leaf) == <<"revoke", leaf>>
MigrationNullifier(key, leaf, agora) == <<"spend", FromWitness(key), leaf, FromId(agora)>>

Authorship == 0
Vouch      == 1
Policy     == 2
LiveAuth   == 3
Access     == 4

ActionOutput(tag, key, context, agora) == <<"action", tag, key, context, FromId(agora)>>
VouchNullifier(key, session, agora) ==
  ActionOutput(Vouch, FromWitness(key), FromContext(session), agora)
AttestationNullifier(key, message, agora) ==
  ActionOutput(Authorship, FromWitness(key), FromId(message), agora)
PolicyNullifier(key, proposal, agora) ==
  ActionOutput(Policy, FromWitness(key), FromContext(proposal), agora)
Pseudonym(key, context, agora) ==
  ActionOutput(LiveAuth, FromWitness(key), FromId(context), agora)

\* Faulty: the witness is not tied to the root.
FaultyAbsent(entry, cutFrom, root) == entry \notin cutFrom

Included(leaf, path, root) ==
  path.tree = root /\ path.index \in DOMAIN root /\ root[path.index] = leaf
Absent(entry, cutFrom, root) == cutFrom = root /\ entry \notin root

-------------------------------------------------------------------------------
(* The action API: public inputs, with the derived output.                 *)

ChainPublics(roots, tag, context, output) ==
  [agora |-> Agora, epoch |-> roots.epoch, class |-> roots.class,
   revocation |-> roots.revocation, spend |-> roots.spend,
   tag |-> tag, context |-> context, output |-> output]

ProveAuthorship(w, roots, message) ==
  ChainPublics(roots, Authorship, message, AttestationNullifier(w.epochKey, message, Agora))
ProveVouch(w, roots, session) ==
  ChainPublics(roots, Vouch, session, VouchNullifier(w.credentialKey, session, Agora))
ProvePolicyApproval(w, roots, proposal) ==
  ChainPublics(roots, Policy, proposal, PolicyNullifier(w.credentialKey, proposal, Agora))
ProveLiveAuth(w, roots, context) ==
  ChainPublics(roots, LiveAuth, context, Pseudonym(w.epochKey, context, Agora))
ProveVerificationAccess(w, roots, challenge) ==
  ChainPublics(roots, Access, challenge, Zero)

(* The five, by tag.                                                       *)
ProveAction(w, roots, tag, context) ==
  CASE tag = Authorship -> ProveAuthorship(w, roots, context)
    [] tag = Vouch      -> ProveVouch(w, roots, context)
    [] tag = Policy     -> ProvePolicyApproval(w, roots, context)
    [] tag = LiveAuth   -> ProveLiveAuth(w, roots, context)
    [] tag = Access     -> ProveVerificationAccess(w, roots, context)

OldLeaf(w, agora) == Commit(w.oldRootKey, w.credentialKey, w.oldOpening, agora)

ProveMigration(w, roots, successor) ==
  [agora |-> Agora, class |-> roots.class, revocation |-> roots.revocation,
   spend |-> MigrationNullifier(w.credentialKey, OldLeaf(w, Agora), Agora), successor |-> successor]

ProveInbox(leaf, inbox, action) ==
  [agora |-> Agora, leaf |-> leaf, inbox |-> inbox, action |-> action]

-------------------------------------------------------------------------------
(* The stub backend's evaluation.                                          *)

(* The action clause compares the claim with the derivation of its kind.   *)
StubActionHolds(w, public) ==
  \/ public.tag = Access
  \/ public.tag = Authorship
       /\ public.output = AttestationNullifier(w.epochKey, public.context, public.agora)
  \/ public.tag = Vouch
       /\ public.output = VouchNullifier(w.credentialKey, public.context, public.agora)
  \/ public.tag = Policy
       /\ public.output = PolicyNullifier(w.credentialKey, public.context, public.agora)
  \/ public.tag = LiveAuth
       /\ public.output = Pseudonym(w.epochKey, public.context, public.agora)

Corresponds(w) ==
  IsPoint(PublicKey(w.epochKey)) /\ PublicKey(w.epochKey) = w.epochPublicKey

\* Faulty: the epoch is the one the certificate names, not the verifier's.
FaultyCertified(w, public) ==
  \E epoch \in 1..public.epoch :
    VerifySignature(w.rootKey, EpochCertMessage(public.agora, epoch, w.epochPublicKey), w.certificate)
Certified(w, public) ==
  VerifySignature(w.rootKey, EpochCertMessage(public.agora, public.epoch, w.epochPublicKey), w.certificate)

ChainHolds(w, public) ==
  LET leaf == Commit(w.rootKey, w.credentialKey, w.opening, public.agora) IN
  /\ Corresponds(w)
  /\ IsPoint(w.rootKey) /\ Certified(w, public)
  /\ Included(leaf, w.path, public.class)
  /\ Absent(RevocationKey(leaf), w.revocationAbsence, public.revocation)
  /\ Absent(MigrationNullifier(w.credentialKey, leaf, public.agora), w.spendAbsence, public.spend)
  /\ StubActionHolds(w, public)

\* Faulty: the successor is not tied to the carried key.
FaultySuccessorOpens(w, public) ==
  \E key \in {w.credentialKey, public.successor[3]} :
    public.successor = Commit(w.successorKey, key, w.successorOpening, public.agora)
SuccessorOpens(w, public) ==
  public.successor = Commit(w.successorKey, w.credentialKey, w.successorOpening, public.agora)

MigrationHolds(w, public) ==
  LET leaf == OldLeaf(w, public.agora) IN
  /\ IsPoint(w.oldRootKey) /\ IsPoint(w.successorKey)
  /\ Included(leaf, w.path, public.class)
  /\ Absent(RevocationKey(leaf), w.revocationAbsence, public.revocation)
  /\ public.spend = MigrationNullifier(w.credentialKey, leaf, public.agora)
  /\ VerifySignature(w.oldRootKey, MigrationCertMessage(public.agora, w.successorKey), w.certificate)
  /\ SuccessorOpens(w, public)

InboxHolds(w, public) ==
  /\ IsPoint(w.rootKey)
  /\ public.leaf = Commit(w.rootKey, w.credentialKey, w.opening, public.agora)
  /\ VerifySignature(w.rootKey, InboxCertMessage(public.agora, public.action, public.inbox),
                     w.certificate)

(* A stub proof is the witness and a digest of the public inputs; the      *)
(* digest frames every field, so it stands for the inputs themselves.      *)
ChainBinding(public)     == public
MigrationBinding(public) == public
InboxBinding(public)     == public
StubProof(w, binding)    == [witness |-> w, binding |-> binding]

StubVerifyChain(proof, public) ==
  proof.binding = ChainBinding(public) /\ ChainHolds(proof.witness, public)
StubVerifyMigration(proof, public) ==
  proof.binding = MigrationBinding(public) /\ MigrationHolds(proof.witness, public)
StubVerifyInbox(proof, public) ==
  proof.binding = InboxBinding(public) /\ InboxHolds(proof.witness, public)
===============================================================================
