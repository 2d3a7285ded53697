------------------------------- MODULE Circuits -------------------------------
(***************************************************************************)
(* The Plonk backend (nymora-plonk): the same three statements over field  *)
(* elements.  The conversions at its boundary refuse what names no element *)
(* or point; an evaluator refuses a witness that does not satisfy the      *)
(* statement; the relation is what the circuit constrains, and so what a   *)
(* proof that verifies establishes.  The proof bytes are external: a       *)
(* verified proof is one made for this instance by a witness of the        *)
(* relation, whether or not the evaluator was asked.                       *)
(***************************************************************************)
EXTENDS Statements

CONSTANT ByteStrings   \* 2^256, how many strings of 32 bytes there are

(* 32 bytes reach past the field order by more than the group's order, and *)
(* both orders are primes, so that neither divides the other.              *)
ASSUME ByteAssumption ==
  /\ ByteStrings \in Nat /\ FieldOrder + ScalarOrder <= ByteStrings
  /\ FieldOrder % ScalarOrder # 0

-------------------------------------------------------------------------------
(* Conversions.                                                            *)

Decodes(value)           == value # NonCanonical
DecodesSecret(bytes)     == bytes < FieldOrder
DecodesSignature(sig)    == sig[1] = "signature"

ActionContext(tag, context) ==
  IF tag \in {Authorship, LiveAuth} THEN FromId(context) ELSE FromContext(context)

\* Faulty: the action's kind is left out of the instance.
FaultyChainInstance(public) ==
  [agora |-> FromId(public.agora), epoch |-> public.epoch, class |-> public.class,
   revocation |-> public.revocation, spend |-> public.spend,
   tag |-> Access, context |-> FromContext(public.context), output |-> Zero]

HasChainInstance(public) == Decodes(public.output)
ChainInstance(public) ==
  [agora |-> FromId(public.agora), epoch |-> public.epoch, class |-> public.class,
   revocation |-> public.revocation, spend |-> public.spend,
   tag |-> public.tag, context |-> ActionContext(public.tag, public.context),
   output |-> IF public.tag = Access THEN Zero ELSE public.output]

HasChainWitness(w) ==
  /\ IsPoint(w.epochPublicKey) /\ IsPoint(w.rootKey) /\ DecodesSignature(w.certificate)
  /\ DecodesSecret(w.credentialKey) /\ DecodesSecret(w.opening)

HasMigrationInstance(public) == Decodes(public.spend) /\ Decodes(public.successor)
MigrationInstance(public) == [public EXCEPT !.agora = FromId(public.agora)]
HasMigrationWitness(w) ==
  /\ IsPoint(w.oldRootKey) /\ IsPoint(w.successorKey) /\ DecodesSignature(w.certificate)
  /\ DecodesSecret(w.credentialKey) /\ DecodesSecret(w.oldOpening) /\ DecodesSecret(w.successorOpening)

HasInboxInstance(public) == Decodes(public.leaf)
InboxInstance(public) ==
  [public EXCEPT !.agora = FromId(public.agora), !.inbox = FromId(public.inbox)]
HasInboxWitness(w) ==
  /\ IsPoint(w.rootKey) /\ DecodesSignature(w.certificate)
  /\ DecodesSecret(w.credentialKey) /\ DecodesSecret(w.opening)

-------------------------------------------------------------------------------
(* The primitives over elements, shared by the evaluator and the circuit.  *)

LeafOf(pk, key, opening, agora) == <<"leaf", pk, key, opening, agora>>
SpendOf(key, leaf, agora)       == <<"spend", key, leaf, agora>>
Generates(scalar, point)        == point = <<"point", scalar>>
Satisfies(pk, payload, sig)     == sig = <<"signature", pk[2], payload>>

-------------------------------------------------------------------------------
(* The evaluator.                                                          *)

EvaluatedOutput(w, i) ==
  LET key == IF i.tag \in {Authorship, LiveAuth} THEN w.epochKey ELSE w.credentialKey
  IN IF i.tag = Access THEN Zero ELSE <<"action", i.tag, key, i.context, i.agora>>

SatisfiesChain(w, i) ==
  LET leaf == LeafOf(w.rootKey, w.credentialKey, w.opening, i.agora) IN
  /\ w.epochKey < ScalarOrder /\ Generates(w.epochKey, w.epochPublicKey)
  /\ Satisfies(w.rootKey, <<"epoch cert", i.agora, i.epoch, w.epochPublicKey>>, w.certificate)
  /\ Included(leaf, w.path, i.class)
  /\ Absent(<<"revoke", leaf>>, w.revocationAbsence, i.revocation)
  /\ Absent(SpendOf(w.credentialKey, leaf, i.agora), w.spendAbsence, i.spend)
  /\ i.tag \in Authorship..Access
  /\ i.output = EvaluatedOutput(w, i)

SatisfiesMigration(w, i) ==
  LET leaf == LeafOf(w.oldRootKey, w.credentialKey, w.oldOpening, i.agora) IN
  /\ Included(leaf, w.path, i.class)
  /\ Absent(<<"revoke", leaf>>, w.revocationAbsence, i.revocation)
  /\ i.spend = SpendOf(w.credentialKey, leaf, i.agora)
  /\ Satisfies(w.oldRootKey, <<"migration cert", i.agora, w.successorKey>>, w.certificate)
  /\ i.successor = LeafOf(w.successorKey, w.credentialKey, w.successorOpening, i.agora)

SatisfiesInbox(w, i) ==
  /\ i.leaf = LeafOf(w.rootKey, w.credentialKey, w.opening, i.agora)
  /\ i.action \in {0, 1}
  /\ Satisfies(w.rootKey, <<"inbox cert", i.agora, i.action, i.inbox>>, w.certificate)

-------------------------------------------------------------------------------
(* The circuit: one constraint per gadget.                                 *)

(* The epoch key's 32 bytes are recomposed into one element of the native  *)
(* field, which is what is bounded and hashed, and read again as a scalar  *)
(* of the curve, which is what is multiplied.                              *)
FieldForm(bytes)  == bytes % FieldOrder
ScalarForm(bytes) == bytes % ScalarOrder
\* Faulty: the element is not bounded by the group order.
FaultyCanonicalScalar(bytes) == TRUE
CanonicalScalar(bytes) == FieldForm(bytes) < ScalarOrder
Multiplies(bytes, point) == Generates(ScalarForm(bytes), point)
VerifyCertificate(sig, pk, payload) == Satisfies(pk, payload, sig)
MerkleRoot(leaf, path, root) == Included(leaf, path, root)
AssertAbsent(key, cutFrom, root) == Absent(key, cutFrom, root)
RevocationEntry(leaf) == <<"revoke", leaf>>
AssertActionTag(tag) == tag * (tag - 1) * (tag - 2) * (tag - 3) * (tag - 4) = 0
UsesEpochKey(tag)    == tag = Authorship \/ tag = LiveAuth
DerivesNothing(tag)  == tag = Access
AssertInboxAction(action) == action * (action - 1) = 0

ChainRelation(w, i) ==
  LET leaf    == LeafOf(w.rootKey, w.credentialKey, w.opening, i.agora)
      key     == IF UsesEpochKey(i.tag) THEN FieldForm(w.epochKey) ELSE w.credentialKey
      derived == <<"action", i.tag, key, i.context, i.agora>>
  IN
  /\ CanonicalScalar(w.epochKey) /\ Multiplies(w.epochKey, w.epochPublicKey)
  /\ VerifyCertificate(w.certificate, w.rootKey,
                       <<"epoch cert", i.agora, i.epoch, w.epochPublicKey>>)
  /\ MerkleRoot(leaf, w.path, i.class)
  /\ AssertAbsent(RevocationEntry(leaf), w.revocationAbsence, i.revocation)
  /\ AssertAbsent(SpendOf(w.credentialKey, leaf, i.agora), w.spendAbsence, i.spend)
  /\ AssertActionTag(i.tag)
  /\ i.output = IF DerivesNothing(i.tag) THEN Zero ELSE derived

MigrationRelation(w, i) ==
  LET leaf == LeafOf(w.oldRootKey, w.credentialKey, w.oldOpening, i.agora) IN
  /\ MerkleRoot(leaf, w.path, i.class)
  /\ AssertAbsent(RevocationEntry(leaf), w.revocationAbsence, i.revocation)
  /\ i.spend = SpendOf(w.credentialKey, leaf, i.agora)
  /\ VerifyCertificate(w.certificate, w.oldRootKey, <<"migration cert", i.agora, w.successorKey>>)
  /\ i.successor = LeafOf(w.successorKey, w.credentialKey, w.successorOpening, i.agora)

InboxRelation(w, i) ==
  /\ i.leaf = LeafOf(w.rootKey, w.credentialKey, w.opening, i.agora)
  /\ AssertInboxAction(i.action)
  /\ VerifyCertificate(w.certificate, w.rootKey, <<"inbox cert", i.agora, i.action, i.inbox>>)

-------------------------------------------------------------------------------
(* The backend: prove refuses what does not convert or does not satisfy;   *)
(* verify converts the public inputs it is given and checks the proof      *)
(* against them.                                                           *)

PlonkProvesChain(w, public) ==
  HasChainInstance(public) /\ HasChainWitness(w) /\ SatisfiesChain(w, ChainInstance(public))
PlonkProvesMigration(w, public) ==
  HasMigrationInstance(public) /\ HasMigrationWitness(w)
    /\ SatisfiesMigration(w, MigrationInstance(public))
PlonkProvesInbox(w, public) ==
  HasInboxInstance(public) /\ HasInboxWitness(w) /\ SatisfiesInbox(w, InboxInstance(public))

PlonkProof(w, instance) == [witness |-> w, binding |-> instance]

PlonkVerifyChain(proof, public) ==
  /\ HasChainInstance(public) /\ proof.binding = ChainInstance(public)
  /\ ChainRelation(proof.witness, ChainInstance(public))
PlonkVerifyMigration(proof, public) ==
  /\ HasMigrationInstance(public) /\ proof.binding = MigrationInstance(public)
  /\ MigrationRelation(proof.witness, MigrationInstance(public))
PlonkVerifyInbox(proof, public) ==
  /\ HasInboxInstance(public) /\ proof.binding = InboxInstance(public)
  /\ InboxRelation(proof.witness, InboxInstance(public))
===============================================================================
