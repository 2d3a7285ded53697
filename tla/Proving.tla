-------------------------------- MODULE Proving --------------------------------
(***************************************************************************)
(* Holders and an agora, joined by a proving backend.  A holder loads its  *)
(* material and assembles a witness (nymora-protocol/src/proving.rs), as   *)
(* stored or with one field replaced, and proves through the action API    *)
(* for the roots of some epoch, or synthesizes the circuit with it, asking *)
(* no evaluator; the verifier checks the proof against its                 *)
(* own current epoch's roots.  The agora is kept to what the statements    *)
(* rest on: each boundary publishes the class root, the revocation root    *)
(* and the spend root, and a migration is refused when its spend is        *)
(* already entered or its successor present.  AgoraState has the whole.    *)
(*                                                                         *)
(* sk_cred is the holder's number, carried through its lineage; each       *)
(* generation has a root of its own and an epoch key per epoch.            *)
(***************************************************************************)
EXTENDS Circuits, SequencesExt, FiniteSetsExt

CONSTANTS
  Holders,               \* a set of numbers: the credential keys
  Generations,           \* 0 is the admitted credential, the rest successors
  Backends,              \* which of "stub" and "plonk" are run
  Claims,                \* pairs of an action tag and a context to prove
  Inboxes,               \* inbox keys, as 32-byte strings
  MaxEpoch,              \* bound: epochs
  MaxRevoked,            \* bound: leaves revoked
  MaxMigrations,         \* bound: migrations accepted
  RootSecret(_, _),      \* the root key of a holder's generation
  Opening(_, _),         \* its r_root
  EpochSecret(_, _, _)   \* its key for an epoch

Bytes == 0..(ByteStrings - 1)

(* The 32-byte strings that name a scalar.                                 *)
BytesOf == [scalar \in 0..(ScalarOrder - 1) |-> {bytes \in Bytes : ScalarForm(bytes) = scalar}]

Keys == {EpochSecret(h, g, e) : h \in Holders, g \in Generations, e \in 1..MaxEpoch}
          \cup {RootSecret(h, g) : h \in Holders, g \in Generations}

(* What is minted is distinct, and below the order it is minted under.     *)
ASSUME MintAssumption ==
  /\ IsFiniteSet(Holders) /\ Holders \subseteq 0..(IdModulus - 1)
  /\ Keys \subseteq 0..(ScalarOrder - 1)
  /\ \A h, k \in Holders, g, j \in Generations :
       RootSecret(h, g) = RootSecret(k, j) => h = k /\ g = j
  /\ \A h \in Holders : \A g \in Generations : Opening(h, g) \in 0..(IdModulus - 1)

ASSUME InstanceAssumption ==
  /\ 0 \in Generations /\ MaxEpoch \in Nat \ {0}
  /\ Backends \subseteq {"stub", "plonk"}
  /\ Claims \subseteq (Authorship..Access) \X Nat

VARIABLES
  backend,   \* the ProofSystem in use
  history,   \* what each epoch published, the last is current
  staged,    \* what the next boundary will land
  bundle     \* at most one proof on its way to the verifier
vars == <<backend, history, staged, bundle>>

Roots      == Last(history)
Published  == ToSet(history)
RootKey(h, g) == PublicKey(RootSecret(h, g))
Leaf(h, g)    == Commit(RootKey(h, g), h, Opening(h, g), Agora)

-------------------------------------------------------------------------------
(* Witnesses.                                                              *)

PathTo(leaf, roots) ==
  [tree |-> roots.class,
   index |-> IF leaf \in ToSet(roots.class)
             THEN CHOOSE i \in DOMAIN roots.class : roots.class[i] = leaf ELSE 1]

EpochCert(h, g, e, key) == Sign(RootSecret(h, g), EpochCertMessage(Agora, e, PublicKey(key)))

(* ActingMaterial::witness over what is stored for epoch e.                *)
ActingWitness(h, g, e, roots) ==
  [epochKey          |-> EpochSecret(h, g, e),
   epochPublicKey    |-> PublicKey(EpochSecret(h, g, e)),
   certificate       |-> EpochCert(h, g, e, EpochSecret(h, g, e)),
   credentialKey     |-> h,
   opening           |-> Opening(h, g),
   rootKey           |-> RootKey(h, g),
   path              |-> PathTo(Leaf(h, g), roots),
   revocationAbsence |-> roots.revocation,
   spendAbsence      |-> roots.spend]

OtherKeys(h) == (Holders \ {h}) \cup {h + FieldOrder}
OtherOpenings(h, g) ==
  {Opening(h, k) : k \in Generations \ {g}} \cup {Opening(h, g) + FieldOrder}
OtherRoots(h, g) == {RootKey(h, k) : k \in Generations \ {g}} \cup {OffSubgroup}
OtherCerts(h, g, e) ==
  {MalformedSignature, Sign(RootSecret(h, g), InboxCertMessage(Agora, 0, h))}
    \cup {EpochCert(h, k, e, EpochSecret(h, g, e)) : k \in Generations \ {g}}
OtherPaths(path, roots) == {[path EXCEPT !.index = i] : i \in DOMAIN roots.class \ {path.index}}
Earlier(roots, old) == old.epoch < roots.epoch

(* The stored witness, and every one that differs from it in one field.    *)
Witnesses(h, g, e, roots) ==
  LET w == ActingWitness(h, g, e, roots) IN
  {w}
  \cup {[w EXCEPT !.epochKey = k] :
          k \in BytesOf[w.epochKey] \cup {EpochSecret(h, g, d) : d \in 1..roots.epoch}}
  \cup {[w EXCEPT !.epochPublicKey = OffSubgroup]}
  \cup {[w EXCEPT !.certificate = c] : c \in OtherCerts(h, g, e)}
  \cup {[w EXCEPT !.credentialKey = k] : k \in OtherKeys(h)}
  \cup {[w EXCEPT !.opening = o] : o \in OtherOpenings(h, g)}
  \cup {[w EXCEPT !.rootKey = k] : k \in OtherRoots(h, g)}
  \cup {[w EXCEPT !.path = p] : p \in OtherPaths(w.path, roots)}
  \cup {[w EXCEPT !.path.tree = old.class] : old \in {o \in Published : Earlier(roots, o)}}
  \cup {[w EXCEPT !.revocationAbsence = old.revocation] : old \in {o \in Published : Earlier(roots, o)}}
  \cup {[w EXCEPT !.spendAbsence = old.spend] : old \in {o \in Published : Earlier(roots, o)}}

SuccessorCert(h, g, pk) == Sign(RootSecret(h, g), MigrationCertMessage(Agora, pk))

MigratingWitness(h, g, next, roots) ==
  [oldRootKey |-> RootKey(h, g), oldOpening |-> Opening(h, g), credentialKey |-> h,
   path |-> PathTo(Leaf(h, g), roots), certificate |-> SuccessorCert(h, g, RootKey(h, next)),
   successorKey |-> RootKey(h, next), successorOpening |-> Opening(h, next),
   revocationAbsence |-> roots.revocation]

MigrationWitnesses(h, g, next, roots) ==
  LET w == MigratingWitness(h, g, next, roots) IN
  {w}
  \cup {[w EXCEPT !.credentialKey = k] : k \in OtherKeys(h)}
  \cup {[w EXCEPT !.oldRootKey = k] : k \in OtherRoots(h, g)}
  \cup {[w EXCEPT !.certificate = c] :
          c \in {MalformedSignature, SuccessorCert(h, next, RootKey(h, next)),
                 SuccessorCert(h, g, RootKey(h, g))}}
  \cup {[w EXCEPT !.path = p] : p \in OtherPaths(w.path, roots)}
  \cup {[w EXCEPT !.revocationAbsence = old.revocation] : old \in {o \in Published : Earlier(roots, o)}}

(* The successors a holder may name: its own, or one under another's key.  *)
Successors(h, next) == {Commit(RootKey(h, next), k, Opening(h, next), Agora) : k \in Holders}

(* A holder signs one instruction, to retire the inbox that is its own.    *)
InboxWitnesses(h, g) ==
  LET w == [rootKey |-> RootKey(h, g), opening |-> Opening(h, g), credentialKey |-> h,
            certificate |-> Sign(RootSecret(h, g), InboxCertMessage(Agora, 0, h))]
  IN {w} \cup {[w EXCEPT !.credentialKey = k] : k \in OtherKeys(h)}
         \cup {[w EXCEPT !.rootKey = k] : k \in OtherRoots(h, g)}
         \cup {[w EXCEPT !.certificate = MalformedSignature]}

-------------------------------------------------------------------------------
(* The backend in use.                                                     *)

ProvesChain(w, public) ==
  IF backend = "stub" THEN ChainHolds(w, public) ELSE PlonkProvesChain(w, public)
ChainProof(w, public) ==
  IF backend = "stub" THEN StubProof(w, ChainBinding(public)) ELSE PlonkProof(w, ChainInstance(public))
VerifiesChain(proof, public) ==
  IF backend = "stub" THEN StubVerifyChain(proof, public) ELSE PlonkVerifyChain(proof, public)

ProvesMigration(w, public) ==
  IF backend = "stub" THEN MigrationHolds(w, public) ELSE PlonkProvesMigration(w, public)
MigrationProof(w, public) ==
  IF backend = "stub" THEN StubProof(w, MigrationBinding(public))
                      ELSE PlonkProof(w, MigrationInstance(public))
VerifiesMigration(proof, public) ==
  IF backend = "stub" THEN StubVerifyMigration(proof, public) ELSE PlonkVerifyMigration(proof, public)

ProvesInbox(w, public) ==
  IF backend = "stub" THEN InboxHolds(w, public) ELSE PlonkProvesInbox(w, public)
InboxProof(w, public) ==
  IF backend = "stub" THEN StubProof(w, InboxBinding(public)) ELSE PlonkProof(w, InboxInstance(public))
VerifiesInbox(proof, public) ==
  IF backend = "stub" THEN StubVerifyInbox(proof, public) ELSE PlonkVerifyInbox(proof, public)

-------------------------------------------------------------------------------
Nothing == [leaves |-> << >>, revoked |-> {}, spent |-> {}]

Init ==
  /\ backend \in Backends
  /\ history = <<[epoch |-> 1, class |-> SetToSeq({Leaf(h, 0) : h \in Holders}),
                  revocation |-> {}, spend |-> {}]>>
  /\ staged = Nothing /\ bundle = {}

Send(kind, h, proof, public) ==
  bundle' = {[kind |-> kind, by |-> h, proof |-> proof, public |-> public]}

(* The claim is the witness's own derivation, or the untampered one's.     *)
ProveChain(h) ==
  /\ bundle = {}
  /\ \E g \in Generations, e \in 1..Roots.epoch, roots \in Published, claim \in Claims :
     \E w \in Witnesses(h, g, e, roots) :
     \E claimed \in {w, ActingWitness(h, g, e, roots)} :
       LET public == ProveAction(claimed, roots, claim[1], claim[2]) IN
       ProvesChain(w, public) /\ Send("chain", h, ChainProof(w, public), public)
  /\ UNCHANGED <<backend, history, staged>>

(* A client that synthesizes the circuit without evaluating first: what    *)
(* the circuit admits is all that limits it.                               *)
SynthesizeChain(h) ==
  /\ backend = "plonk" /\ bundle = {}
  /\ \E g \in Generations, e \in 1..Roots.epoch, roots \in Published, claim \in Claims :
     \E w \in Witnesses(h, g, e, roots) :
     \E claimed \in {w, ActingWitness(h, g, e, roots)} :
       LET public == ProveAction(claimed, roots, claim[1], claim[2]) IN
       /\ HasChainInstance(public) /\ HasChainWitness(w)
       /\ ChainRelation(w, ChainInstance(public))
       /\ Send("chain", h, ChainProof(w, public), public)
  /\ UNCHANGED <<backend, history, staged>>

ProvePlannedMigration(h) ==
  /\ bundle = {}
  /\ \E g, next \in Generations : g # next /\
     \E roots \in Published : \E w \in MigrationWitnesses(h, g, next, roots) :
     \E successor \in Successors(h, next) :
       LET public == ProveMigration(w, roots, successor) IN
       ProvesMigration(w, public) /\ Send("migration", h, MigrationProof(w, public), public)
  /\ UNCHANGED <<backend, history, staged>>

ProveInboxAction(h) ==
  /\ bundle = {}
  /\ \E g \in Generations : \E w \in InboxWitnesses(h, g) :
     \E k \in Holders, inbox \in Inboxes, action \in {0, 1} :
       LET public == ProveInbox(Leaf(k, g), inbox, action) IN
       ProvesInbox(w, public) /\ Send("inbox", h, InboxProof(w, public), public)
  /\ UNCHANGED <<backend, history, staged>>

(* The verifier takes the action, its context and its claim from the       *)
(* bundle, the epoch and the roots from its own state.                     *)
AcceptsChain(b) ==
  /\ b.kind = "chain"
  /\ VerifiesChain(b.proof, ChainPublics(Roots, b.public.tag, b.public.context, b.public.output))

AcceptsMigration(b) ==
  /\ b.kind = "migration"
  /\ b.public.spend \notin Roots.spend \cup staged.spent
  /\ b.public.successor \notin ToSet(Roots.class \o staged.leaves)
  /\ VerifiesMigration(b.proof, [b.public EXCEPT !.class = Roots.class,
                                                 !.revocation = Roots.revocation])

AcceptsInbox(b) ==
  /\ b.kind = "inbox"
  /\ b.public.leaf \in ToSet(Roots.class)
  /\ VerifiesInbox(b.proof, b.public)

VerifyMigration(b) ==
  /\ AcceptsMigration(b)
  /\ Cardinality(Roots.spend) + Len(staged.leaves) < MaxMigrations
  /\ staged' = [staged EXCEPT !.leaves = Append(@, b.public.successor),
                              !.spent = @ \cup {b.public.spend}]
  /\ bundle' = {}
  /\ UNCHANGED <<backend, history>>

(* Counted, refused, or lost on the way: the agora's trees do not move.    *)
Settle(b) == bundle' = {} /\ UNCHANGED <<backend, history, staged>>

Revoke(leaf) ==
  /\ Cardinality(Roots.revocation \cup staged.revoked) < MaxRevoked
  /\ staged' = [staged EXCEPT !.revoked = @ \cup {RevocationKey(leaf)}]
  /\ UNCHANGED <<backend, history, bundle>>

Rollover ==
  /\ Len(history) < MaxEpoch
  /\ history' = Append(history,
       [epoch |-> Roots.epoch + 1, class |-> Roots.class \o staged.leaves,
        revocation |-> Roots.revocation \cup staged.revoked,
        spend |-> Roots.spend \cup staged.spent])
  /\ staged' = Nothing
  /\ UNCHANGED <<backend, bundle>>

Next ==
  \/ \E h \in Holders : \/ ProveChain(h) \/ SynthesizeChain(h)
                       \/ ProvePlannedMigration(h) \/ ProveInboxAction(h)
  \/ \E b \in bundle : VerifyMigration(b) \/ Settle(b)
  \/ \E leaf \in ToSet(Roots.class) : Revoke(leaf)
  \/ Rollover

Spec == Init /\ [][Next]_vars

-------------------------------------------------------------------------------
(* Properties.                                                             *)

ChainsAccepted  == {b \in bundle : AcceptsChain(b)}
InboxesAccepted == {b \in bundle : AcceptsInbox(b)}

(* Whose count it is.  The output of an accepted action is derived from    *)
(* its author's own secret: sk_cred for a vouch or an approval, whatever   *)
(* migrations came before, and for authorship and presence an epoch key it *)
(* minted for this very epoch.  A vouch or an approval therefore counts    *)
(* once; so does the rest with the stub, and with Plonk when the key's     *)
(* bytes are below the field order, as the evaluator requires.  The        *)
(* circuit alone requires less: it bounds and hashes the bytes reduced by  *)
(* the field order, so what it admits is one output for every reduced form *)
(* (HashableForms: three, 2^256 being 2.2 field orders) and no other.      *)
HashableForms(key) ==
  {FieldForm(bytes) : bytes \in {b \in BytesOf[key] : FieldForm(b) < ScalarOrder}}

OutputsUnder(keys, public) ==
  {ActionOutput(public.tag, key, ActionContext(public.tag, public.context), public.agora) : key \in keys}

EpochSecrets(h) == {EpochSecret(h, g, Roots.epoch) : g \in Generations}
MintedOutputs(h, public) ==
  OutputsUnder(IF public.tag \in {Vouch, Policy} THEN {h} ELSE EpochSecrets(h), public)
AdmittedOutputs(h, public) ==
  OutputsUnder(UNION {HashableForms(key) : key \in EpochSecrets(h)}, public)

CountsAreTheHolders ==
  \A a \in ChainsAccepted : a.public.tag # Access =>
    \/ a.public.output \in MintedOutputs(a.by, a.public)
    \/ /\ a.public.tag \in {Authorship, LiveAuth} /\ a.proof.witness.epochKey >= FieldOrder
       /\ a.public.output \in AdmittedOutputs(a.by, a.public)

(* What the source says of the circuit: its bound gives one key exactly    *)
(* one hashable representation, and so one author one count in a context.  *)
OneCountPerKey ==
  \A a \in ChainsAccepted :
    a.public.tag # Access => a.public.output \in MintedOutputs(a.by, a.public)

(* The three roots and the certificate together pin the present: whoever   *)
(* an accepted proof comes from has, in the epoch it was accepted, a leaf  *)
(* that is in the class, neither revoked nor migrated away, and acted with *)
(* the key that leaf's root certified for exactly this epoch, in whatever  *)
(* byte form the circuit admits.                                           *)
Live(h, g, roots) ==
  /\ Leaf(h, g) \in ToSet(roots.class)
  /\ RevocationKey(Leaf(h, g)) \notin roots.revocation
  /\ MigrationNullifier(h, Leaf(h, g), Agora) \notin roots.spend

ActedWhileCurrent ==
  \A a \in ChainsAccepted : \E g \in Generations :
    Live(a.by, g, Roots) /\ ScalarForm(a.proof.witness.epochKey) = EpochSecret(a.by, g, Roots.epoch)

(* Migration moves a credential and never multiplies it: at every moment,  *)
(* with everything staged, each sk_cred opens at most one unspent leaf.    *)
Unspent(h) ==
  {leaf \in ToSet(Roots.class \o staged.leaves) :
     leaf[3] = h /\ MigrationNullifier(h, leaf, Agora) \notin Roots.spend \cup staged.spent}

OneLeafPerLineage == \A h \in Holders : Cardinality(Unspent(h)) <= 1

(* Nobody migrates out from under a revocation: once an epoch publishes an *)
(* unspent leaf as revoked, its spend is never entered.                    *)
RevokedNeverMigrates ==
  \A old \in Published : \A h \in Holders, g \in Generations :
    LET spend == MigrationNullifier(h, Leaf(h, g), Agora) IN
    RevocationKey(Leaf(h, g)) \in old.revocation /\ spend \notin old.spend =>
      spend \notin Roots.spend \cup staged.spent

(* An accepted inbox instruction is one its author's root signed, about    *)
(* its author's own leaf: not a retirement turned into a renewal, nor one  *)
(* carried to another leaf or another inbox.                               *)
InstructionIsTheHolders ==
  \A a \in InboxesAccepted :
    /\ a.public.leaf \in {Leaf(a.by, g) : g \in Generations}
    /\ a.public.action = 0
    /\ FromId(a.public.inbox) = FromId(a.by)

(* The backends stand for one another: over everything a holder could hand *)
(* to prove in this epoch, what the evaluator admits the stub and the      *)
(* circuit establish, what the circuit admits the evaluator admits, and    *)
(* with secrets as they are minted the circuits refuse nothing the stub    *)
(* accepts.  One thing the chain circuit admits and the evaluator does not *)
(* is an epoch key at or above the field order, and then nothing else is   *)
(* different: the evaluator admits the key reduced to its scalar, with the *)
(* output that derives.  Read while nothing is under way, for every        *)
(* published epoch.                                                        *)
ChainTrials ==
  UNION {UNION {{<<w, ProveAction(c, roots, claim[1], claim[2])>> : claim \in Claims,
            c \in {w, ActingWitness(h, g, e, roots), ActingWitness(h, 0, 1, roots)}} :
         w \in Witnesses(h, g, e, roots)} :
         h \in Holders, g \in Generations, e \in 1..Roots.epoch, roots \in Published}

Reduced(w)      == [w EXCEPT !.epochKey = ScalarForm(@)]
Rederived(w, i) == [i EXCEPT !.output = EvaluatedOutput(w, i)]

MigrationTrials ==
  UNION {UNION {{<<w, ProveMigration(c, roots, s)>> :
            w \in MigrationWitnesses(h, g, next, roots), s \in Successors(h, next),
            c \in {MigratingWitness(h, g, next, roots), MigratingWitness(h, 0, next, roots)}} :
         next \in Generations \ {g}} : h \in Holders, g \in Generations, roots \in Published}

InboxTrials ==
  UNION {{<<w, ProveInbox(Leaf(k, g), inbox, action)>> : w \in InboxWitnesses(h, g),
            k \in Holders, inbox \in Inboxes, action \in {0, 1}} :
         h \in Holders, g \in Generations}

Minted(w) == w.credentialKey \in Holders /\ w.opening < FieldOrder

BackendsAgree ==
  bundle = {} =>
    /\ \A t \in ChainTrials :
         /\ PlonkProvesChain(t[1], t[2]) =>
              ChainHolds(t[1], t[2]) /\ ChainRelation(t[1], ChainInstance(t[2]))
         /\ HasChainWitness(t[1]) /\ ChainRelation(t[1], ChainInstance(t[2])) =>
              /\ t[1].epochKey < FieldOrder => SatisfiesChain(t[1], ChainInstance(t[2]))
              /\ SatisfiesChain(Reduced(t[1]), Rederived(Reduced(t[1]), ChainInstance(t[2])))
         /\ Minted(t[1]) /\ ChainHolds(t[1], t[2]) => PlonkProvesChain(t[1], t[2])
    /\ \A t \in MigrationTrials :
         /\ PlonkProvesMigration(t[1], t[2]) =>
              MigrationHolds(t[1], t[2]) /\ MigrationRelation(t[1], MigrationInstance(t[2]))
         /\ HasMigrationWitness(t[1]) /\ MigrationRelation(t[1], MigrationInstance(t[2])) =>
              SatisfiesMigration(t[1], MigrationInstance(t[2]))
         /\ t[1].credentialKey \in Holders /\ MigrationHolds(t[1], t[2]) =>
              PlonkProvesMigration(t[1], t[2])
    /\ \A t \in InboxTrials :
         /\ PlonkProvesInbox(t[1], t[2]) =>
              InboxHolds(t[1], t[2]) /\ InboxRelation(t[1], InboxInstance(t[2]))
         /\ HasInboxWitness(t[1]) /\ InboxRelation(t[1], InboxInstance(t[2])) =>
              SatisfiesInbox(t[1], InboxInstance(t[2]))
         /\ Minted(t[1]) /\ InboxHolds(t[1], t[2]) => PlonkProvesInbox(t[1], t[2])

(* A proof is for its own inputs.  Altered: the same proof presented with  *)
(* one input changed - the agora, the epoch's roots, the action, the       *)
(* context or the claim.  The contract of ProofSystem::verify is that none *)
(* is accepted.  The stub keeps to it; what Plonk keeps to is that one     *)
(* which is differs only in the bits of an identifier that the field entry *)
(* drops.                                                                  *)
Altered(public) ==
  {[public EXCEPT !.agora = Agora + IdModulus]}
  \cup {[public EXCEPT !.tag = t] : t \in Authorship..Access}
  \cup {[public EXCEPT !.context = claim[2]] : claim \in Claims}
  \cup {[public EXCEPT !.context = @ + IdModulus]}
  \cup {[public EXCEPT !.output = o] : o \in {Zero, NonCanonical}}
  \cup {ChainPublics(roots, public.tag, public.context, public.output) : roots \in Published}

InChain == {b \in bundle : b.kind = "chain"}

SameEntry(p, q) ==
  /\ FromId(p.agora) = FromId(q.agora)
  /\ p.tag = q.tag /\ ActionContext(p.tag, p.context) = ActionContext(q.tag, q.context)
  /\ [p EXCEPT !.agora = 0, !.context = 0] = [q EXCEPT !.agora = 0, !.context = 0]

BoundToItsEntry ==
  \A b \in InChain : \A public \in Altered(b.public) :
    VerifiesChain(b.proof, public) =>
      SameEntry(public, b.public) /\ (backend = "stub" => public = b.public)
===============================================================================
