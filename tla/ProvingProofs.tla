----------------------------- MODULE ProvingProofs -----------------------------
(***************************************************************************)
(* What an accepted proof says, for any holders, generations, claims and   *)
(* widths, with either backend.                                            *)
(*                                                                         *)
(* The argument goes through facts that both backends establish: a chain   *)
(* that verifies (ChainFacts), a migration (MigrationFacts), an inbox      *)
(* instruction (InboxFacts).  From these, and from the leaves a class can  *)
(* hold, follows whose proof it is (Author, Mover, Instructor).  The       *)
(* inductive invariant says what every proof in transit was made with,     *)
(* what each epoch published, and that a holder has one unspent leaf.      *)
(***************************************************************************)
EXTENDS Proving, SequenceLemmas

LEMMA Small ==
  ASSUME NEW m \in Nat, NEW a \in 0..(m - 1)
  PROVE  a % m = a
OBVIOUS

LEMMA Division ==
  ASSUME NEW m \in Nat \ {0}, NEW a \in Nat
  PROVE  a \div m \in Nat /\ a % m \in 0..(m - 1) /\ a = m * (a \div m) + (a % m)
OBVIOUS

(* A remainder is what division leaves, and nothing else is.               *)
LEMMA RemainderIs ==
  ASSUME NEW m \in Nat \ {0}, NEW k \in Nat, NEW a \in 0..(m - 1)
  PROVE  (m * k + a) % m = a
<1> DEFINE x == m * k + a
           q == x \div m
           r == x % m
<1>1. x \in Nat /\ q \in Int /\ r \in 0..(m - 1) /\ x = m * q + r
  OBVIOUS
<1>2. x = m * k + a
  OBVIOUS
<1> HIDE DEF x, q, r
<1>3. m * (q - k) = a - r
  BY <1>1, <1>2
<1>4. q - k = 0
  <2>1. CASE q - k >= 1
    <3>1. m * (q - k) >= m
      BY <1>1, <2>1
    <3> QED
      BY <1>1, <1>3, <3>1
  <2>2. CASE q - k <= -1
    <3>1. m * (q - k) <= -m
      BY <1>1, <2>2
    <3> QED
      BY <1>1, <1>3, <3>1
  <2> QED
    BY <1>1, <2>1, <2>2
<1>5. r = a
  BY <1>1, <1>3, <1>4
<1> QED
  BY <1>5 DEF r, x

LEMMA Canonical ==
  /\ \A n \in 0..(FieldOrder - 1) : FromWitness(n) = n
  /\ \A h \in Holders : h \in Nat /\ h < FieldOrder /\ FromWitness(h) = h
  /\ \A h \in Holders, g \in Generations : 
       Opening(h, g) \in Nat /\ Opening(h, g) < FieldOrder /\ FromWitness(Opening(h, g)) = Opening(h, g)
<1>1. \A n \in 0..(FieldOrder - 1) : FromWitness(n) = n
  BY Small, OrderAssumption DEF FromWitness
<1>2. \A n \in 0..(IdModulus - 1) : n \in 0..(FieldOrder - 1) /\ n \in Nat /\ n < FieldOrder
  BY OrderAssumption
<1> QED
  BY <1>1, <1>2, MintAssumption

LEMMA KeysCanonical ==
  /\ \A h \in Holders, g \in Generations : RootSecret(h, g) \in 0..(ScalarOrder - 1)
  /\ \A h \in Holders, g \in Generations, e \in 1..MaxEpoch : EpochSecret(h, g, e) \in 0..(ScalarOrder - 1)
<1>1. \A h \in Holders, g \in Generations : RootSecret(h, g) \in Keys
  BY DEF Keys
<1>2. \A h \in Holders, g \in Generations, e \in 1..MaxEpoch : EpochSecret(h, g, e) \in Keys
  BY DEF Keys
<1> QED
  BY <1>1, <1>2, MintAssumption

(* The two readings of an epoch key's bytes.                               *)
LEMMA Forms ==
  /\ \A n \in Nat : ScalarForm(n) \in 0..(ScalarOrder - 1) /\ FieldForm(n) \in 0..(FieldOrder - 1)
  /\ \A n \in Nat : FieldForm(n) = FromWitness(n)
  /\ \A n \in Nat : n < ScalarOrder => ScalarForm(n) = n /\ FieldForm(n) = n
  /\ \A n \in Nat : n < FieldOrder => FieldForm(n) = n
<1>1. \A n \in Nat : n < ScalarOrder => ScalarForm(n) = n
  BY Small, OrderAssumption DEF ScalarForm
<1>2. \A n \in Nat : n < FieldOrder => FieldForm(n) = n
  BY Small, OrderAssumption DEF FieldForm
<1>3. \A n \in Nat : ScalarForm(n) \in 0..(ScalarOrder - 1)
  BY Division, OrderAssumption DEF ScalarForm
<1>4. \A n \in Nat : FieldForm(n) \in 0..(FieldOrder - 1)
  BY Division, OrderAssumption DEF FieldForm
<1>5. \A n \in Nat : FieldForm(n) = FromWitness(n)
  BY DEF FieldForm, FromWitness
<1>6. \A n \in Nat : n < ScalarOrder => ScalarForm(n) = n /\ FieldForm(n) = n
  <2>1. \A n \in Nat : n < ScalarOrder => n < FieldOrder
    BY OrderAssumption
  <2> QED
    BY <1>1, <1>2, <2>1
<1> QED
  BY <1>2, <1>3, <1>4, <1>5, <1>6

LEMMA Points ==
  /\ \A h \in Holders, g \in Generations : RootKey(h, g) = <<"point", RootSecret(h, g)>>
  /\ \A h \in Holders, g \in Generations, e \in 1..MaxEpoch :
       PublicKey(EpochSecret(h, g, e)) = <<"point", EpochSecret(h, g, e)>>
  /\ ~IsPoint(OffSubgroup)
  /\ \A n \in Nat : IsPoint(PublicKey(n)) <=> n < ScalarOrder
  /\ \A n \in Nat : n < ScalarOrder => PublicKey(n) = <<"point", n>>
<1>1. \A n \in Nat : n < ScalarOrder => PublicKey(n) = <<"point", n>>
  BY DEF PublicKey
<1>2. ~IsPoint(OffSubgroup)
  BY DEF IsPoint, OffSubgroup
<1>3. ASSUME NEW n \in Nat PROVE IsPoint(PublicKey(n)) <=> n < ScalarOrder
  <2>1. CASE n < ScalarOrder
    BY <1>1, <2>1 DEF IsPoint
  <2>2. CASE ~(n < ScalarOrder)
    BY <1>2, <2>2 DEF PublicKey
  <2> QED
    BY <2>1, <2>2
<1>4. \A n \in 0..(ScalarOrder - 1) : n \in Nat /\ n < ScalarOrder
  BY OrderAssumption
<1>5. \A h \in Holders, g \in Generations : RootKey(h, g) = <<"point", RootSecret(h, g)>>
  BY <1>1, <1>4, KeysCanonical DEF RootKey
<1>6. \A h \in Holders, g \in Generations, e \in 1..MaxEpoch :
        PublicKey(EpochSecret(h, g, e)) = <<"point", EpochSecret(h, g, e)>>
  BY <1>1, <1>4, KeysCanonical
<1> QED
  BY <1>1, <1>2, <1>3, <1>5, <1>6

LEMMA Signatures ==
  /\ \A s, t, m, n : Sign(s, m) = Sign(t, n) <=> s = t /\ m = n
  /\ \A s, m : Sign(s, m)[1] = "signature" /\ Sign(s, m)[2] = s /\ Sign(s, m) # MalformedSignature
BY DEF Sign, MalformedSignature

LEMMA Messages ==
  /\ \A a, e, pk, b, d, qk :
       EpochCertMessage(a, e, pk) = EpochCertMessage(b, d, qk) <=>
         FromId(a) = FromId(b) /\ e = d /\ pk = qk
  /\ \A a, pk, b, qk :
       MigrationCertMessage(a, pk) = MigrationCertMessage(b, qk) <=>
         FromId(a) = FromId(b) /\ pk = qk
  /\ \A a, c, i, b, d, j :
       InboxCertMessage(a, c, i) = InboxCertMessage(b, d, j) <=>
         FromId(a) = FromId(b) /\ c = d /\ FromId(i) = FromId(j)
  /\ \A a, e, pk, b, d, i : EpochCertMessage(a, e, pk) # InboxCertMessage(b, d, i)
<1>1. \A a, e, pk, b, d, i : EpochCertMessage(a, e, pk)[1] # InboxCertMessage(b, d, i)[1]
  BY DEF EpochCertMessage, InboxCertMessage
<1> QED
  BY <1>1 DEF EpochCertMessage, MigrationCertMessage, InboxCertMessage

Leaves == {Leaf(h, g) : h \in Holders, g \in Generations}

LEMMA LeafIs ==
  ASSUME NEW h \in Holders, NEW g \in Generations
  PROVE  Leaf(h, g) = <<"leaf", <<"point", RootSecret(h, g)>>, h, Opening(h, g), FromId(Agora)>>
BY Points, Canonical DEF Leaf, Commit

(* A leaf under a holder's root of one generation is that leaf.            *)
LEMMA LeafOwner ==
  ASSUME NEW h \in Holders, NEW g \in Generations, NEW key, NEW opening, NEW agora,
         <<"leaf", RootKey(h, g), key, opening, agora>> \in Leaves
  PROVE  /\ <<"leaf", RootKey(h, g), key, opening, agora>> = Leaf(h, g)
         /\ key = h
<1>1. PICK k \in Holders, j \in Generations :
        <<"leaf", RootKey(h, g), key, opening, agora>> = Leaf(k, j)
  BY DEF Leaves
<1>2. RootSecret(h, g) = RootSecret(k, j) /\ key = k
  BY <1>1, LeafIs, Points
<1> QED
  BY <1>1, <1>2, MintAssumption

LEMMA NoLeafOffSubgroup ==
  ASSUME NEW key, NEW opening, NEW agora
  PROVE  <<"leaf", OffSubgroup, key, opening, agora>> \notin Leaves
<1> SUFFICES ASSUME NEW k \in Holders, NEW j \in Generations,
                    <<"leaf", OffSubgroup, key, opening, agora>> = Leaf(k, j)
             PROVE  FALSE
  BY DEF Leaves
<1>1. OffSubgroup = <<"point", RootSecret(k, j)>>
  BY LeafIs
<1> QED
  BY <1>1, Points DEF IsPoint

-------------------------------------------------------------------------------
(* Witnesses.                                                              *)

LEMMA SecretsAreBytes ==
  /\ Bytes \subseteq Nat
  /\ \A h \in Holders, g \in Generations, e \in 1..MaxEpoch : EpochSecret(h, g, e) \in Bytes
<1>1. 0..(ScalarOrder - 1) \subseteq Bytes
  BY OrderAssumption, ByteAssumption DEF Bytes
<1> QED
  BY <1>1, KeysCanonical, ByteAssumption DEF Bytes

WitnessOf(w, h, g, e) ==
  /\ w = [epochKey |-> w.epochKey, epochPublicKey |-> w.epochPublicKey,
          certificate |-> w.certificate, credentialKey |-> w.credentialKey,
          opening |-> w.opening, rootKey |-> w.rootKey, path |-> w.path,
          revocationAbsence |-> w.revocationAbsence, spendAbsence |-> w.spendAbsence]
  /\ w.epochKey \in Bytes /\ w.credentialKey \in Nat /\ w.opening \in Nat
  /\ w.epochPublicKey \in {PublicKey(EpochSecret(h, g, e)), OffSubgroup}
  /\ w.rootKey = OffSubgroup \/ \E k \in Generations : w.rootKey = RootKey(h, k)
  /\ \/ \E k \in Generations :
          /\ w.certificate = EpochCert(h, k, e, EpochSecret(h, g, e))
          /\ k = g \/ w.rootKey = RootKey(h, g)
     \/ w.certificate = MalformedSignature
     \/ w.certificate = Sign(RootSecret(h, g), InboxCertMessage(Agora, 0, h))

LEMMA WitnessShape ==
  ASSUME NEW h \in Holders, NEW g \in Generations, NEW e \in 1..MaxEpoch, NEW roots,
         roots.epoch \in 1..MaxEpoch, NEW w \in Witnesses(h, g, e, roots)
  PROVE  WitnessOf(w, h, g, e)
<1> DEFINE a == ActingWitness(h, g, e, roots)
<1>1. /\ a.epochKey = EpochSecret(h, g, e) /\ a.credentialKey = h /\ a.opening = Opening(h, g)
      /\ a.epochPublicKey = PublicKey(EpochSecret(h, g, e)) /\ a.rootKey = RootKey(h, g)
      /\ a.certificate = EpochCert(h, g, e, EpochSecret(h, g, e))
  BY DEF ActingWitness
<1>2. WitnessOf(a, h, g, e)
  <2>1. a = [epochKey |-> a.epochKey, epochPublicKey |-> a.epochPublicKey,
             certificate |-> a.certificate, credentialKey |-> a.credentialKey,
             opening |-> a.opening, rootKey |-> a.rootKey, path |-> a.path,
             revocationAbsence |-> a.revocationAbsence, spendAbsence |-> a.spendAbsence]
    BY DEF ActingWitness
  <2>2. a.epochKey \in Bytes
    BY <1>1, SecretsAreBytes
  <2> QED
    BY <1>1, <2>1, <2>2, Canonical DEF WitnessOf
<1>3. \A k \in OtherKeys(h) : k \in Nat
  BY Canonical, OrderAssumption DEF OtherKeys
<1>4. \A o \in OtherOpenings(h, g) : o \in Nat
  BY Canonical, OrderAssumption DEF OtherOpenings
<1>5. ASSUME NEW k, w = [a EXCEPT !.epochKey = k],
             k \in BytesOf[a.epochKey] \/ \E d \in 1..roots.epoch : k = EpochSecret(h, g, d)
      PROVE  WitnessOf(w, h, g, e)
  <2>1. k \in Bytes
    <3>1. BytesOf[a.epochKey] \subseteq Bytes
      BY <1>1, KeysCanonical DEF BytesOf
    <3>2. \A d \in 1..roots.epoch : d \in 1..MaxEpoch
      BY InstanceAssumption
    <3> QED
      BY <1>5, <3>1, <3>2, SecretsAreBytes
  <2> QED
    BY <1>2, <1>5, <2>1 DEF WitnessOf, ActingWitness
<1>6. CASE w = [a EXCEPT !.epochPublicKey = OffSubgroup]
  BY <1>2, <1>6 DEF WitnessOf, ActingWitness
<1>7. ASSUME NEW c \in OtherCerts(h, g, e), w = [a EXCEPT !.certificate = c]
      PROVE  WitnessOf(w, h, g, e)
  BY <1>1, <1>2, <1>7 DEF WitnessOf, ActingWitness, OtherCerts
<1>8. ASSUME NEW k \in OtherKeys(h), w = [a EXCEPT !.credentialKey = k]
      PROVE  WitnessOf(w, h, g, e)
  BY <1>2, <1>3, <1>8 DEF WitnessOf, ActingWitness
<1>9. ASSUME NEW o \in OtherOpenings(h, g), w = [a EXCEPT !.opening = o]
      PROVE  WitnessOf(w, h, g, e)
  BY <1>2, <1>4, <1>9 DEF WitnessOf, ActingWitness
<1>10. ASSUME NEW k \in OtherRoots(h, g), w = [a EXCEPT !.rootKey = k]
       PROVE  WitnessOf(w, h, g, e)
  BY <1>1, <1>2, <1>10 DEF WitnessOf, ActingWitness, OtherRoots
<1>11. ASSUME NEW p, \/ w = [a EXCEPT !.path = p] \/ w = [a EXCEPT !.path.tree = p]
                     \/ w = [a EXCEPT !.revocationAbsence = p] \/ w = [a EXCEPT !.spendAbsence = p]
       PROVE  WitnessOf(w, h, g, e)
  <2>1. /\ w.epochKey = a.epochKey /\ w.credentialKey = a.credentialKey /\ w.opening = a.opening
        /\ w.epochPublicKey = a.epochPublicKey /\ w.rootKey = a.rootKey
        /\ w.certificate = a.certificate
    BY <1>11 DEF ActingWitness
  <2>2. w = [epochKey |-> w.epochKey, epochPublicKey |-> w.epochPublicKey,
             certificate |-> w.certificate, credentialKey |-> w.credentialKey,
             opening |-> w.opening, rootKey |-> w.rootKey, path |-> w.path,
             revocationAbsence |-> w.revocationAbsence, spendAbsence |-> w.spendAbsence]
    BY <1>11 DEF ActingWitness
  <2> QED
    BY <1>2, <2>1, <2>2 DEF WitnessOf
<1> QED
  BY <1>2, <1>5, <1>6, <1>7, <1>8, <1>9, <1>10, <1>11 DEF Witnesses

-------------------------------------------------------------------------------
(* What a chain proof that verifies says, with either backend.             *)

ChainFacts(w, public, key, opening) ==
  LET leaf == <<"leaf", w.rootKey, key, opening, FromId(public.agora)>> IN
  /\ FieldForm(w.epochKey) < ScalarOrder /\ w.epochPublicKey = <<"point", ScalarForm(w.epochKey)>>
  /\ w.certificate = Sign(w.rootKey[2], EpochCertMessage(public.agora, public.epoch, w.epochPublicKey))
  /\ leaf \in Range(public.class)
  /\ <<"revoke", leaf>> \notin public.revocation
  /\ <<"spend", key, leaf, FromId(public.agora)>> \notin public.spend
  /\ public.tag # Access =>
       public.output = ActionOutput(public.tag,
                         IF public.tag \in {Authorship, LiveAuth} THEN FieldForm(w.epochKey) ELSE key,
                         ActionContext(public.tag, public.context), public.agora)

Tags == Authorship..Access

LEMMA TagsAre == Tags = {Authorship, Vouch, Policy, LiveAuth, Access}
BY DEF Tags, Authorship, Vouch, Policy, LiveAuth, Access

LEMMA StubEstablishes ==
  ASSUME NEW w, NEW public, w.epochKey \in Nat, ChainHolds(w, public)
  PROVE  ChainFacts(w, public, FromWitness(w.credentialKey), FromWitness(w.opening))
<1> DEFINE leaf == Commit(w.rootKey, w.credentialKey, w.opening, public.agora)
<1>1. leaf = <<"leaf", w.rootKey, FromWitness(w.credentialKey), FromWitness(w.opening),
               FromId(public.agora)>>
  BY DEF Commit
<1>2. /\ FieldForm(w.epochKey) = w.epochKey /\ w.epochKey < ScalarOrder
      /\ w.epochPublicKey = <<"point", ScalarForm(w.epochKey)>>
  BY Points, Forms DEF ChainHolds, Corresponds
<1>3. w.certificate = Sign(w.rootKey[2], EpochCertMessage(public.agora, public.epoch, w.epochPublicKey))
  BY DEF ChainHolds, Certified, VerifySignature
<1>4. leaf \in Range(public.class)
  BY DEF ChainHolds, Included, Range
<1>5. <<"revoke", leaf>> \notin public.revocation
  BY DEF ChainHolds, Absent, RevocationKey
<1>6. <<"spend", FromWitness(w.credentialKey), leaf, FromId(public.agora)>> \notin public.spend
  BY DEF ChainHolds, Absent, MigrationNullifier
<1>7. FromWitness(w.epochKey) = FieldForm(w.epochKey)
  BY Forms
<1>8. public.tag # Access =>
       public.output = ActionOutput(public.tag,
                         IF public.tag \in {Authorship, LiveAuth} THEN FieldForm(w.epochKey)
                                                                  ELSE FromWitness(w.credentialKey),
                         ActionContext(public.tag, public.context), public.agora)
  BY <1>7 DEF ChainHolds, StubActionHolds, ActionContext, AttestationNullifier, VouchNullifier,
              PolicyNullifier, Pseudonym, Authorship, Vouch, Policy, LiveAuth, Access
<1> QED
  BY <1>1, <1>2, <1>3, <1>4, <1>5, <1>6, <1>8 DEF ChainFacts

LEMMA PlonkEstablishes ==
  ASSUME NEW w, NEW public, w.epochKey \in Nat, ChainRelation(w, ChainInstance(public))
  PROVE  ChainFacts(w, public, w.credentialKey, w.opening)
<1> DEFINE i == ChainInstance(public)
           leaf == <<"leaf", w.rootKey, w.credentialKey, w.opening, FromId(public.agora)>>
<1>1. /\ i.agora = FromId(public.agora) /\ i.epoch = public.epoch /\ i.class = public.class
      /\ i.revocation = public.revocation /\ i.spend = public.spend /\ i.tag = public.tag
      /\ i.context = ActionContext(public.tag, public.context)
      /\ public.tag # Access => i.output = public.output
  BY DEF ChainInstance
<1>2. leaf = LeafOf(w.rootKey, w.credentialKey, w.opening, i.agora)
  BY <1>1 DEF LeafOf
<1> HIDE DEF i, leaf
<1>3. FieldForm(w.epochKey) < ScalarOrder
  BY DEF ChainRelation, CanonicalScalar
<1>4. w.epochPublicKey = <<"point", ScalarForm(w.epochKey)>>
  BY DEF ChainRelation, Multiplies, Generates
<1>5. w.certificate = Sign(w.rootKey[2], EpochCertMessage(public.agora, public.epoch, w.epochPublicKey))
  BY <1>1 DEF i, ChainRelation, VerifyCertificate, Satisfies, Sign, EpochCertMessage
<1>6. leaf \in Range(public.class)
  BY <1>1, <1>2 DEF i, ChainRelation, MerkleRoot, Included, Range
<1>7. <<"revoke", leaf>> \notin public.revocation
  BY <1>1, <1>2 DEF i, ChainRelation, AssertAbsent, Absent, RevocationEntry
<1>8. <<"spend", w.credentialKey, leaf, FromId(public.agora)>> \notin public.spend
  BY <1>1, <1>2 DEF i, ChainRelation, AssertAbsent, Absent, SpendOf
<1>9. public.tag # Access =>
       public.output = ActionOutput(public.tag,
                         IF public.tag \in {Authorship, LiveAuth}
                         THEN FieldForm(w.epochKey) ELSE w.credentialKey,
                         ActionContext(public.tag, public.context), public.agora)
  BY <1>1 DEF i, ChainRelation, UsesEpochKey, DerivesNothing, ActionOutput
<1> QED
  BY <1>3, <1>4, <1>5, <1>6, <1>7, <1>8, <1>9 DEF ChainFacts, leaf

(* Whoever made it acted as its own current generation, in this epoch.     *)
LEMMA Author ==
  ASSUME NEW h \in Holders, NEW g \in Generations, NEW e \in 1..MaxEpoch, NEW w,
         WitnessOf(w, h, g, e), NEW public, public.agora = Agora, Range(public.class) \subseteq Leaves,
         NEW key, NEW opening, ChainFacts(w, public, key, opening)
  PROVE  /\ key = h /\ e = public.epoch /\ ScalarForm(w.epochKey) = EpochSecret(h, g, e)
         /\ Leaf(h, g) \in Range(public.class)
         /\ <<"revoke", Leaf(h, g)>> \notin public.revocation
         /\ <<"spend", h, Leaf(h, g), FromId(Agora)>> \notin public.spend
<1> DEFINE leaf == <<"leaf", w.rootKey, key, opening, FromId(Agora)>>
<1>1. leaf \in Leaves
  BY DEF ChainFacts
<1>2. PICK k \in Generations : w.rootKey = RootKey(h, k)
  BY <1>1, NoLeafOffSubgroup DEF WitnessOf
<1>3. leaf = Leaf(h, k) /\ key = h
  BY <1>1, <1>2, LeafOwner
<1>4. w.certificate = Sign(RootSecret(h, k), EpochCertMessage(Agora, public.epoch, w.epochPublicKey))
  BY <1>2, Points DEF ChainFacts
<1>5. PICK j \in Generations : /\ w.certificate = EpochCert(h, j, e, EpochSecret(h, g, e))
                               /\ j = g \/ w.rootKey = RootKey(h, g)
  BY <1>4, Signatures, Messages DEF WitnessOf
<1>6. /\ RootSecret(h, j) = RootSecret(h, k)
      /\ e = public.epoch /\ w.epochPublicKey = PublicKey(EpochSecret(h, g, e))
  <2>1. Sign(RootSecret(h, j), EpochCertMessage(Agora, e, PublicKey(EpochSecret(h, g, e))))
          = Sign(RootSecret(h, k), EpochCertMessage(Agora, public.epoch, w.epochPublicKey))
    BY <1>4, <1>5 DEF EpochCert
  <2>2. /\ RootSecret(h, j) = RootSecret(h, k)
        /\ EpochCertMessage(Agora, e, PublicKey(EpochSecret(h, g, e)))
             = EpochCertMessage(Agora, public.epoch, w.epochPublicKey)
    BY <2>1, Signatures
  <2> QED
    BY <2>2, Messages
<1>7. j = k
  BY <1>6, MintAssumption
<1>8. k = g
  BY <1>2, <1>5, <1>7, Points, MintAssumption
<1>9. ScalarForm(w.epochKey) = EpochSecret(h, g, e)
  BY <1>6, Points DEF ChainFacts
<1> QED
  BY <1>3, <1>6, <1>8, <1>9 DEF ChainFacts

-------------------------------------------------------------------------------
(* Migrations and inbox instructions.                                      *)

MigrationWitnessOf(w, h, g, next) ==
  /\ w.credentialKey \in Nat /\ w.oldOpening = Opening(h, g)
  /\ w.successorKey = RootKey(h, next) /\ w.successorOpening = Opening(h, next)
  /\ w.oldRootKey = OffSubgroup \/ \E k \in Generations : w.oldRootKey = RootKey(h, k)

LEMMA MigrationWitnessShape ==
  ASSUME NEW h \in Holders, NEW g \in Generations, NEW next \in Generations, NEW roots,
         NEW w \in MigrationWitnesses(h, g, next, roots)
  PROVE  MigrationWitnessOf(w, h, g, next)
<1> DEFINE a == MigratingWitness(h, g, next, roots)
<1>1. MigrationWitnessOf(a, h, g, next)
  BY Canonical DEF MigratingWitness, MigrationWitnessOf
<1>2. \A k \in OtherKeys(h) : k \in Nat
  BY Canonical, OrderAssumption DEF OtherKeys
<1>3. ASSUME NEW k \in OtherKeys(h), w = [a EXCEPT !.credentialKey = k]
      PROVE  MigrationWitnessOf(w, h, g, next)
  BY <1>1, <1>2, <1>3 DEF MigrationWitnessOf, MigratingWitness
<1>4. ASSUME NEW k \in OtherRoots(h, g), w = [a EXCEPT !.oldRootKey = k]
      PROVE  MigrationWitnessOf(w, h, g, next)
  BY <1>1, <1>4 DEF MigrationWitnessOf, MigratingWitness, OtherRoots
<1>5. ASSUME NEW p, w = [a EXCEPT !.certificate = p] \/ w = [a EXCEPT !.path = p]
                    \/ w = [a EXCEPT !.revocationAbsence = p]
      PROVE  MigrationWitnessOf(w, h, g, next)
  BY <1>1, <1>5 DEF MigrationWitnessOf, MigratingWitness
<1> QED
  BY <1>1, <1>3, <1>4, <1>5 DEF MigrationWitnesses

MigrationFacts(w, public, key, opening, carried) ==
  LET leaf == <<"leaf", w.oldRootKey, key, opening, FromId(public.agora)>> IN
  /\ leaf \in Range(public.class)
  /\ <<"revoke", leaf>> \notin public.revocation
  /\ public.spend = <<"spend", key, leaf, FromId(public.agora)>>
  /\ public.successor = <<"leaf", w.successorKey, key, carried, FromId(public.agora)>>

(* The public inputs of a migration and of an instruction.                 *)
MigrationPublic(class, revocation, spend, successor) ==
  [agora |-> Agora, class |-> class, revocation |-> revocation, spend |-> spend,
   successor |-> successor]

LEMMA MigrationEstablishes ==
  ASSUME NEW w, NEW class, NEW revocation, NEW spend, NEW successor, NEW public,
         public = MigrationPublic(class, revocation, spend, successor)
  PROVE  /\ MigrationHolds(w, public) =>
              MigrationFacts(w, public, FromWitness(w.credentialKey), FromWitness(w.oldOpening),
                             FromWitness(w.successorOpening))
         /\ MigrationRelation(w, MigrationInstance(public)) =>
              MigrationFacts(w, public, w.credentialKey, w.oldOpening, w.successorOpening)
<1>1. ASSUME MigrationHolds(w, public)
      PROVE  MigrationFacts(w, public, FromWitness(w.credentialKey), FromWitness(w.oldOpening),
                            FromWitness(w.successorOpening))
  <2> DEFINE leaf == OldLeaf(w, public.agora)
  <2>1. leaf = <<"leaf", w.oldRootKey, FromWitness(w.credentialKey), FromWitness(w.oldOpening),
                 FromId(public.agora)>>
    BY DEF OldLeaf, Commit
  <2>2. leaf \in Range(public.class) /\ <<"revoke", leaf>> \notin public.revocation
    BY <1>1 DEF MigrationHolds, Included, Range, Absent, RevocationKey
  <2>3. public.spend = <<"spend", FromWitness(w.credentialKey), leaf, FromId(public.agora)>>
    BY <1>1 DEF MigrationHolds, MigrationNullifier
  <2>4. public.successor = <<"leaf", w.successorKey, FromWitness(w.credentialKey),
                             FromWitness(w.successorOpening), FromId(public.agora)>>
    BY <1>1 DEF MigrationHolds, SuccessorOpens, Commit
  <2> QED
    BY <2>1, <2>2, <2>3, <2>4 DEF MigrationFacts
<1>2. ASSUME MigrationRelation(w, MigrationInstance(public))
      PROVE  MigrationFacts(w, public, w.credentialKey, w.oldOpening, w.successorOpening)
  <2> DEFINE i == MigrationInstance(public)
             leaf == <<"leaf", w.oldRootKey, w.credentialKey, w.oldOpening, FromId(public.agora)>>
  <2>1. /\ i.agora = FromId(public.agora) /\ i.class = public.class
        /\ i.revocation = public.revocation /\ i.spend = public.spend
        /\ i.successor = public.successor
    BY DEF MigrationInstance, MigrationPublic
  <2>2. leaf = LeafOf(w.oldRootKey, w.credentialKey, w.oldOpening, i.agora)
    BY <2>1 DEF LeafOf
  <2>3. MigrationRelation(w, i)
    BY <1>2
  <2> HIDE DEF i, leaf
  <2>4. leaf \in Range(public.class) /\ <<"revoke", leaf>> \notin public.revocation
    BY <2>1, <2>2, <2>3
       DEF MigrationRelation, MerkleRoot, Included, Range, AssertAbsent, Absent, RevocationEntry
  <2>5. public.spend = <<"spend", w.credentialKey, leaf, FromId(public.agora)>>
    BY <2>1, <2>2, <2>3 DEF MigrationRelation, SpendOf
  <2>6. public.successor = <<"leaf", w.successorKey, w.credentialKey, w.successorOpening,
                             FromId(public.agora)>>
    BY <2>1, <2>3 DEF MigrationRelation, LeafOf
  <2> QED
    BY <2>4, <2>5, <2>6 DEF MigrationFacts, leaf
<1> QED
  BY <1>1, <1>2

(* A migration that verifies moves its author's credential, and to a leaf  *)
(* that is its author's again.                                             *)
LEMMA Mover ==
  ASSUME NEW h \in Holders, NEW g \in Generations, NEW next \in Generations, NEW w,
         MigrationWitnessOf(w, h, g, next), NEW public, public.agora = Agora,
         public.successor \in Successors(h, next), Range(public.class) \subseteq Leaves,
         NEW key, NEW opening, NEW carried, MigrationFacts(w, public, key, opening, carried)
  PROVE  /\ public.successor = Leaf(h, next)
         /\ \E k \in Generations :
              /\ Leaf(h, k) \in Range(public.class)
              /\ <<"revoke", Leaf(h, k)>> \notin public.revocation
              /\ public.spend = <<"spend", h, Leaf(h, k), FromId(Agora)>>
<1> DEFINE leaf == <<"leaf", w.oldRootKey, key, opening, FromId(Agora)>>
<1>1. leaf \in Leaves
  BY DEF MigrationFacts
<1>2. PICK k \in Generations : w.oldRootKey = RootKey(h, k)
  BY <1>1, NoLeafOffSubgroup DEF MigrationWitnessOf
<1>3. leaf = Leaf(h, k) /\ key = h
  BY <1>1, <1>2, LeafOwner
<1>4. PICK j \in Holders : public.successor = Commit(RootKey(h, next), j, Opening(h, next), Agora)
  BY DEF Successors
<1>5. FromWitness(j) = h
  BY <1>3, <1>4 DEF Commit, MigrationFacts
<1>6. j = h
  BY <1>5, Canonical
<1> QED
  BY <1>3, <1>4, <1>6 DEF MigrationFacts, Leaf

InboxWitnessOf(w, h, g) ==
  /\ w.credentialKey \in Nat /\ w.opening = Opening(h, g)
  /\ w.rootKey = OffSubgroup \/ \E k \in Generations : w.rootKey = RootKey(h, k)
  /\ w.certificate \in {MalformedSignature, Sign(RootSecret(h, g), InboxCertMessage(Agora, 0, h))}

LEMMA InboxWitnessShape ==
  ASSUME NEW h \in Holders, NEW g \in Generations, NEW w \in InboxWitnesses(h, g)
  PROVE  InboxWitnessOf(w, h, g)
<1> DEFINE a == [rootKey |-> RootKey(h, g), opening |-> Opening(h, g), credentialKey |-> h,
                 certificate |-> Sign(RootSecret(h, g), InboxCertMessage(Agora, 0, h))]
<1>1. InboxWitnessOf(a, h, g)
  BY Canonical DEF InboxWitnessOf
<1>2. \A k \in OtherKeys(h) : k \in Nat
  BY Canonical, OrderAssumption DEF OtherKeys
<1>3. ASSUME NEW k \in OtherKeys(h), w = [a EXCEPT !.credentialKey = k]
      PROVE  InboxWitnessOf(w, h, g)
  BY <1>1, <1>2, <1>3 DEF InboxWitnessOf
<1>4. ASSUME NEW k \in OtherRoots(h, g), w = [a EXCEPT !.rootKey = k]
      PROVE  InboxWitnessOf(w, h, g)
  BY <1>1, <1>4 DEF InboxWitnessOf, OtherRoots
<1>5. CASE w = [a EXCEPT !.certificate = MalformedSignature]
  BY <1>1, <1>5 DEF InboxWitnessOf
<1> QED
  BY <1>1, <1>3, <1>4, <1>5 DEF InboxWitnesses

InboxFacts(w, public, key, opening) ==
  /\ public.leaf = <<"leaf", w.rootKey, key, opening, FromId(public.agora)>>
  /\ w.certificate = Sign(w.rootKey[2], InboxCertMessage(public.agora, public.action, public.inbox))

LEMMA InboxEstablishes ==
  ASSUME NEW w, NEW leaf, NEW inbox, NEW action, NEW public,
         public = ProveInbox(leaf, inbox, action)
  PROVE  /\ InboxHolds(w, public) =>
              InboxFacts(w, public, FromWitness(w.credentialKey), FromWitness(w.opening))
         /\ InboxRelation(w, InboxInstance(public)) =>
              InboxFacts(w, public, w.credentialKey, w.opening)
<1>1. ASSUME InboxHolds(w, public)
      PROVE  InboxFacts(w, public, FromWitness(w.credentialKey), FromWitness(w.opening))
  BY <1>1 DEF InboxHolds, InboxFacts, VerifySignature, Commit
<1>2. ASSUME InboxRelation(w, InboxInstance(public))
      PROVE  InboxFacts(w, public, w.credentialKey, w.opening)
  <2> DEFINE i == InboxInstance(public)
  <2>1. /\ i.agora = FromId(public.agora) /\ i.leaf = public.leaf
        /\ i.action = public.action /\ i.inbox = FromId(public.inbox)
    BY DEF InboxInstance, ProveInbox
  <2>2. InboxRelation(w, i)
    BY <1>2
  <2> HIDE DEF i
  <2>3. public.leaf = <<"leaf", w.rootKey, w.credentialKey, w.opening, FromId(public.agora)>>
    BY <2>1, <2>2 DEF InboxRelation, LeafOf
  <2>4. w.certificate =
          Sign(w.rootKey[2], InboxCertMessage(public.agora, public.action, public.inbox))
    BY <2>1, <2>2 DEF InboxRelation, VerifyCertificate, Satisfies, Sign, InboxCertMessage
  <2> QED
    BY <2>3, <2>4 DEF InboxFacts
<1> QED
  BY <1>1, <1>2

LEMMA Instructor ==
  ASSUME NEW h \in Holders, NEW g \in Generations, NEW w, InboxWitnessOf(w, h, g),
         NEW public, public.agora = Agora, public.leaf \in Leaves,
         NEW key, NEW opening, InboxFacts(w, public, key, opening)
  PROVE  /\ \E k \in Generations : public.leaf = Leaf(h, k)
         /\ public.action = 0 /\ FromId(public.inbox) = FromId(h)
<1>1. PICK k \in Generations : w.rootKey = RootKey(h, k)
  BY NoLeafOffSubgroup DEF InboxWitnessOf, InboxFacts
<1>2. public.leaf = Leaf(h, k)
  BY <1>1, LeafOwner DEF InboxFacts
<1>3. Sign(RootSecret(h, g), InboxCertMessage(Agora, 0, h))
        = Sign(w.rootKey[2], InboxCertMessage(Agora, public.action, public.inbox))
  BY Signatures DEF InboxWitnessOf, InboxFacts
<1>4. InboxCertMessage(Agora, 0, h) = InboxCertMessage(Agora, public.action, public.inbox)
  BY <1>3, Signatures
<1> QED
  BY <1>2, <1>4, Messages

-------------------------------------------------------------------------------
(* The inductive invariant.                                                *)

Spend(h, g) == MigrationNullifier(h, Leaf(h, g), Agora)

LEMMA SpendIs ==
  ASSUME NEW h \in Holders, NEW g \in Generations
  PROVE  Spend(h, g) = <<"spend", h, Leaf(h, g), FromId(Agora)>>
BY Canonical DEF Spend, MigrationNullifier

LEMMA LeavesApart ==
  ASSUME NEW h \in Holders, NEW g \in Generations, NEW k \in Holders, NEW j \in Generations,
         Leaf(h, g) = Leaf(k, j)
  PROVE  h = k /\ g = j
<1>1. RootSecret(h, g) = RootSecret(k, j)
  BY LeafIs
<1> QED
  BY <1>1, MintAssumption

LEMMA SpendsApart ==
  ASSUME NEW h \in Holders, NEW g \in Generations, NEW k \in Holders, NEW j \in Generations,
         Spend(h, g) = Spend(k, j)
  PROVE  h = k /\ g = j
<1>1. Leaf(h, g) = Leaf(k, j)
  BY SpendIs
<1> QED
  BY <1>1, LeavesApart

Known == Range(Roots.class \o staged.leaves)
Spent == Roots.spend \cup staged.spent

(* Each epoch published leaves of the holders, and kept what was revoked.  *)
HistoryOK ==
  /\ IsSequence(history) /\ Len(history) \in 1..MaxEpoch
  /\ \A i \in 1..Len(history) :
       /\ history[i].epoch = i
       /\ IsSequence(history[i].class) /\ Range(history[i].class) \subseteq Leaves
       /\ history[i].revocation \subseteq Roots.revocation

StagedOK ==
  /\ staged = [leaves |-> staged.leaves, revoked |-> staged.revoked, spent |-> staged.spent]
  /\ IsSequence(staged.leaves) /\ Range(staged.leaves) \subseteq Leaves

(* What a proof on its way was made with, and for.                         *)
ChainSent(b) ==
  /\ \E g \in Generations, e \in 1..MaxEpoch : WitnessOf(b.proof.witness, b.by, g, e)
  /\ b.public = ChainPublics(b.public, b.public.tag, b.public.context, b.public.output)
  /\ <<b.public.tag, b.public.context>> \in Claims
  /\ b.public.tag = Access => b.public.output = Zero
  /\ b.proof.binding = IF backend = "stub" THEN b.public ELSE ChainInstance(b.public)

MigrationSent(b) ==
  /\ \E g, next \in Generations :
       /\ MigrationWitnessOf(b.proof.witness, b.by, g, next)
       /\ b.public.successor \in Successors(b.by, next)
  /\ b.public = MigrationPublic(b.public.class, b.public.revocation, b.public.spend,
                               b.public.successor)

InboxSent(b) ==
  /\ \E g \in Generations : InboxWitnessOf(b.proof.witness, b.by, g)
  /\ b.public = ProveInbox(b.public.leaf, b.public.inbox, b.public.action)

SentOK ==
  \A b \in bundle :
    /\ b.by \in Holders
    /\ b.kind = "chain" => ChainSent(b)
    /\ b.kind = "migration" => MigrationSent(b)
    /\ b.kind = "inbox" => InboxSent(b)

(* A holder has at most one leaf that is not yet spent, staged ones        *)
(* included.                                                               *)
OneUnspent ==
  \A h \in Holders, g, j \in Generations :
    /\ Leaf(h, g) \in Known /\ Spend(h, g) \notin Spent
    /\ Leaf(h, j) \in Known /\ Spend(h, j) \notin Spent
    => g = j

ProvingInv ==
  /\ backend \in {"stub", "plonk"}
  /\ HistoryOK /\ StagedOK /\ SentOK /\ OneUnspent /\ RevokedNeverMigrates

LEMMA RootsShape ==
  ASSUME HistoryOK
  PROVE  /\ Len(history) \in 1..Len(history) /\ Roots = history[Len(history)]
         /\ Roots.epoch = Len(history) /\ Roots.epoch \in 1..MaxEpoch
         /\ IsSequence(Roots.class) /\ Range(Roots.class) \subseteq Leaves
         /\ \A roots \in Published : \E i \in 1..Len(history) : roots = history[i]
         /\ \A i \in 1..Len(history) : history[i] \in Published
<1>1. Len(history) \in Nat /\ DOMAIN history = 1..Len(history)
  BY SequenceShape DEF HistoryOK
<1>2. Len(history) \in 1..Len(history) /\ Roots = history[Len(history)]
  BY <1>1 DEF HistoryOK, Roots, Last
<1>3. Published = {history[i] : i \in 1..Len(history)}
  BY <1>1 DEF Published, ToSet
<1> QED
  BY <1>2, <1>3 DEF HistoryOK

LEMMA EpochsAre ==
  ASSUME HistoryOK
  PROVE  /\ \A roots \in Published : roots.epoch \in 1..MaxEpoch
         /\ \A e \in 1..Roots.epoch : e \in 1..MaxEpoch
<1>1. Len(history) \in 1..MaxEpoch /\ Roots.epoch = Len(history)
  BY RootsShape DEF HistoryOK
<1>2. \A i \in 1..Len(history) : i \in 1..MaxEpoch
  BY <1>1, InstanceAssumption
<1>3. \A i \in 1..Len(history) : history[i].epoch = i
  BY DEF HistoryOK
<1>4. \A roots \in Published : \E i \in 1..Len(history) : roots = history[i]
  BY RootsShape
<1> QED
  BY <1>1, <1>2, <1>3, <1>4

LEMMA SetOfSequence == \A s : ToSet(s) = Range(s)
BY DEF ToSet, Range

LEMMA KnownAre ==
  ASSUME HistoryOK, StagedOK
  PROVE  /\ IsSequence(Roots.class \o staged.leaves)
         /\ Known = Range(Roots.class) \cup Range(staged.leaves)
         /\ Known \subseteq Leaves
BY RootsShape, ConcatShape DEF StagedOK, Known

LEMMA ProvingInit == Init => ProvingInv
<1> SUFFICES ASSUME Init PROVE ProvingInv
  OBVIOUS
<1> DEFINE first == {Leaf(h, 0) : h \in Holders}
           roots == [epoch |-> 1, class |-> SetToSeq(first), revocation |-> {}, spend |-> {}]
<1>1. IsFiniteSet(first)
  <2> DEFINE leafOf == [h \in Holders |-> Leaf(h, 0)]
  <2>1. leafOf \in Surjection(Holders, first)
    BY DEF Surjection
  <2> QED
    BY <2>1, FS_Surjection, MintAssumption
<1>2. IsSequence(SetToSeq(first)) /\ Range(SetToSeq(first)) = first
  BY <1>1, SetToSeqShape
<1>3. first \subseteq Leaves
  BY InstanceAssumption DEF Leaves
<1>4. history = <<roots>> /\ staged = Nothing /\ bundle = {} /\ backend \in Backends
  BY DEF Init
<1> HIDE DEF first
<1>5. IsSequence(history) /\ Len(history) = 1 /\ history[1] = roots
  BY <1>4, SmallSequences
<1>6. Roots = roots
  BY <1>5 DEF Roots, Last
<1>7. HistoryOK
  BY <1>2, <1>3, <1>5, <1>6, InstanceAssumption DEF HistoryOK
<1>8. StagedOK /\ Range(staged.leaves) = {}
  <2>1. staged.leaves = << >> /\ staged = [leaves |-> << >>, revoked |-> {}, spent |-> {}]
    BY <1>4 DEF Nothing
  <2>2. Range(<< >>) = {}
    BY DEF Range
  <2> QED
    BY <2>1, <2>2, SmallSequences DEF StagedOK
<1>9. Known = first
  BY <1>2, <1>6, <1>7, <1>8, KnownAre
<1>10. OneUnspent
  <2> SUFFICES ASSUME NEW h \in Holders, NEW g \in Generations, Leaf(h, g) \in first
               PROVE  g = 0
    BY <1>9 DEF OneUnspent
  <2>1. PICK k \in Holders : Leaf(h, g) = Leaf(k, 0)
    BY DEF first
  <2> QED
    BY <2>1, LeavesApart, InstanceAssumption
<1>11. RevokedNeverMigrates
  <2>1. \A old \in Published : old = roots
    BY <1>5, <1>7, RootsShape
  <2> QED
    BY <2>1 DEF RevokedNeverMigrates
<1>12. SentOK
  BY <1>4 DEF SentOK
<1> QED
  BY <1>4, <1>7, <1>8, <1>10, <1>11, <1>12, InstanceAssumption DEF ProvingInv

(* The holders' actions, and the verifier's that settle a proof, leave the *)
(* agora alone.                                                            *)
LEMMA AgoraAlone ==
  ASSUME ProvingInv, UNCHANGED <<backend, history, staged>>, SentOK'
  PROVE  ProvingInv'
<1>1. Roots' = Roots /\ Published' = Published
  BY DEF Roots, Published
<1>2. HistoryOK'
  BY <1>1 DEF ProvingInv, HistoryOK
<1>3. StagedOK'
  BY DEF ProvingInv, StagedOK
<1>4. OneUnspent'
  BY <1>1 DEF ProvingInv, OneUnspent, Known, Spent
<1>5. RevokedNeverMigrates'
  BY <1>1 DEF ProvingInv, RevokedNeverMigrates
<1> QED
  BY <1>2, <1>3, <1>4, <1>5 DEF ProvingInv

(* Every action's public inputs carry Zero where nothing is derived.       *)
LEMMA ActionIs ==
  ASSUME NEW w, NEW roots, NEW context
  PROVE  /\ ProveAction(w, roots, Authorship, context) = ProveAuthorship(w, roots, context)
         /\ ProveAction(w, roots, Vouch, context) = ProveVouch(w, roots, context)
         /\ ProveAction(w, roots, Policy, context) = ProvePolicyApproval(w, roots, context)
         /\ ProveAction(w, roots, LiveAuth, context) = ProveLiveAuth(w, roots, context)
         /\ ProveAction(w, roots, Access, context) = ProveVerificationAccess(w, roots, context)
BY DEF ProveAction, Authorship, Vouch, Policy, LiveAuth, Access

LEMMA ActionPublics ==
  ASSUME NEW w, NEW roots, NEW tag \in Tags, NEW context
  PROVE  \E output :
           /\ ProveAction(w, roots, tag, context) = ChainPublics(roots, tag, context, output)
           /\ tag = Access => output = Zero
           /\ tag # Access =>
                \E key : output = ActionOutput(tag, key, ActionContext(tag, context), Agora)
<1>1. CASE tag = Authorship
  BY <1>1, ActionIs DEF ProveAuthorship, AttestationNullifier, ActionContext, Authorship, Access
<1>2. CASE tag = Vouch
  BY <1>2, ActionIs DEF ProveVouch, VouchNullifier, ActionContext, Authorship, Vouch, LiveAuth, Access
<1>3. CASE tag = Policy
  BY <1>3, ActionIs
     DEF ProvePolicyApproval, PolicyNullifier, ActionContext, Authorship, Policy, LiveAuth, Access
<1>4. CASE tag = LiveAuth
  BY <1>4, ActionIs DEF ProveLiveAuth, Pseudonym, ActionContext, LiveAuth, Access
<1>5. CASE tag = Access
  BY <1>5, ActionIs DEF ProveVerificationAccess
<1> QED
  BY <1>1, <1>2, <1>3, <1>4, <1>5, TagsAre

LEMMA ProveChainStep ==
  ASSUME ProvingInv, NEW h \in Holders, ProveChain(h) \/ SynthesizeChain(h)
  PROVE  ProvingInv'
<1>1. PICK g \in Generations, e \in 1..Roots.epoch, roots \in Published, claim \in Claims :
        \E w \in Witnesses(h, g, e, roots) :
        \E claimed \in {w, ActingWitness(h, g, e, roots)} :
          LET public == ProveAction(claimed, roots, claim[1], claim[2]) IN
          Send("chain", h, ChainProof(w, public), public)
  BY DEF ProveChain, SynthesizeChain
<1>0. PICK w \in Witnesses(h, g, e, roots) :
        \E claimed :
          Send("chain", h, ChainProof(w, ProveAction(claimed, roots, claim[1], claim[2])),
               ProveAction(claimed, roots, claim[1], claim[2]))
  BY <1>1
<1>2. PICK claimed :
        Send("chain", h, ChainProof(w, ProveAction(claimed, roots, claim[1], claim[2])),
             ProveAction(claimed, roots, claim[1], claim[2]))
  BY <1>0
<1> DEFINE public == ProveAction(claimed, roots, claim[1], claim[2])
           proof  == ChainProof(w, public)
           b == [kind |-> "chain", by |-> h, proof |-> proof, public |-> public]
<1>3. bundle' = {b}
  BY <1>2 DEF Send
<1>4. e \in 1..MaxEpoch /\ roots.epoch \in 1..MaxEpoch
  BY EpochsAre DEF ProvingInv
<1>5. WitnessOf(w, h, g, e)
  BY <1>4, WitnessShape
<1>6. proof.witness = w /\ proof.binding = IF backend = "stub" THEN public ELSE ChainInstance(public)
  BY DEF ChainProof, StubProof, ChainBinding, PlonkProof
<1>7. UNCHANGED <<backend, history, staged>>
  BY DEF ProveChain, SynthesizeChain
<1>8. PICK output : public = ChainPublics(roots, claim[1], claim[2], output)
                    /\ (claim[1] = Access => output = Zero)
  BY ActionPublics, InstanceAssumption DEF Tags
<1> HIDE DEF public, proof
<1>9. ChainSent(b)
  <2>1. b.proof = proof /\ b.by = h /\ b.public = public
    OBVIOUS
  <2>2. \E d \in Generations, c \in 1..MaxEpoch : WitnessOf(b.proof.witness, b.by, d, c)
    BY <1>4, <1>5, <1>6, <2>1
  <2>3. /\ public.tag = claim[1] /\ public.context = claim[2] /\ public.output = output
        /\ public = ChainPublics(public, public.tag, public.context, public.output)
    BY <1>8 DEF ChainPublics
  <2>4. <<public.tag, public.context>> \in Claims
    BY <2>3, InstanceAssumption
  <2>5. public.tag = Access => public.output = Zero
    BY <1>8, <2>3
  <2> HIDE DEF b
  <2> QED
    BY <1>6, <2>1, <2>2, <2>3, <2>4, <2>5 DEF ChainSent
<1>10. SentOK'
  BY <1>3, <1>7, <1>9 DEF SentOK, ChainSent
<1> QED
  BY <1>7, <1>10, AgoraAlone

LEMMA ProveMigrationStep ==
  ASSUME ProvingInv, NEW h \in Holders, ProvePlannedMigration(h)
  PROVE  ProvingInv'
<1>1. PICK g \in Generations, next \in Generations, roots \in Published :
        \E w \in MigrationWitnesses(h, g, next, roots), successor \in Successors(h, next) :
          LET public == ProveMigration(w, roots, successor) IN
          Send("migration", h, MigrationProof(w, public), public)
  BY DEF ProvePlannedMigration
<1>2. PICK w \in MigrationWitnesses(h, g, next, roots), successor \in Successors(h, next) :
        Send("migration", h, MigrationProof(w, ProveMigration(w, roots, successor)),
             ProveMigration(w, roots, successor))
  BY <1>1
<1> DEFINE public == ProveMigration(w, roots, successor)
           proof  == MigrationProof(w, public)
           b == [kind |-> "migration", by |-> h, proof |-> proof, public |-> public]
<1>3. bundle' = {b}
  BY <1>2 DEF Send
<1>4. MigrationWitnessOf(w, h, g, next)
  BY MigrationWitnessShape
<1>5. proof.witness = w
  BY DEF MigrationProof, StubProof, PlonkProof
<1>6. /\ public.successor = successor
      /\ public = MigrationPublic(public.class, public.revocation, public.spend, public.successor)
  BY DEF ProveMigration, MigrationPublic
<1>7. UNCHANGED <<backend, history, staged>>
  BY DEF ProvePlannedMigration
<1> HIDE DEF public, proof
<1>8. MigrationSent(b)
  BY <1>4, <1>5, <1>6 DEF MigrationSent
<1>9. SentOK'
  BY <1>3, <1>8 DEF SentOK, MigrationSent
<1> QED
  BY <1>7, <1>9, AgoraAlone

LEMMA ProveInboxStep ==
  ASSUME ProvingInv, NEW h \in Holders, ProveInboxAction(h)
  PROVE  ProvingInv'
<1>0. PICK g \in Generations :
        \E w \in InboxWitnesses(h, g) : \E k \in Holders, inbox \in Inboxes, action \in {0, 1} :
          Send("inbox", h, InboxProof(w, ProveInbox(Leaf(k, g), inbox, action)),
               ProveInbox(Leaf(k, g), inbox, action))
  BY DEF ProveInboxAction
<1>1. PICK w \in InboxWitnesses(h, g), k \in Holders, inbox \in Inboxes, action \in {0, 1} :
        Send("inbox", h, InboxProof(w, ProveInbox(Leaf(k, g), inbox, action)),
             ProveInbox(Leaf(k, g), inbox, action))
  BY <1>0
<1> DEFINE public == ProveInbox(Leaf(k, g), inbox, action)
           proof  == InboxProof(w, public)
           b == [kind |-> "inbox", by |-> h, proof |-> proof, public |-> public]
<1>2. bundle' = {b}
  BY <1>1 DEF Send
<1>3. InboxWitnessOf(w, h, g)
  BY InboxWitnessShape
<1>4. proof.witness = w
  BY DEF InboxProof, StubProof, PlonkProof
<1>5. public = ProveInbox(public.leaf, public.inbox, public.action)
  BY DEF ProveInbox
<1>6. UNCHANGED <<backend, history, staged>>
  BY DEF ProveInboxAction
<1> HIDE DEF public, proof
<1>7. InboxSent(b)
  BY <1>3, <1>4, <1>5 DEF InboxSent
<1>8. SentOK'
  BY <1>2, <1>7 DEF SentOK, InboxSent
<1> QED
  BY <1>6, <1>8, AgoraAlone

LEMMA SettleStep ==
  ASSUME ProvingInv, NEW b \in bundle, Settle(b)
  PROVE  ProvingInv'
BY AgoraAlone DEF Settle, SentOK

(* What the agora counts as a migration.                                   *)
LEMMA AcceptedMigration ==
  ASSUME ProvingInv, NEW b \in bundle, AcceptsMigration(b)
  PROVE  /\ b.by \in Holders
         /\ \E next \in Generations : b.public.successor = Leaf(b.by, next)
         /\ \E k \in Generations :
              /\ b.public.spend = Spend(b.by, k) /\ Spend(b.by, k) \notin Spent
              /\ Leaf(b.by, k) \in Known
              /\ RevocationKey(Leaf(b.by, k)) \notin Roots.revocation
<1> DEFINE w == b.proof.witness
           class == Roots.class
           revocation == Roots.revocation
           spend == b.public.spend
           successor == b.public.successor
           public == [b.public EXCEPT !.class = class, !.revocation = revocation]
<1>1. b.kind = "migration" /\ spend \notin Spent /\ VerifiesMigration(b.proof, public)
  BY DEF AcceptsMigration, Spent
<1>2. b.by \in Holders /\ MigrationSent(b)
  BY <1>1 DEF ProvingInv, SentOK
<1>3. PICK g \in Generations, next \in Generations :
        MigrationWitnessOf(w, b.by, g, next) /\ successor \in Successors(b.by, next)
  BY <1>2 DEF MigrationSent
<1>4. public = MigrationPublic(class, revocation, spend, successor)
  <2>1. PICK c, r : b.public = MigrationPublic(c, r, spend, successor)
    BY <1>2 DEF MigrationSent
  <2> HIDE DEF class, revocation, spend, successor
  <2>2. public = [MigrationPublic(c, r, spend, successor) EXCEPT !.class = class,
                                                                 !.revocation = revocation]
    BY <2>1
  <2> HIDE DEF public
  <2> QED
    BY <2>2 DEF MigrationPublic
<1>5. MigrationHolds(w, public) \/ MigrationRelation(w, MigrationInstance(public))
  BY <1>1 DEF VerifiesMigration, StubVerifyMigration, PlonkVerifyMigration
<1>6. /\ public.agora = Agora /\ public.class = class /\ public.revocation = revocation
      /\ public.spend = spend /\ public.successor = successor
  BY <1>4 DEF MigrationPublic
<1>7. Range(class) \subseteq Leaves /\ Range(class) \subseteq Known
  BY RootsShape, KnownAre DEF ProvingInv
<1> HIDE DEF public, w, class, revocation, spend, successor
<1>8. \E key, opening, carried : MigrationFacts(w, public, key, opening, carried)
  BY <1>4, <1>5, MigrationEstablishes
<1>9. /\ successor = Leaf(b.by, next)
      /\ \E k \in Generations :
           /\ Leaf(b.by, k) \in Range(class)
           /\ <<"revoke", Leaf(b.by, k)>> \notin revocation
           /\ spend = <<"spend", b.by, Leaf(b.by, k), FromId(Agora)>>
  <2>1. public.agora = Agora /\ public.successor \in Successors(b.by, next)
        /\ Range(public.class) \subseteq Leaves
    BY <1>3, <1>6, <1>7
  <2>2. /\ public.successor = Leaf(b.by, next)
        /\ \E k \in Generations :
             /\ Leaf(b.by, k) \in Range(public.class)
             /\ <<"revoke", Leaf(b.by, k)>> \notin public.revocation
             /\ public.spend = <<"spend", b.by, Leaf(b.by, k), FromId(Agora)>>
    BY <1>2, <1>3, <1>8, <2>1, Mover
  <2> QED
    BY <1>6, <2>2
<1> QED
  BY <1>1, <1>2, <1>7, <1>9, SpendIs DEF spend, successor, class, revocation, RevocationKey

LEMMA VerifyMigrationStep ==
  ASSUME ProvingInv, NEW b \in bundle, VerifyMigration(b)
  PROVE  ProvingInv'
<1>1. AcceptsMigration(b) /\ bundle' = {} /\ UNCHANGED <<backend, history>>
  BY DEF VerifyMigration
<1>2. PICK next \in Generations, k \in Generations :
        /\ b.public.successor = Leaf(b.by, next)
        /\ b.public.spend = Spend(b.by, k) /\ Spend(b.by, k) \notin Spent
        /\ Leaf(b.by, k) \in Known
        /\ RevocationKey(Leaf(b.by, k)) \notin Roots.revocation
  BY <1>1, AcceptedMigration
<1>3. b.by \in Holders
  BY <1>1, AcceptedMigration
<1>4. /\ staged'.leaves = Append(staged.leaves, Leaf(b.by, next))
      /\ staged'.spent = staged.spent \cup {Spend(b.by, k)}
      /\ staged'.revoked = staged.revoked
      /\ staged' = [leaves |-> staged'.leaves, revoked |-> staged'.revoked, spent |-> staged'.spent]
  BY <1>2 DEF VerifyMigration, ProvingInv, StagedOK
<1>5. Roots' = Roots /\ Published' = Published
  BY <1>1 DEF Roots, Published
<1>6. HistoryOK' /\ SentOK'
  BY <1>1, <1>5 DEF ProvingInv, HistoryOK, SentOK
<1>7. /\ IsSequence(staged.leaves) /\ IsSequence(staged'.leaves)
      /\ Range(staged'.leaves) = Range(staged.leaves) \cup {Leaf(b.by, next)}
  BY <1>4, AppendShape DEF ProvingInv, StagedOK
<1>8. StagedOK'
  BY <1>3, <1>4, <1>7 DEF ProvingInv, StagedOK, Leaves
<1>9. Known' = Known \cup {Leaf(b.by, next)}
  <2>1. Known = Range(Roots.class) \cup Range(staged.leaves)
    BY KnownAre DEF ProvingInv
  <2>2. IsSequence(Roots.class)
    BY RootsShape DEF ProvingInv
  <2>3. Known' = Range(Roots.class) \cup Range(staged'.leaves)
    BY <1>5, <1>7, <2>2, ConcatShape DEF Known
  <2> QED
    BY <1>7, <2>1, <2>3
<1>10. Spent' = Spent \cup {Spend(b.by, k)}
  BY <1>4, <1>5 DEF Spent
<1>11. OneUnspent'
  <2> SUFFICES ASSUME NEW h \in Holders, NEW g \in Generations,
                      Leaf(h, g) \in Known', Spend(h, g) \notin Spent',
                      NEW j \in Generations,
                      Leaf(h, j) \in Known', Spend(h, j) \notin Spent'
               PROVE  g = j
    BY DEF OneUnspent, Leaf, Spend
  <2>1. CASE h = b.by
    <3>1. \A i \in Generations : 
            Leaf(h, i) \in Known' /\ Spend(h, i) \notin Spent' => i = next
      <4> SUFFICES ASSUME NEW i \in Generations, Leaf(h, i) \in Known', Spend(h, i) \notin Spent'
                   PROVE  i = next
        OBVIOUS
      <4>1. CASE Leaf(h, i) = Leaf(h, next)
        BY <4>1, LeavesApart
      <4>2. CASE Leaf(h, i) \in Known
        <5>1. i = k
          BY <1>2, <1>3, <1>10, <2>1, <4>2 DEF ProvingInv, OneUnspent
        <5> QED
          BY <1>10, <2>1, <5>1
      <4> QED
        BY <1>9, <2>1, <4>1, <4>2
    <3> QED
      BY <3>1
  <2>2. CASE h # b.by
    <3>1. Leaf(h, g) \in Known /\ Leaf(h, j) \in Known
      BY <1>3, <1>9, <2>2, LeavesApart
    <3> QED
      BY <1>10, <3>1 DEF ProvingInv, OneUnspent
  <2> QED
    BY <2>1, <2>2
<1>12. RevokedNeverMigrates'
  <2> SUFFICES ASSUME NEW old \in Published, NEW h \in Holders, NEW g \in Generations,
                      RevocationKey(Leaf(h, g)) \in old.revocation, Spend(h, g) \notin old.spend
               PROVE  Spend(h, g) \notin Spent'
    BY <1>5 DEF RevokedNeverMigrates, Spend, Spent
  <2>1. Spend(h, g) \notin Spent
    BY DEF ProvingInv, RevokedNeverMigrates, Spend, Spent
  <2>2. old.revocation \subseteq Roots.revocation
    BY RootsShape DEF ProvingInv, HistoryOK
  <2>3. Spend(h, g) # Spend(b.by, k)
    BY <1>2, <1>3, <2>2, SpendsApart
  <2> QED
    BY <1>10, <2>1, <2>3
<1> QED
  BY <1>1, <1>6, <1>8, <1>11, <1>12 DEF ProvingInv

LEMMA RevokeStep ==
  ASSUME ProvingInv, NEW leaf, Revoke(leaf)
  PROVE  ProvingInv'
<1>1. /\ staged'.leaves = staged.leaves /\ staged'.spent = staged.spent
      /\ staged' = [leaves |-> staged'.leaves, revoked |-> staged'.revoked, spent |-> staged'.spent]
  BY DEF Revoke, ProvingInv, StagedOK
<1>2. Roots' = Roots /\ Published' = Published
  BY DEF Revoke, Roots, Published
<1>3. HistoryOK'
  BY <1>2 DEF Revoke, ProvingInv, HistoryOK
<1>4. StagedOK'
  BY <1>1 DEF ProvingInv, StagedOK
<1>5. SentOK'
  BY DEF Revoke, ProvingInv, SentOK, ChainSent, MigrationSent, InboxSent
<1>6. Known' = Known /\ Spent' = Spent
  BY <1>1, <1>2 DEF Known, Spent
<1>7. OneUnspent'
  BY <1>6 DEF ProvingInv, OneUnspent
<1>8. RevokedNeverMigrates'
  BY <1>1, <1>2 DEF ProvingInv, RevokedNeverMigrates
<1> QED
  BY <1>3, <1>4, <1>5, <1>7, <1>8 DEF Revoke, ProvingInv

LEMMA RolloverStep ==
  ASSUME ProvingInv, Rollover
  PROVE  ProvingInv'
<1> DEFINE n == Len(history)
           next == [epoch |-> Roots.epoch + 1, class |-> Roots.class \o staged.leaves,
                    revocation |-> Roots.revocation \cup staged.revoked,
                    spend |-> Roots.spend \cup staged.spent]
<1>1. history' = Append(history, next) /\ staged' = Nothing /\ n < MaxEpoch
      /\ UNCHANGED <<backend, bundle>>
  BY DEF Rollover
<1>2. IsSequence(history) /\ n \in 1..MaxEpoch /\ Roots.epoch = n
  BY RootsShape DEF ProvingInv, HistoryOK
<1>3. /\ IsSequence(history') /\ Len(history') = n + 1
      /\ \A i \in 1..n : history'[i] = history[i]
      /\ history'[n + 1] = next
  BY <1>1, <1>2, AppendShape
<1>4. Roots' = next
  BY <1>3 DEF Roots, Last
<1>5. /\ IsSequence(next.class) /\ Range(next.class) = Known /\ Known \subseteq Leaves
  BY KnownAre DEF ProvingInv, Known
<1>6. next.spend = Spent /\ Roots.revocation \subseteq next.revocation /\ next.epoch = n + 1
  BY <1>2 DEF Spent
<1> HIDE DEF next
<1>7. HistoryOK'
  <2>1. n + 1 \in 1..MaxEpoch /\ \A i \in 1..(n + 1) : i \in 1..n \/ i = n + 1
    BY <1>1, <1>2, InstanceAssumption
  <2>2. ASSUME NEW i \in 1..n
        PROVE  /\ history'[i].epoch = i
               /\ IsSequence(history'[i].class) /\ Range(history'[i].class) \subseteq Leaves
               /\ history'[i].revocation \subseteq next.revocation
    BY <1>3, <1>6 DEF ProvingInv, HistoryOK
  <2> QED
    BY <1>3, <1>4, <1>5, <1>6, <2>1, <2>2 DEF HistoryOK
<1>8. StagedOK' /\ Range(staged'.leaves) = {} /\ staged'.spent = {}
  <2>1. staged'.leaves = << >> /\ staged' = [leaves |-> << >>, revoked |-> {}, spent |-> {}]
    BY <1>1 DEF Nothing
  <2>2. Range(<< >>) = {}
    BY DEF Range
  <2> QED
    BY <2>1, <2>2, SmallSequences DEF StagedOK
<1>9. Known' = Known /\ Spent' = Spent
  <2>1. IsSequence(staged'.leaves)
    BY <1>8 DEF StagedOK
  <2>2. Range(Roots'.class \o staged'.leaves) = Range(next.class) \cup Range(staged'.leaves)
    BY <1>4, <1>5, <2>1, ConcatShape
  <2> QED
    BY <1>4, <1>5, <1>6, <1>8, <2>2 DEF Known, Spent
<1>10. OneUnspent'
  BY <1>9 DEF ProvingInv, OneUnspent
<1>11. RevokedNeverMigrates'
  <2>1. \A old \in Published' : old \in Published \/ old = next
    <3>1. Published' = Range(history') /\ Published = Range(history)
      BY SetOfSequence DEF Published
    <3>2. Range(history') = Range(history) \cup {next}
      BY <1>1, <1>2, AppendShape
    <3> QED
      BY <3>1, <3>2
  <2> SUFFICES ASSUME NEW old \in Published \cup {next}, NEW h \in Holders, NEW g \in Generations,
                      RevocationKey(Leaf(h, g)) \in old.revocation, Spend(h, g) \notin old.spend
               PROVE  Spend(h, g) \notin Spent'
    BY <2>1 DEF RevokedNeverMigrates, Spend, Spent
  <2>2. CASE old = next
    BY <1>6, <1>9, <2>2
  <2>3. CASE old \in Published
    <3>1. Spend(h, g) \notin Spent
      BY <2>3 DEF ProvingInv, RevokedNeverMigrates, Spend, Spent
    <3> QED
      BY <1>9, <3>1
  <2> QED
    BY <2>2, <2>3
<1>12. SentOK'
  BY <1>1 DEF ProvingInv, SentOK, ChainSent, MigrationSent, InboxSent
<1> QED
  BY <1>1, <1>7, <1>8, <1>10, <1>11, <1>12 DEF ProvingInv

LEMMA ProvingStep == ProvingInv /\ [Next]_vars => ProvingInv'
<1> SUFFICES ASSUME ProvingInv, [Next]_vars PROVE ProvingInv'
  OBVIOUS
<1>1. CASE UNCHANGED vars
  <2>1. UNCHANGED <<backend, history, staged>> /\ bundle' = bundle
    BY <1>1 DEF vars
  <2>2. SentOK'
    BY <2>1 DEF ProvingInv, SentOK, ChainSent, MigrationSent, InboxSent
  <2> QED
    BY <2>1, <2>2, AgoraAlone
<1>2. ASSUME NEW h \in Holders, \/ ProveChain(h) \/ SynthesizeChain(h)
                                \/ ProvePlannedMigration(h) \/ ProveInboxAction(h)
      PROVE  ProvingInv'
  BY <1>2, ProveChainStep, ProveMigrationStep, ProveInboxStep
<1>3. ASSUME NEW b \in bundle, VerifyMigration(b) \/ Settle(b)
      PROVE  ProvingInv'
  BY <1>3, VerifyMigrationStep, SettleStep
<1>4. ASSUME NEW leaf, Revoke(leaf)
      PROVE  ProvingInv'
  BY <1>4, RevokeStep
<1>5. CASE Rollover
  BY <1>5, RolloverStep
<1> QED
  BY <1>1, <1>2, <1>3, <1>4, <1>5 DEF Next

(* What every proof in transit was made with, what every epoch published,  *)
(* and that a lineage has one unspent leaf, staged ones included, hold in  *)
(* every reachable state: proving (nymora-protocol/src/proving.rs) and the *)
(* operator's migrations and boundaries keep them.                         *)
THEOREM ProvingInductive == Spec => []ProvingInv
<1>1. Init => ProvingInv
  BY ProvingInit
<1>2. ProvingInv /\ [Next]_vars => ProvingInv'
  BY ProvingStep
<1> QED
  BY <1>1, <1>2, PTL DEF Spec

-------------------------------------------------------------------------------
(* What follows of what is accepted.                                       *)

(* A proof accepted with either backend says the same of its author.       *)
LEMMA AcceptedChain ==
  ASSUME ProvingInv, NEW b \in ChainsAccepted
  PROVE  /\ b.by \in Holders /\ b.public.tag \in Tags /\ b.public.agora = Agora
         /\ \E g \in Generations :
              /\ Live(b.by, g, Roots)
              /\ ScalarForm(b.proof.witness.epochKey) = EpochSecret(b.by, g, Roots.epoch)
         /\ b.proof.witness.epochKey \in Bytes /\ FieldForm(b.proof.witness.epochKey) < ScalarOrder
         /\ b.public.tag # Access =>
              b.public.output =
                ActionOutput(b.public.tag,
                             IF b.public.tag \in {Authorship, LiveAuth}
                             THEN FieldForm(b.proof.witness.epochKey) ELSE b.by,
                             ActionContext(b.public.tag, b.public.context), Agora)
<1> DEFINE w == b.proof.witness
           tag == b.public.tag
           context == b.public.context
           output == b.public.output
           public == ChainPublics(Roots, tag, context, output)
<1>1. b \in bundle /\ b.kind = "chain" /\ VerifiesChain(b.proof, public)
  BY DEF ChainsAccepted, AcceptsChain
<1>2. b.by \in Holders /\ ChainSent(b)
  BY <1>1 DEF ProvingInv, SentOK
<1>3. PICK g \in Generations, e \in 1..MaxEpoch : WitnessOf(w, b.by, g, e)
  BY <1>2 DEF ChainSent
<1>4. tag \in Tags /\ b.public.agora = Agora
  <2>1. <<tag, context>> \in Tags \X Nat
    BY <1>2, InstanceAssumption DEF ChainSent, Tags
  <2> QED
    BY <1>2, <2>1 DEF ChainSent, ChainPublics
<1>5. ChainHolds(w, public) \/ ChainRelation(w, ChainInstance(public))
  BY <1>1 DEF VerifiesChain, StubVerifyChain, PlonkVerifyChain
<1>6. /\ public.agora = Agora /\ public.epoch = Roots.epoch /\ public.class = Roots.class
      /\ public.revocation = Roots.revocation /\ public.spend = Roots.spend
      /\ public.tag = tag /\ public.context = context /\ public.output = output
  BY DEF ChainPublics
<1>7. Range(Roots.class) \subseteq Leaves
  BY RootsShape DEF ProvingInv
<1> HIDE DEF w, tag, context, output, public
<1>8. w.epochKey \in Bytes /\ w.epochKey \in Nat
  BY <1>3, SecretsAreBytes DEF WitnessOf
<1>9. PICK key, opening : ChainFacts(w, public, key, opening)
  BY <1>5, <1>8, StubEstablishes, PlonkEstablishes
<1>10. /\ key = b.by /\ e = public.epoch /\ ScalarForm(w.epochKey) = EpochSecret(b.by, g, e)
       /\ Leaf(b.by, g) \in Range(public.class)
       /\ <<"revoke", Leaf(b.by, g)>> \notin public.revocation
       /\ <<"spend", b.by, Leaf(b.by, g), FromId(Agora)>> \notin public.spend
  <2>1. Range(public.class) \subseteq Leaves
    BY <1>6, <1>7
  <2> QED
    BY <1>2, <1>3, <1>6, <1>9, <2>1, Author
<1>11. Live(b.by, g, Roots) /\ ScalarForm(w.epochKey) = EpochSecret(b.by, g, Roots.epoch)
  BY <1>2, <1>6, <1>10, SetOfSequence, SpendIs DEF Live, Spend, RevocationKey
<1>12. tag # Access =>
         output = ActionOutput(tag,
                               IF tag \in {Authorship, LiveAuth} THEN FieldForm(w.epochKey) ELSE b.by,
                               ActionContext(tag, context), Agora)
  BY <1>6, <1>9, <1>10 DEF ChainFacts
<1>13. FieldForm(w.epochKey) < ScalarOrder
  BY <1>9 DEF ChainFacts
<1> QED
  BY <1>2, <1>4, <1>8, <1>11, <1>12, <1>13 DEF w, tag, context, output

(* Whose count it is.  The output of an action that verify_vouch and its   *)
(* four siblings (nymora-proofs/src/action.rs) accept is derived from its  *)
(* author's own secret: sk_cred for a vouch or an approval, an epoch key   *)
(* minted for this epoch for authorship and presence, once unless the      *)
(* bytes proved with are at or above the field order, and then in one of   *)
(* the forms the circuit hashes that key in.                               *)
THEOREM CountsAreTheHoldersInvariant == Spec => []CountsAreTheHolders
<1>1. ProvingInv => CountsAreTheHolders
  <2> SUFFICES ASSUME ProvingInv, NEW a \in ChainsAccepted, a.public.tag # Access
               PROVE  \/ a.public.output \in MintedOutputs(a.by, a.public)
                      \/ /\ a.public.tag \in {Authorship, LiveAuth}
                         /\ a.proof.witness.epochKey >= FieldOrder
                         /\ a.public.output \in AdmittedOutputs(a.by, a.public)
    BY DEF CountsAreTheHolders
  <2> DEFINE bytes == a.proof.witness.epochKey
             context == ActionContext(a.public.tag, a.public.context)
             derived(key) == ActionOutput(a.public.tag, key, context, a.public.agora)
  <2>1. PICK g \in Generations : ScalarForm(bytes) = EpochSecret(a.by, g, Roots.epoch)
    BY AcceptedChain
  <2>2. /\ a.public.tag \in Tags /\ a.public.agora = Agora
        /\ bytes \in Bytes /\ FieldForm(bytes) < ScalarOrder
        /\ a.public.output = derived(IF a.public.tag \in {Authorship, LiveAuth}
                                     THEN FieldForm(bytes) ELSE a.by)
    BY AcceptedChain
  <2>3. CASE a.public.tag \in {Vouch, Policy}
    <3>1. ~(a.public.tag \in {Authorship, LiveAuth})
      BY <2>3 DEF Authorship, Vouch, Policy, LiveAuth
    <3> QED
      BY <2>2, <2>3, <3>1 DEF MintedOutputs, OutputsUnder
  <2>4. CASE a.public.tag \in {Authorship, LiveAuth} /\ bytes < FieldOrder
    <3>1. ~(a.public.tag \in {Vouch, Policy})
      BY <2>4 DEF Authorship, Vouch, Policy, LiveAuth
    <3>2. FieldForm(bytes) = EpochSecret(a.by, g, Roots.epoch)
      BY <2>1, <2>2, <2>4, SecretsAreBytes, Forms
    <3> QED
      BY <2>2, <2>4, <3>1, <3>2 DEF MintedOutputs, OutputsUnder, EpochSecrets
  <2>5. CASE a.public.tag \in {Authorship, LiveAuth} /\ ~(bytes < FieldOrder)
    <3>1. bytes >= FieldOrder
      BY <2>2, <2>5, SecretsAreBytes, OrderAssumption
    <3> DEFINE key == EpochSecret(a.by, g, Roots.epoch)
    <3>2. bytes \in BytesOf[key]
      BY <2>1, <2>2, SecretsAreBytes, Forms DEF BytesOf
    <3>3. FieldForm(bytes) \in HashableForms(key)
      BY <2>2, <3>2 DEF HashableForms
    <3>4. key \in EpochSecrets(a.by)
      BY DEF EpochSecrets
    <3> HIDE DEF key
    <3>5. FieldForm(bytes) \in UNION {HashableForms(k) : k \in EpochSecrets(a.by)}
      BY <3>3, <3>4
    <3> QED
      BY <2>2, <2>5, <3>1, <3>5 DEF AdmittedOutputs, OutputsUnder
  <2> QED
    BY <2>2, <2>3, <2>4, <2>5, TagsAre
<1> QED
  BY <1>1, ProvingInductive, PTL

(* assign_canonical_scalar (nymora-plonk/src/gadgets.rs): among the bytes  *)
(* below the field order, its bound leaves one form of a key to hash, the  *)
(* key itself; among all the strings of 32 bytes it leaves another.        *)
THEOREM AnotherHashableForm ==
  \A key \in 0..(ScalarOrder - 1) :
    /\ \A bytes \in BytesOf[key] :
         bytes < FieldOrder /\ CanonicalScalar(bytes) => FieldForm(bytes) = key
    /\ \E bytes \in BytesOf[key] : CanonicalScalar(bytes) /\ FieldForm(bytes) # key
<1> SUFFICES ASSUME NEW key \in 0..(ScalarOrder - 1)
             PROVE  /\ \A bytes \in BytesOf[key] :
                         bytes < FieldOrder /\ CanonicalScalar(bytes) => FieldForm(bytes) = key
                    /\ \E bytes \in BytesOf[key] : CanonicalScalar(bytes) /\ FieldForm(bytes) # key
  OBVIOUS
<1>1. BytesOf[key] = {bytes \in Bytes : ScalarForm(bytes) = key}
  BY DEF BytesOf
<1>2. ASSUME NEW bytes \in BytesOf[key], bytes < FieldOrder, CanonicalScalar(bytes)
      PROVE  FieldForm(bytes) = key
  BY <1>1, <1>2, SecretsAreBytes, Forms DEF CanonicalScalar
<1>3. \E bytes \in BytesOf[key] : CanonicalScalar(bytes) /\ FieldForm(bytes) # key
  <2> DEFINE m == ScalarOrder
             q == FieldOrder \div ScalarOrder
             r == FieldOrder % ScalarOrder
             form == IF key >= r THEN key - r ELSE key - r + m
             turns == IF key >= r THEN q ELSE q + 1
             bytes == FieldOrder + form
  <2>1. /\ m \in Nat \ {0} /\ q \in Nat /\ r \in 1..(m - 1)
        /\ FieldOrder = m * q + r /\ FieldOrder \in Nat \ {0} /\ m < FieldOrder
    <3>1. ScalarOrder \in Nat \ {0} /\ FieldOrder \in Nat \ {0} /\ ScalarOrder < FieldOrder
      BY OrderAssumption
    <3>2. q \in Nat /\ r \in 0..(m - 1) /\ FieldOrder = m * q + r
      BY <3>1, Division
    <3>3. r # 0
      BY ByteAssumption
    <3> QED
      BY <3>1, <3>2, <3>3
  <2>2. key \in 0..(m - 1) /\ key \in Nat /\ key < m
    BY OrderAssumption
  <2> HIDE DEF m, q, r
  <2>3. /\ form \in 0..(m - 1) /\ form # key /\ form \in 0..(FieldOrder - 1)
        /\ turns \in Nat
    BY <2>1, <2>2
  <2>4. bytes = m * turns + key
    <3>1. m * (q + 1) = m * q + m
      BY <2>1
    <3> QED
      BY <2>1, <2>2, <3>1
  <2>5. ScalarForm(bytes) = key
    <3> HIDE DEF turns
    <3>1. (m * turns + key) % m = key
      BY <2>1, <2>2, <2>3, RemainderIs
    <3> QED
      BY <2>4, <3>1 DEF ScalarForm, m
  <2>6. FieldForm(bytes) = form
    <3>1. (FieldOrder * 1 + form) % FieldOrder = form
      BY <2>1, <2>3, RemainderIs
    <3>2. FieldOrder * 1 + form = bytes
      BY <2>1, <2>3
    <3> QED
      BY <3>1, <3>2 DEF FieldForm
  <2>7. bytes \in Bytes
    BY <2>1, <2>3, ByteAssumption DEF Bytes, m
  <2>8. form < ScalarOrder
    BY <2>1, <2>3 DEF m
  <2> HIDE DEF form, bytes
  <2> QED
    BY <1>1, <2>3, <2>5, <2>6, <2>7, <2>8 DEF CanonicalScalar
<1> QED
  BY <1>2, <1>3

(* The three roots and the certificate pin the present: whoever an         *)
(* accepted proof comes from has a leaf in the current class, neither      *)
(* revoked nor migrated away, and acted with the key that leaf's root      *)
(* certified for exactly this epoch (the membership chain every action of  *)
(* nymora-proofs/src/action.rs proves).                                    *)
THEOREM ActedWhileCurrentInvariant == Spec => []ActedWhileCurrent
<1>1. ProvingInv => ActedWhileCurrent
  BY AcceptedChain DEF ActedWhileCurrent
<1> QED
  BY <1>1, ProvingInductive, PTL

(* Migration moves a credential and never multiplies it: with everything   *)
(* staged, each sk_cred opens at most one unspent leaf                     *)
(* (AgoraState::migrate in nymora-protocol/src/operator/migrate.rs).       *)
THEOREM OneLeafPerLineageInvariant == Spec => []OneLeafPerLineage
<1>1. ProvingInv => OneLeafPerLineage
  <2> SUFFICES ASSUME ProvingInv, NEW h \in Holders
               PROVE  Cardinality(Unspent(h)) <= 1
    BY DEF OneLeafPerLineage
  <2>1. ASSUME NEW leaf \in Unspent(h)
        PROVE  \E g \in Generations :
                 leaf = Leaf(h, g) /\ Leaf(h, g) \in Known /\ Spend(h, g) \notin Spent
    <3>1. /\ leaf \in Known /\ leaf[3] = h
          /\ MigrationNullifier(h, leaf, Agora) \notin Spent
      BY <2>1, SetOfSequence DEF Unspent, Known, Spent
    <3>2. PICK k \in Holders, g \in Generations : leaf = Leaf(k, g)
      BY <3>1, KnownAre DEF ProvingInv, Leaves
    <3>3. k = h
      BY <3>1, <3>2, LeafIs
    <3> QED
      BY <3>1, <3>2, <3>3 DEF Spend
  <2>2. \A leaf, other \in Unspent(h) : leaf = other
    BY <2>1 DEF ProvingInv, OneUnspent
  <2>3. CASE Unspent(h) = {}
    BY <2>3, FS_EmptySet
  <2>4. CASE Unspent(h) # {}
    <3>1. PICK leaf : Unspent(h) = {leaf}
      BY <2>2, <2>4
    <3> QED
      BY <3>1, FS_Singleton
  <2> QED
    BY <2>3, <2>4
<1> QED
  BY <1>1, ProvingInductive, PTL

(* Nobody migrates out from under a revocation: once an epoch publishes an *)
(* unspent leaf as revoked, its spend is never entered, because            *)
(* AgoraState::migrate verifies against its own current roots.             *)
THEOREM RevokedNeverMigratesInvariant == Spec => []RevokedNeverMigrates
<1>1. ProvingInv => RevokedNeverMigrates
  BY DEF ProvingInv
<1> QED
  BY <1>1, ProvingInductive, PTL

(* An inbox instruction that verify_inbox (nymora-proofs/src/action.rs)    *)
(* accepts is one its author's root signed, about its author's own leaf    *)
(* and inbox, and for the action it names.                                 *)
THEOREM InstructionIsTheHoldersInvariant == Spec => []InstructionIsTheHolders
<1>1. ProvingInv => InstructionIsTheHolders
  <2> SUFFICES ASSUME ProvingInv, NEW a \in InboxesAccepted
               PROVE  /\ \E g \in Generations : a.public.leaf = Leaf(a.by, g)
                      /\ a.public.action = 0 /\ FromId(a.public.inbox) = FromId(a.by)
    BY DEF InstructionIsTheHolders
  <2>1. /\ a \in bundle /\ a.kind = "inbox" /\ a.public.leaf \in ToSet(Roots.class)
        /\ VerifiesInbox(a.proof, a.public)
    BY DEF InboxesAccepted, AcceptsInbox
  <2>2. a.by \in Holders /\ InboxSent(a)
    BY <2>1 DEF ProvingInv, SentOK
  <2>3. PICK g \in Generations : InboxWitnessOf(a.proof.witness, a.by, g)
    BY <2>2 DEF InboxSent
  <2>4. a.public.agora = Agora /\ a.public.leaf \in Leaves
    BY <2>1, <2>2, SetOfSequence, RootsShape DEF ProvingInv, InboxSent, ProveInbox
  <2>5. InboxHolds(a.proof.witness, a.public)
          \/ InboxRelation(a.proof.witness, InboxInstance(a.public))
    BY <2>1 DEF VerifiesInbox, StubVerifyInbox, PlonkVerifyInbox
  <2>6. \E key, opening : InboxFacts(a.proof.witness, a.public, key, opening)
    BY <2>2, <2>5, InboxEstablishes DEF InboxSent
  <2> QED
    BY <2>2, <2>3, <2>4, <2>6, Instructor
<1> QED
  BY <1>1, ProvingInductive, PTL

-------------------------------------------------------------------------------
(* The backends stand for one another.                                     *)

LEMMA ChainInstanceIs ==
  ASSUME NEW public
  PROVE  /\ ChainInstance(public).agora = FromId(public.agora)
         /\ ChainInstance(public).epoch = public.epoch
         /\ ChainInstance(public).class = public.class
         /\ ChainInstance(public).revocation = public.revocation
         /\ ChainInstance(public).spend = public.spend
         /\ ChainInstance(public).tag = public.tag
         /\ ChainInstance(public).context = ActionContext(public.tag, public.context)
         /\ ChainInstance(public).output = IF public.tag = Access THEN Zero ELSE public.output
BY DEF ChainInstance

(* The evaluator and the circuit, for an action of a kind there is and an  *)
(* epoch key whose bytes the field holds.                                  *)
LEMMA EvaluatorIsCircuit ==
  ASSUME NEW w, NEW i, w.epochKey \in Nat, w.epochKey < FieldOrder, i.tag \in Tags
  PROVE  SatisfiesChain(w, i) <=> ChainRelation(w, i)
<1> DEFINE leaf == LeafOf(w.rootKey, w.credentialKey, w.opening, i.agora)
           derived(key) == <<"action", i.tag, key, i.context, i.agora>>
           common ==
             /\ w.epochKey < ScalarOrder
             /\ Satisfies(w.rootKey, <<"epoch cert", i.agora, i.epoch, w.epochPublicKey>>,
                          w.certificate)
             /\ Included(leaf, w.path, i.class)
             /\ Absent(<<"revoke", leaf>>, w.revocationAbsence, i.revocation)
             /\ Absent(SpendOf(w.credentialKey, leaf, i.agora), w.spendAbsence, i.spend)
<1>1. /\ FieldForm(w.epochKey) = w.epochKey
      /\ w.epochKey < ScalarOrder => ScalarForm(w.epochKey) = w.epochKey
  BY Forms
<1>2. i.tag \in Authorship..Access /\ AssertActionTag(i.tag)
  <2>1. i.tag \in Authorship..Access
    BY DEF Tags
  <2>2. AssertActionTag(i.tag)
    BY TagsAre DEF AssertActionTag, Authorship, Vouch, Policy, LiveAuth, Access
  <2> QED
    BY <2>1, <2>2
<1>3. SatisfiesChain(w, i) <=> /\ common /\ Generates(w.epochKey, w.epochPublicKey)
                              /\ i.output = EvaluatedOutput(w, i)
  BY <1>2 DEF SatisfiesChain
<1>4. ChainRelation(w, i) <=>
        /\ common /\ Generates(ScalarForm(w.epochKey), w.epochPublicKey)
        /\ i.output = IF i.tag = Access THEN Zero
                      ELSE derived(IF i.tag = Authorship \/ i.tag = LiveAuth
                                   THEN w.epochKey ELSE w.credentialKey)
  BY <1>1, <1>2 DEF ChainRelation, CanonicalScalar, Multiplies, VerifyCertificate, MerkleRoot,
              AssertAbsent, RevocationEntry, DerivesNothing, UsesEpochKey
<1>5. EvaluatedOutput(w, i) =
        IF i.tag = Access THEN Zero
        ELSE derived(IF i.tag = Authorship \/ i.tag = LiveAuth THEN w.epochKey ELSE w.credentialKey)
  BY DEF EvaluatedOutput
<1> HIDE DEF leaf, derived
<1> QED
  BY <1>1, <1>3, <1>4, <1>5

(* Whatever its bytes, an epoch key the circuit admits the evaluator       *)
(* admits in reduced form, with the output that form derives.              *)
LEMMA CircuitIsEvaluatorReduced ==
  ASSUME NEW w, NEW public, NEW h, NEW g, NEW e, WitnessOf(w, h, g, e), public.tag \in Tags,
         ChainRelation(w, ChainInstance(public))
  PROVE  SatisfiesChain(Reduced(w), Rederived(Reduced(w), ChainInstance(public)))
<1> DEFINE i == ChainInstance(public)
           v == Reduced(w)
           j == Rederived(v, i)
           leaf == LeafOf(w.rootKey, w.credentialKey, w.opening, i.agora)
<1>1. /\ v.epochKey = ScalarForm(w.epochKey) /\ v.epochPublicKey = w.epochPublicKey
      /\ v.certificate = w.certificate /\ v.credentialKey = w.credentialKey
      /\ v.opening = w.opening /\ v.rootKey = w.rootKey /\ v.path = w.path
      /\ v.revocationAbsence = w.revocationAbsence /\ v.spendAbsence = w.spendAbsence
  BY DEF WitnessOf, Reduced
<1>2. /\ j.agora = i.agora /\ j.epoch = i.epoch /\ j.class = i.class
      /\ j.revocation = i.revocation /\ j.spend = i.spend /\ j.tag = i.tag
      /\ j.context = i.context /\ j.output = EvaluatedOutput(v, i)
  BY DEF Rederived, ChainInstance
<1>3. i.tag \in Authorship..Access
  BY ChainInstanceIs DEF Tags
<1>4. v.epochKey < ScalarOrder
  BY <1>1, SecretsAreBytes, Forms, OrderAssumption DEF WitnessOf
<1>5. ChainRelation(w, i)
  OBVIOUS
<1> HIDE DEF i, v, j
<1>6. EvaluatedOutput(v, j) = EvaluatedOutput(v, i)
  BY <1>2 DEF EvaluatedOutput
<1>7. Generates(v.epochKey, v.epochPublicKey)
  BY <1>1, <1>5 DEF ChainRelation, Multiplies
<1>8. Satisfies(v.rootKey, <<"epoch cert", j.agora, j.epoch, v.epochPublicKey>>, v.certificate)
  BY <1>1, <1>2, <1>5 DEF ChainRelation, VerifyCertificate
<1>9. LeafOf(v.rootKey, v.credentialKey, v.opening, j.agora) = leaf
  BY <1>1, <1>2
<1> HIDE DEF leaf
<1>10. /\ Included(leaf, v.path, j.class)
       /\ Absent(<<"revoke", leaf>>, v.revocationAbsence, j.revocation)
       /\ Absent(SpendOf(v.credentialKey, leaf, j.agora), v.spendAbsence, j.spend)
  BY <1>1, <1>2, <1>5 DEF ChainRelation, MerkleRoot, AssertAbsent, RevocationEntry, leaf
<1> QED
  BY <1>2, <1>3, <1>4, <1>6, <1>7, <1>8, <1>9, <1>10 DEF SatisfiesChain, v, j, i

(* The evaluator and the stub, for a witness whose secrets the field holds *)
(* and whose root is a point.                                              *)
LEMMA EvaluatorIsStub ==
  ASSUME NEW w, NEW public, w.epochKey \in Nat, public.tag \in Tags,
         FromWitness(w.credentialKey) = w.credentialKey, FromWitness(w.opening) = w.opening,
         IsPoint(w.rootKey)
  PROVE  SatisfiesChain(w, ChainInstance(public)) <=> ChainHolds(w, public)
<1> DEFINE i == ChainInstance(public)
           leaf == Commit(w.rootKey, w.credentialKey, w.opening, public.agora)
           context == ActionContext(public.tag, public.context)
           common ==
             /\ w.epochKey < ScalarOrder /\ w.epochPublicKey = <<"point", w.epochKey>>
             /\ w.certificate =
                  Sign(w.rootKey[2], EpochCertMessage(public.agora, public.epoch, w.epochPublicKey))
             /\ Included(leaf, w.path, public.class)
             /\ Absent(<<"revoke", leaf>>, w.revocationAbsence, public.revocation)
             /\ Absent(<<"spend", w.credentialKey, leaf, FromId(public.agora)>>,
                       w.spendAbsence, public.spend)
           derives ==
             public.tag # Access =>
               public.output = ActionOutput(public.tag,
                                 IF public.tag \in {Authorship, LiveAuth}
                                 THEN w.epochKey ELSE w.credentialKey, context, public.agora)
<1>1. /\ i.agora = FromId(public.agora) /\ i.epoch = public.epoch /\ i.class = public.class
      /\ i.revocation = public.revocation /\ i.spend = public.spend /\ i.tag = public.tag
      /\ i.context = context
      /\ i.output = IF public.tag = Access THEN Zero ELSE public.output
  BY ChainInstanceIs
<1>2. LeafOf(w.rootKey, w.credentialKey, w.opening, i.agora) = leaf
  BY <1>1 DEF LeafOf, Commit
<1>3. w.epochKey < ScalarOrder => FromWitness(w.epochKey) = w.epochKey
  BY Canonical, OrderAssumption
<1>4. SatisfiesChain(w, i) <=> common /\ derives
  <2> HIDE DEF i, leaf, context
  <2>1. public.tag \in Authorship..Access
    BY DEF Tags
  <2>2. i.output = EvaluatedOutput(w, i) <=> derives
    BY <1>1 DEF EvaluatedOutput, ActionOutput
  <2>3. Satisfies(w.rootKey, <<"epoch cert", i.agora, i.epoch, w.epochPublicKey>>, w.certificate)
          <=> w.certificate =
                Sign(w.rootKey[2], EpochCertMessage(public.agora, public.epoch, w.epochPublicKey))
    BY <1>1 DEF Satisfies, Sign, EpochCertMessage
  <2>4. SpendOf(w.credentialKey, leaf, i.agora) = <<"spend", w.credentialKey, leaf, FromId(public.agora)>>
    BY <1>1 DEF SpendOf
  <2> HIDE DEF derives
  <2> QED
    BY <1>1, <1>2, <2>1, <2>2, <2>3, <2>4 DEF SatisfiesChain, Generates
<1>5. ChainHolds(w, public) <=> common /\ derives
  <2>1. Corresponds(w) <=> w.epochKey < ScalarOrder /\ w.epochPublicKey = <<"point", w.epochKey>>
    BY Points DEF Corresponds
  <2>2. w.epochKey < ScalarOrder => (StubActionHolds(w, public) <=> derives)
    <3> SUFFICES ASSUME w.epochKey < ScalarOrder
                 PROVE  StubActionHolds(w, public) <=> derives
      OBVIOUS
    <3>1. CASE public.tag = Authorship
      BY <1>3, <3>1 DEF StubActionHolds, ActionContext, AttestationNullifier,
                        Authorship, Vouch, Policy, LiveAuth, Access
    <3>2. CASE public.tag = Vouch
      BY <3>2 DEF StubActionHolds, ActionContext, VouchNullifier,
                  Authorship, Vouch, Policy, LiveAuth, Access
    <3>3. CASE public.tag = Policy
      BY <3>3 DEF StubActionHolds, ActionContext, PolicyNullifier,
                  Authorship, Vouch, Policy, LiveAuth, Access
    <3>4. CASE public.tag = LiveAuth
      BY <1>3, <3>4 DEF StubActionHolds, ActionContext, Pseudonym,
                        Authorship, Vouch, Policy, LiveAuth, Access
    <3>5. CASE public.tag = Access
      BY <3>5 DEF StubActionHolds
    <3> QED
      BY <3>1, <3>2, <3>3, <3>4, <3>5, TagsAre
  <2>3. MigrationNullifier(w.credentialKey, leaf, public.agora)
          = <<"spend", w.credentialKey, leaf, FromId(public.agora)>>
    BY DEF MigrationNullifier
  <2> HIDE DEF derives, leaf
  <2> QED
    BY <2>1, <2>2, <2>3 DEF ChainHolds, Certified, VerifySignature, RevocationKey, leaf
<1> QED
  BY <1>4, <1>5

Secrets(w) == FromWitness(w.credentialKey) = w.credentialKey /\ FromWitness(w.opening) = w.opening

LEMMA SecretsAre ==
  ASSUME NEW n \in Nat
  PROVE  DecodesSecret(n) => FromWitness(n) = n
BY Canonical, OrderAssumption DEF DecodesSecret

LEMMA Decoding ==
  /\ \A tag, key, context, agora : Decodes(ActionOutput(tag, key, context, agora))
  /\ Decodes(Zero)
  /\ \A key, leaf, agora : Decodes(MigrationNullifier(key, leaf, agora))
  /\ \A pk, key, opening, agora : Decodes(Commit(pk, key, opening, agora))
<1>1. \A x : x[1] # "names no element" => Decodes(x)
  <2>1. NonCanonical[1] = "names no element"
    BY DEF NonCanonical
  <2> QED
    BY <2>1 DEF Decodes
<1>2. \A tag, key, context, agora : ActionOutput(tag, key, context, agora)[1] = "action"
  BY DEF ActionOutput
<1>3. Zero[1] = "zero"
  BY DEF Zero
<1>4. \A key, leaf, agora : MigrationNullifier(key, leaf, agora)[1] = "spend"
  BY DEF MigrationNullifier
<1>5. \A pk, key, opening, agora : Commit(pk, key, opening, agora)[1] = "leaf"
  BY DEF Commit
<1> QED
  BY <1>1, <1>2, <1>3, <1>4, <1>5

LEMMA ChainTrialsAgree ==
  ASSUME ProvingInv, NEW t \in ChainTrials
  PROVE  /\ PlonkProvesChain(t[1], t[2]) =>
              ChainHolds(t[1], t[2]) /\ ChainRelation(t[1], ChainInstance(t[2]))
         /\ HasChainWitness(t[1]) /\ ChainRelation(t[1], ChainInstance(t[2])) =>
              /\ t[1].epochKey < FieldOrder => SatisfiesChain(t[1], ChainInstance(t[2]))
              /\ SatisfiesChain(Reduced(t[1]), Rederived(Reduced(t[1]), ChainInstance(t[2])))
         /\ Minted(t[1]) /\ ChainHolds(t[1], t[2]) => PlonkProvesChain(t[1], t[2])
<1>1. PICK h \in Holders, g \in Generations, e \in 1..Roots.epoch, roots \in Published :
        \E w \in Witnesses(h, g, e, roots), claim \in Claims :
        \E c : t = <<w, ProveAction(c, roots, claim[1], claim[2])>>
  <2>1. PICK h \in Holders, g \in Generations, e \in 1..Roots.epoch, roots \in Published :
          t \in UNION {{<<w, ProveAction(c, roots, claim[1], claim[2])>> : claim \in Claims,
                         c \in {w, ActingWitness(h, g, e, roots), ActingWitness(h, 0, 1, roots)}} :
                      w \in Witnesses(h, g, e, roots)}
    BY DEF ChainTrials
  <2>2. PICK w \in Witnesses(h, g, e, roots) :
          t \in {<<w, ProveAction(c, roots, claim[1], claim[2])>> : claim \in Claims,
                  c \in {w, ActingWitness(h, g, e, roots), ActingWitness(h, 0, 1, roots)}}
    BY <2>1
  <2>3. PICK claim \in Claims,
             c \in {w, ActingWitness(h, g, e, roots), ActingWitness(h, 0, 1, roots)} :
          t = <<w, ProveAction(c, roots, claim[1], claim[2])>>
    BY <2>2
  <2>4. \E d : t = <<w, ProveAction(d, roots, claim[1], claim[2])>>
    BY <2>3
  <2> QED
    BY <2>4
<1>0. PICK w \in Witnesses(h, g, e, roots), claim \in Claims :
        \E c : t = <<w, ProveAction(c, roots, claim[1], claim[2])>>
  BY <1>1
<1>2. PICK c : t = <<w, ProveAction(c, roots, claim[1], claim[2])>>
  BY <1>0
<1> DEFINE public == ProveAction(c, roots, claim[1], claim[2])
<1>3. t[1] = w /\ t[2] = public
  BY <1>2
<1>4. e \in 1..MaxEpoch /\ roots.epoch \in 1..MaxEpoch
  BY EpochsAre DEF ProvingInv
<1>5. WitnessOf(w, h, g, e)
  BY <1>4, WitnessShape
<1>6. claim[1] \in Tags
  BY InstanceAssumption DEF Tags
<1>7. public.tag \in Tags /\ HasChainInstance(public)
  <2>1. PICK output : /\ public = ChainPublics(roots, claim[1], claim[2], output)
                      /\ claim[1] = Access => output = Zero
                      /\ claim[1] # Access => \E key : output =
                           ActionOutput(claim[1], key, ActionContext(claim[1], claim[2]), Agora)
    BY <1>6, ActionPublics
  <2>2. Decodes(output)
    BY <2>1, Decoding
  <2> HIDE DEF public
  <2> QED
    BY <1>6, <2>1, <2>2 DEF ChainPublics, HasChainInstance
<1> HIDE DEF public
<1>8. w.epochKey \in Nat /\ w.credentialKey \in Nat /\ w.opening \in Nat
  BY <1>5, SecretsAreBytes DEF WitnessOf
<1>9. w.epochKey < FieldOrder =>
        (SatisfiesChain(w, ChainInstance(public)) <=> ChainRelation(w, ChainInstance(public)))
  BY <1>7, <1>8, ChainInstanceIs, EvaluatorIsCircuit
<1>13. SatisfiesChain(w, ChainInstance(public)) => w.epochKey < FieldOrder
  <2>1. SatisfiesChain(w, ChainInstance(public)) => w.epochKey < ScalarOrder
    BY DEF SatisfiesChain
  <2> QED
    BY <1>8, <2>1, OrderAssumption
<1>14. ChainRelation(w, ChainInstance(public)) =>
         SatisfiesChain(Reduced(w), Rederived(Reduced(w), ChainInstance(public)))
  BY <1>5, <1>7, CircuitIsEvaluatorReduced
<1>10. Secrets(w) /\ IsPoint(w.rootKey) =>
         (SatisfiesChain(w, ChainInstance(public)) <=> ChainHolds(w, public))
  BY <1>7, <1>8, EvaluatorIsStub DEF Secrets
<1>11. HasChainWitness(w) => Secrets(w) /\ IsPoint(w.rootKey)
  BY <1>8, SecretsAre DEF HasChainWitness, Secrets
<1>12. Minted(w) /\ ChainHolds(w, public) =>
         Secrets(w) /\ HasChainWitness(w) /\ IsPoint(w.rootKey)
  <2> SUFFICES ASSUME Minted(w), ChainHolds(w, public)
               PROVE  Secrets(w) /\ HasChainWitness(w) /\ IsPoint(w.rootKey)
    OBVIOUS
  <2>1. DecodesSecret(w.credentialKey) /\ DecodesSecret(w.opening)
    BY Canonical DEF Minted, DecodesSecret
  <2>2. IsPoint(w.rootKey) /\ IsPoint(w.epochPublicKey)
    BY DEF ChainHolds, Corresponds
  <2>3. DecodesSignature(w.certificate)
    BY Signatures DEF ChainHolds, Certified, VerifySignature, DecodesSignature
  <2> QED
    BY <1>8, <2>1, <2>2, <2>3, SecretsAre DEF Secrets, HasChainWitness
<1> QED
  BY <1>3, <1>7, <1>9, <1>10, <1>11, <1>12, <1>13, <1>14 DEF PlonkProvesChain

LEMMA MigrationTrialsAgree ==
  ASSUME NEW t \in MigrationTrials
  PROVE  /\ PlonkProvesMigration(t[1], t[2]) =>
              MigrationHolds(t[1], t[2]) /\ MigrationRelation(t[1], MigrationInstance(t[2]))
         /\ HasMigrationWitness(t[1]) /\ MigrationRelation(t[1], MigrationInstance(t[2])) =>
              SatisfiesMigration(t[1], MigrationInstance(t[2]))
         /\ t[1].credentialKey \in Holders /\ MigrationHolds(t[1], t[2]) =>
              PlonkProvesMigration(t[1], t[2])
<1>1. PICK h \in Holders, g \in Generations, roots \in Published :
        \E next \in Generations \ {g} :
          t \in {<<w, ProveMigration(c, roots, s)>> :
                  w \in MigrationWitnesses(h, g, next, roots), s \in Successors(h, next),
                  c \in {MigratingWitness(h, g, next, roots), MigratingWitness(h, 0, next, roots)}}
  BY DEF MigrationTrials
<1>2. PICK next \in Generations :
        \E w \in MigrationWitnesses(h, g, next, roots), s \in Successors(h, next) : \E c :
          t = <<w, ProveMigration(c, roots, s)>>
  BY <1>1
<1>3. PICK w \in MigrationWitnesses(h, g, next, roots), s \in Successors(h, next) :
        \E c : t = <<w, ProveMigration(c, roots, s)>>
  BY <1>2
<1>4. PICK c : t = <<w, ProveMigration(c, roots, s)>>
  BY <1>3
<1> DEFINE public == ProveMigration(c, roots, s)
           i == MigrationInstance(public)
           leaf == OldLeaf(w, public.agora)
<1>5. t[1] = w /\ t[2] = public
  BY <1>4
<1>6. MigrationWitnessOf(w, h, g, next)
  BY MigrationWitnessShape
<1>7. /\ i.agora = FromId(public.agora) /\ i.class = public.class
      /\ i.revocation = public.revocation /\ i.spend = public.spend
      /\ i.successor = public.successor
  BY DEF MigrationInstance, ProveMigration
<1>8. HasMigrationInstance(public)
  BY Decoding DEF ProveMigration, Successors, HasMigrationInstance
<1> HIDE DEF public, i
<1>9. /\ FromWitness(w.oldOpening) = w.oldOpening /\ DecodesSecret(w.oldOpening)
      /\ FromWitness(w.successorOpening) = w.successorOpening /\ DecodesSecret(w.successorOpening)
      /\ IsPoint(w.successorKey) /\ w.credentialKey \in Nat
  BY <1>6, Canonical, Points DEF MigrationWitnessOf, DecodesSecret, IsPoint
<1>10. SatisfiesMigration(w, i) <=> MigrationRelation(w, i)
  BY DEF SatisfiesMigration, MigrationRelation, MerkleRoot, AssertAbsent, RevocationEntry,
         VerifyCertificate
<1>11. FromWitness(w.credentialKey) = w.credentialKey /\ IsPoint(w.oldRootKey) =>
         (SatisfiesMigration(w, i) <=> MigrationHolds(w, public))
  <2> SUFFICES ASSUME FromWitness(w.credentialKey) = w.credentialKey, IsPoint(w.oldRootKey)
               PROVE  SatisfiesMigration(w, i) <=> MigrationHolds(w, public)
    OBVIOUS
  <2>1. LeafOf(w.oldRootKey, w.credentialKey, w.oldOpening, i.agora) = leaf
    BY <1>7, <1>9 DEF LeafOf, OldLeaf, Commit
  <2>2. LeafOf(w.successorKey, w.credentialKey, w.successorOpening, i.agora)
          = Commit(w.successorKey, w.credentialKey, w.successorOpening, public.agora)
    BY <1>7, <1>9 DEF LeafOf, Commit
  <2>3. SpendOf(w.credentialKey, leaf, i.agora) = MigrationNullifier(w.credentialKey, leaf, public.agora)
    BY <1>7 DEF SpendOf, MigrationNullifier
  <2>4. Satisfies(w.oldRootKey, <<"migration cert", i.agora, w.successorKey>>, w.certificate)
          <=> VerifySignature(w.oldRootKey, MigrationCertMessage(public.agora, w.successorKey),
                              w.certificate)
    BY <1>7 DEF Satisfies, VerifySignature, Sign, MigrationCertMessage
  <2> HIDE DEF leaf
  <2> QED
    BY <1>7, <1>9, <2>1, <2>2, <2>3, <2>4
       DEF SatisfiesMigration, MigrationHolds, SuccessorOpens, RevocationKey, leaf
<1>12. HasMigrationWitness(w) =>
         FromWitness(w.credentialKey) = w.credentialKey /\ IsPoint(w.oldRootKey)
  BY <1>9, SecretsAre DEF HasMigrationWitness
<1>13. w.credentialKey \in Holders /\ MigrationHolds(w, public) =>
         /\ FromWitness(w.credentialKey) = w.credentialKey /\ IsPoint(w.oldRootKey)
         /\ HasMigrationWitness(w)
  <2> SUFFICES ASSUME w.credentialKey \in Holders, MigrationHolds(w, public)
               PROVE  /\ FromWitness(w.credentialKey) = w.credentialKey /\ IsPoint(w.oldRootKey)
                      /\ HasMigrationWitness(w)
    OBVIOUS
  <2>1. FromWitness(w.credentialKey) = w.credentialKey /\ DecodesSecret(w.credentialKey)
    BY Canonical DEF DecodesSecret
  <2>2. IsPoint(w.oldRootKey) /\ DecodesSignature(w.certificate)
    BY Signatures DEF MigrationHolds, VerifySignature, DecodesSignature
  <2> QED
    BY <1>9, <2>1, <2>2 DEF HasMigrationWitness
<1> QED
  BY <1>5, <1>8, <1>10, <1>11, <1>12, <1>13 DEF PlonkProvesMigration, i

LEMMA InboxTrialsAgree ==
  ASSUME NEW t \in InboxTrials
  PROVE  /\ PlonkProvesInbox(t[1], t[2]) =>
              InboxHolds(t[1], t[2]) /\ InboxRelation(t[1], InboxInstance(t[2]))
         /\ HasInboxWitness(t[1]) /\ InboxRelation(t[1], InboxInstance(t[2])) =>
              SatisfiesInbox(t[1], InboxInstance(t[2]))
         /\ Minted(t[1]) /\ InboxHolds(t[1], t[2]) => PlonkProvesInbox(t[1], t[2])
<1>1. PICK h \in Holders, g \in Generations :
        t \in {<<w, ProveInbox(Leaf(k, g), inbox, action)>> : w \in InboxWitnesses(h, g),
                k \in Holders, inbox \in Inboxes, action \in {0, 1}}
  BY DEF InboxTrials
<1>2. PICK w \in InboxWitnesses(h, g), k \in Holders, inbox \in Inboxes, action \in {0, 1} :
        t = <<w, ProveInbox(Leaf(k, g), inbox, action)>>
  BY <1>1
<1> DEFINE public == ProveInbox(Leaf(k, g), inbox, action)
           i == InboxInstance(public)
<1>3. t[1] = w /\ t[2] = public
  BY <1>2
<1>4. InboxWitnessOf(w, h, g)
  BY InboxWitnessShape
<1>5. /\ i.agora = FromId(public.agora) /\ i.leaf = public.leaf
      /\ i.action = public.action /\ i.inbox = FromId(public.inbox)
      /\ public.action \in {0, 1}
  BY DEF InboxInstance, ProveInbox
<1>6. HasInboxInstance(public)
  BY Decoding DEF ProveInbox, Leaf, HasInboxInstance
<1> HIDE DEF public, i
<1>7. w.credentialKey \in Nat /\ w.opening \in Nat
  BY <1>4, Canonical DEF InboxWitnessOf
<1>8. SatisfiesInbox(w, i) <=> InboxRelation(w, i)
  <2>1. i.action \in {0, 1} /\ AssertInboxAction(i.action)
    BY <1>5 DEF AssertInboxAction
  <2> QED
    BY <2>1 DEF SatisfiesInbox, InboxRelation, VerifyCertificate
<1>9. Secrets(w) /\ IsPoint(w.rootKey) => (SatisfiesInbox(w, i) <=> InboxHolds(w, public))
  <2> SUFFICES ASSUME Secrets(w), IsPoint(w.rootKey)
               PROVE  SatisfiesInbox(w, i) <=> InboxHolds(w, public)
    OBVIOUS
  <2>1. LeafOf(w.rootKey, w.credentialKey, w.opening, i.agora)
          = Commit(w.rootKey, w.credentialKey, w.opening, public.agora)
    BY <1>5 DEF LeafOf, Commit, Secrets
  <2>2. Satisfies(w.rootKey, <<"inbox cert", i.agora, i.action, i.inbox>>, w.certificate)
          <=> VerifySignature(w.rootKey, InboxCertMessage(public.agora, public.action, public.inbox),
                              w.certificate)
    BY <1>5 DEF Satisfies, VerifySignature, Sign, InboxCertMessage
  <2> QED
    BY <1>5, <2>1, <2>2 DEF SatisfiesInbox, InboxHolds
<1>10. HasInboxWitness(w) => Secrets(w) /\ IsPoint(w.rootKey)
  BY <1>7, SecretsAre DEF HasInboxWitness, Secrets
<1>11. Minted(w) /\ InboxHolds(w, public) =>
         Secrets(w) /\ HasInboxWitness(w) /\ IsPoint(w.rootKey)
  <2> SUFFICES ASSUME Minted(w), InboxHolds(w, public)
               PROVE  Secrets(w) /\ HasInboxWitness(w) /\ IsPoint(w.rootKey)
    OBVIOUS
  <2>1. DecodesSecret(w.credentialKey) /\ DecodesSecret(w.opening)
    BY Canonical DEF Minted, DecodesSecret
  <2>2. IsPoint(w.rootKey) /\ DecodesSignature(w.certificate)
    BY Signatures DEF InboxHolds, VerifySignature, DecodesSignature
  <2> QED
    BY <1>7, <2>1, <2>2, SecretsAre DEF Secrets, HasInboxWitness
<1> QED
  BY <1>3, <1>6, <1>8, <1>9, <1>10, <1>11 DEF PlonkProvesInbox, i

(* Over everything a holder could hand to prove, what the evaluator        *)
(* (nymora-plonk/src/evaluate.rs) admits the circuits and the stub         *)
(* (nymora-circuits/src/stub.rs) establish, what the circuits admit the    *)
(* evaluator admits - an epoch key whose bytes the field does not hold in  *)
(* reduced form only - and with secrets as they are minted the circuits    *)
(* refuse nothing the stub accepts.                                        *)
THEOREM BackendsAgreeInvariant == Spec => []BackendsAgree
<1>1. ProvingInv => BackendsAgree
  BY ChainTrialsAgree, MigrationTrialsAgree, InboxTrialsAgree DEF BackendsAgree
<1> QED
  BY <1>1, ProvingInductive, PTL

(* A chain proof that verifies for altered inputs verifies for inputs that *)
(* differ only in the bits FromId drops, and with the stub that do not     *)
(* differ: ProofSystem::verify (nymora-circuits).                          *)
THEOREM BoundToItsEntryInvariant == Spec => []BoundToItsEntry
<1>1. ProvingInv => BoundToItsEntry
  <2> SUFFICES ASSUME ProvingInv, NEW b \in InChain, NEW public \in Altered(b.public),
                      VerifiesChain(b.proof, public)
               PROVE  SameEntry(public, b.public) /\ (backend = "stub" => public = b.public)
    BY DEF BoundToItsEntry
  <2> DEFINE sent == b.public
             S == [public EXCEPT !.agora = 0, !.context = 0]
  <2>1. ChainSent(b)
    BY DEF ProvingInv, SentOK, InChain
  <2>2. sent = ChainPublics(sent, sent.tag, sent.context, sent.output)
    BY <2>1 DEF ChainSent
  <2>3. CASE backend = "stub"
    <3>1. public = sent
      BY <2>1, <2>3 DEF ChainSent, VerifiesChain, StubVerifyChain, ChainBinding
    <3> QED
      BY <2>3, <3>1 DEF SameEntry
  <2>4. CASE backend # "stub"
    <3>1. ChainInstance(public) = ChainInstance(sent) /\ Decodes(public.output)
      BY <2>1, <2>4 DEF ChainSent, VerifiesChain, PlonkVerifyChain, HasChainInstance
    <3>2. /\ FromId(public.agora) = FromId(sent.agora) /\ public.epoch = sent.epoch
          /\ public.class = sent.class /\ public.revocation = sent.revocation
          /\ public.spend = sent.spend /\ public.tag = sent.tag
          /\ ActionContext(public.tag, public.context) = ActionContext(sent.tag, sent.context)
          /\ public.tag # Access => public.output = sent.output
      BY <3>1, ChainInstanceIs
    <3>3. /\ \E a, e, c, r, s, t, x, o : public =
               [agora |-> a, epoch |-> e, class |-> c, revocation |-> r, spend |-> s,
                tag |-> t, context |-> x, output |-> o]
          /\ public.output \in {sent.output, Zero, NonCanonical}
      BY <2>2 DEF Altered, ChainPublics
    <3>4. public.output = sent.output
      <4>1. sent.tag = Access => sent.output = Zero
        BY <2>1 DEF ChainSent
      <4> QED
        BY <3>1, <3>2, <3>3, <4>1 DEF Decodes
    <3> HIDE DEF sent
    <3>5. [public EXCEPT !.agora = 0, !.context = 0] = [sent EXCEPT !.agora = 0, !.context = 0]
      BY <2>2, <3>2, <3>3, <3>4 DEF ChainPublics
    <3> QED
      BY <2>4, <3>2, <3>5 DEF SameEntry, sent
  <2> QED
    BY <2>3, <2>4
<1> QED
  BY <1>1, ProvingInductive, PTL
================================================================================
