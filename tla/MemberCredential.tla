--------------------------- MODULE MemberCredential ---------------------------
(***************************************************************************)
(* A member's credential in one agora, on the devices it lives on          *)
(* (nymora-protocol/src/credential.rs, proving.rs; the SecureStorage port  *)
(* of nymora-ports).                                                       *)
(*                                                                         *)
(* Each function of credential.rs is one action.  What it does to the      *)
(* device's storage is a sequence of writes, in the order of the code; the *)
(* call completes, or it stops at one of them: because the port refused    *)
(* it, and then the call unwinds what the code unwinds and returns an      *)
(* error, or because the process died there, and then nothing is unwound.  *)
(* Which of these the environment may do is the constant Faults.           *)
(*                                                                         *)
(* What is abstracted:                                                     *)
(*   - secret material is the number of the draw it was minted from; a     *)
(*     public key is identified with the secret it belongs to, and the     *)
(*     certificate record with the epoch key it certifies;                 *)
(*   - a leaf is the triple it commits to (root, key, opening);            *)
(*   - a refusal before the first write changes nothing and is a           *)
(*     stuttering step: a root authority that refuses to sign, a short     *)
(*     buffer, an absent slot, an implausible span.                        *)
(*                                                                         *)
(* certified, leaves, handoffs and returned are not storage: they are what *)
(* the calls have returned to the host.                                    *)
(***************************************************************************)
EXTENDS Naturals, Sequences, FiniteSets

CONSTANTS
  Devices,      \* the devices of one member
  MaxEpoch,     \* bound: the epochs the host may name are 0..MaxEpoch
  MaxEpochGap,  \* MAX_EPOCH_GAP
  MaxDraws,     \* bound: how many values the host draws from its entropy
  Faults        \* a subset of {"refusal", "unwinding", "crash"}

ASSUME CredentialAssumption ==
  /\ MaxEpoch \in Nat /\ MaxEpochGap \in Nat /\ MaxDraws \in Nat
  /\ Faults \subseteq {"refusal", "unwinding", "crash"}

VARIABLES
  storage,        \* [Devices -> [Slots -> at most one value]]
  successorRoot,  \* [Devices -> at most one root]: what create_successor_root returned
  handoffs,       \* what authorize_migration has returned
  leaves,         \* the commitments create and complete_migration have returned
  certified,      \* [Devices -> epochs]: those whose latest roll_epoch returned Ok
  returned,       \* [Devices -> the outcome of the device's last call]
  drawn

vars == <<storage, successorRoot, handoffs, leaves, certified, returned, drawn>>

Epochs == 0..MaxEpoch
Draws  == 1..MaxDraws

-------------------------------------------------------------------------------
(* The storage port: a slot holds one value or none, a write commits or    *)
(* does not.                                                               *)

CredentialKey == <<"CredentialKey">>
RootOpening   == <<"RootOpening">>
RootPublicKey == <<"RootPublicKey">>
InboxKey      == <<"InboxKey">>
EpochCursor   == <<"EpochCursor">>
EpochKey(e)   == <<"EpochKey", e>>
EpochCert(e)  == <<"EpochCert", e>>

Durable == {CredentialKey, RootOpening, RootPublicKey}
Slots   == Durable \cup {InboxKey, EpochCursor} \cup {"EpochKey", "EpochCert"} \X Epochs

None    == {}
Some(v) == {v}

Store(slot, v) == [slot |-> slot, value |-> Some(v)]
Delete(slot)   == [slot |-> slot, value |-> None]

\* Reading an absent slot leaves it absent, but the port can refuse that too.
ReadAbsent(slot) == Delete(slot)

\* The value in an occupied slot.
Load(d, slot)   == CHOOSE v \in storage[d][slot] : TRUE
Holds(d, slots) == \A slot \in slots : storage[d][slot] # None

(* A store s after the first n of the writes committed.  No call writes a  *)
(* slot twice.                                                             *)
After(s, writes, n) ==
  [slot \in Slots |->
     IF \E i \in 1..n : writes[i].slot = slot
       THEN writes[CHOOSE i \in 1..n : writes[i].slot = slot].value
       ELSE s[slot]]

Emptied(s, slots) == [slot \in Slots |-> IF slot \in slots THEN None ELSE s[slot]]

\* The deletes of an unwinding are best effort: their results are discarded.
Unwound(slots) == IF "unwinding" \in Faults THEN SUBSET slots ELSE {slots}

(* How a call that performs these writes can leave the device; undo[n] is  *)
(* what the code deletes when the write after the n-th is refused.         *)
Completes(d, writes) ==
  storage' = [storage EXCEPT ![d] = After(@, writes, Len(writes))]

Stops(d, writes, undo) ==
  \/ /\ "refusal" \in Faults
     /\ \E n \in 0..(Len(writes) - 1) : \E undone \in Unwound(undo[n]) :
          storage' = [storage EXCEPT ![d] = Emptied(After(@, writes, n), undone)]
  \/ /\ "crash" \in Faults
     /\ \E n \in 0..Len(writes) :
          storage' = [storage EXCEPT ![d] = After(@, writes, n)]

Ok(call, current) == [call |-> call, current |-> current, ok |-> TRUE]
Failed            == [call |-> "none", current |-> 0, ok |-> FALSE]
Returns(d, outcome) == returned' = [returned EXCEPT ![d] = outcome]

\* FreshEntropy: n values never drawn before, the first of them drawn + 1.
Draw(n) == drawn + n <= MaxDraws /\ drawn' = drawn + n

-------------------------------------------------------------------------------
Init ==
  /\ storage = [d \in Devices |-> [slot \in Slots |-> None]]
  /\ successorRoot = [d \in Devices |-> None]
  /\ handoffs = {} /\ leaves = {}
  /\ certified = [d \in Devices |-> {}]
  /\ returned = [d \in Devices |-> Failed]
  /\ drawn = 0

-------------------------------------------------------------------------------
(* Creation.                                                               *)

Leaf(root, key, opening) == [root |-> root, key |-> key, opening |-> opening]

\* store_credential_material: the four durable slots, in this order.
Material(key, opening, root, inbox) ==
  <<Store(CredentialKey, key), Store(RootOpening, opening),
    Store(RootPublicKey, root), Store(InboxKey, inbox)>>

\* Faulty: the first slot is left behind when the second is refused.
FaultyMaterialUndo ==
  [n \in 0..3 |-> {<<CredentialKey, RootOpening, RootPublicKey>>[i] : i \in 2..n}]

\* Its unwinding: the slots written before the refused one.
MaterialUndo ==
  [n \in 0..3 |-> {<<CredentialKey, RootOpening, RootPublicKey>>[i] : i \in 1..n}]

Create(d) ==
  LET root == drawn + 1  key == drawn + 2  opening == drawn + 3  inbox == drawn + 4
      writes == Material(key, opening, root, inbox)
  IN /\ Draw(4)
     /\ \/ /\ Completes(d, writes)
           /\ leaves' = leaves \cup {Leaf(root, key, opening)}
           /\ Returns(d, Ok("create", 0))
        \/ /\ Stops(d, writes, MaterialUndo)
           /\ UNCHANGED leaves
           /\ Returns(d, Failed)
     /\ UNCHANGED <<successorRoot, handoffs, certified>>

-------------------------------------------------------------------------------
(* Epochs.                                                                 *)

\* Faulty: the sweep starts after the cursor's epoch.
FaultySpanStart(d) == Load(d, EpochCursor) + 1
SpanStart(d) == Load(d, EpochCursor)

Cursored(d) == Holds(d, {EpochCursor})

(* checked_span: no rolling back, no implausible jump.                     *)
PlausibleSpan(d, current) ==
  Cursored(d) => /\ Load(d, EpochCursor) <= current
                 /\ current - Load(d, EpochCursor) <= MaxEpochGap

(* The key, then the certificate, of every epoch from the cursor up to but *)
(* excluding current; nothing where no cursor is stored.                   *)
Sweep(d, current) ==
  IF ~Cursored(d) THEN << >>
  ELSE LET from == SpanStart(d)
       IN [i \in 1..(IF from <= current THEN 2 * (current - from) ELSE 0) |->
             IF i % 2 = 1 THEN Delete(EpochKey(from + (i - 1) \div 2))
                          ELSE Delete(EpochCert(from + (i - 1) \div 2))]

NoUndo(writes) == [n \in 0..Len(writes) |-> {}]

DiscardExpired(d, current) ==
  /\ PlausibleSpan(d, current)
  /\ \/ /\ Completes(d, Sweep(d, current))
        /\ Returns(d, Ok("discard_expired", current))
     \/ /\ Stops(d, Sweep(d, current), NoUndo(Sweep(d, current)))
        /\ Returns(d, Failed)
  /\ UNCHANGED <<successorRoot, handoffs, leaves, certified, drawn>>

\* Faulty: the cursor is stored before the key it names.
FaultyRollWrites(d, current, key) ==
  <<Store(EpochCursor, current)>> \o Sweep(d, current)
    \o <<Store(EpochKey(current), key), Store(EpochCert(current), key)>>

RollWrites(d, current, key) ==
  Sweep(d, current)
    \o <<Store(EpochKey(current), key), Store(EpochCert(current), key),
         Store(EpochCursor, current)>>

\* Faulty: a key whose certificate could not be stored is kept.
FaultyRollUndo(d, current) == [n \in 0..(Len(Sweep(d, current)) + 2) |-> {}]

\* Only a refused certificate is unwound, by deleting the new key.
RollUndo(d, current) ==
  [n \in 0..(Len(Sweep(d, current)) + 2) |->
     IF n = Len(Sweep(d, current)) + 1 THEN {EpochKey(current)} ELSE {}]

RollEpoch(d, current) ==
  LET writes == RollWrites(d, current, drawn + 1)
  IN /\ PlausibleSpan(d, current)
     /\ Draw(1)
     /\ \/ /\ Completes(d, writes)
           /\ certified' = [certified EXCEPT ![d] = @ \cup {current}]
           /\ Returns(d, Ok("roll_epoch", current))
        \/ /\ Stops(d, writes, RollUndo(d, current))
           /\ certified' = [certified EXCEPT ![d] = @ \ {current}]
           /\ Returns(d, Failed)
     /\ UNCHANGED <<successorRoot, handoffs, leaves>>

-------------------------------------------------------------------------------
(* Planned migration.                                                      *)

CreateSuccessorRoot(d) ==
  /\ Draw(1)
  /\ successorRoot' = [successorRoot EXCEPT ![d] = Some(drawn + 1)]
  /\ UNCHANGED <<storage, handoffs, leaves, certified, returned>>

\* Faulty: the inbox secret survives the handoff.
FaultyDestroyWrites(d) ==
  IF Cursored(d)
    THEN LET cursor == Load(d, EpochCursor)
         IN <<Delete(EpochKey(cursor)), Delete(EpochCert(cursor)), Delete(EpochCursor)>>
    ELSE <<ReadAbsent(EpochCursor)>>

(* destroy_acting_material: the inbox secret, then, where a cursor is      *)
(* stored, the key and certificate it names, then the cursor.  Its call of *)
(* discard_expired up to the cursor's own epoch sweeps nothing.            *)
DestroyWrites(d) ==
  <<Delete(InboxKey)>>
    \o IF Cursored(d)
         THEN Sweep(d, Load(d, EpochCursor))
                \o LET cursor == Load(d, EpochCursor)
                   IN <<Delete(EpochKey(cursor)), Delete(EpochCert(cursor)), Delete(EpochCursor)>>
         ELSE <<ReadAbsent(EpochCursor)>>

Handoff(d, successor) ==
  [key |-> Load(d, CredentialKey), opening |-> Load(d, RootOpening),
   root |-> Load(d, RootPublicKey), successor |-> successor]

(* The certificates and the handoff are written to the caller's buffers    *)
(* first; the caller only has them if the call returns Ok.                 *)
AuthorizeMigration(d, successor) ==
  /\ Holds(d, Durable \cup {InboxKey})
  /\ \/ /\ Completes(d, DestroyWrites(d))
        /\ handoffs' = handoffs \cup {Handoff(d, successor)}
        /\ Returns(d, Ok("authorize_migration", 0))
     \/ /\ Stops(d, DestroyWrites(d), NoUndo(DestroyWrites(d)))
        /\ UNCHANGED handoffs
        /\ Returns(d, Failed)
  /\ UNCHANGED <<successorRoot, leaves, certified, drawn>>

(* The successor completes with the root it made for the purpose; nothing  *)
(* here compares that root with the one the certificate names.             *)
CompleteMigration(d, handoff) ==
  LET opening == drawn + 1  inbox == drawn + 2
  IN \E root \in successorRoot[d] :
       /\ Draw(2)
       /\ \/ /\ Completes(d, Material(handoff.key, opening, root, inbox))
             /\ leaves' = leaves \cup {Leaf(root, handoff.key, opening)}
             /\ Returns(d, Ok("complete_migration", 0))
          \/ /\ Stops(d, Material(handoff.key, opening, root, inbox), MaterialUndo)
             /\ UNCHANGED leaves
             /\ Returns(d, Failed)
       /\ UNCHANGED <<successorRoot, handoffs, certified>>

(* The host renews the inbox key: it mints the secret, has the instruction *)
(* signed (sign_inbox_cert) and writes the slot itself.                    *)
RenewInbox(d) ==
  /\ Holds(d, Durable)
  /\ Draw(1)
  /\ Completes(d, <<Store(InboxKey, drawn + 1)>>)
  /\ Returns(d, Ok("store", 0))
  /\ UNCHANGED <<successorRoot, handoffs, leaves, certified>>

-------------------------------------------------------------------------------
Next ==
  \E d \in Devices :
    \/ Create(d)
    \/ \E e \in Epochs : DiscardExpired(d, e)
    \/ \E e \in Epochs : RollEpoch(d, e)
    \/ CreateSuccessorRoot(d)
    \/ \E successor \in UNION {successorRoot[b] : b \in Devices} :
         AuthorizeMigration(d, successor)
    \/ \E handoff \in handoffs : CompleteMigration(d, handoff)
    \/ RenewInbox(d)

Spec == Init /\ [][Next]_vars

-------------------------------------------------------------------------------
(* Properties.                                                             *)

HoldsEpoch(d, e) == storage[d][EpochKey(e)] # None \/ storage[d][EpochCert(e)] # None

(* Material of an epoch the member was told it had certified is never out  *)
(* of the next sweep's reach: while any of it is stored, a cursor is, and  *)
(* at or before that epoch - whatever call was refused or killed half way. *)
CertifiedIsSweepable ==
  \A d \in Devices : \A e \in certified[d] :
    HoldsEpoch(d, e) => Cursored(d) /\ Load(d, EpochCursor) <= e

(* Forward secrecy (section 9.1): when discard_expired or roll_epoch has   *)
(* just returned Ok, the device holds nothing of any epoch before current  *)
(* that it was told it had certified.                                      *)
ForwardSecrecy ==
  \A d \in Devices :
    returned[d].ok /\ returned[d].call \in {"discard_expired", "roll_epoch"} =>
      \A e \in certified[d] : e < returned[d].current => ~HoldsEpoch(d, e)

(* A device that has just handed its credential off cannot act or listen:  *)
(* no inbox secret, no cursor, no material of a certified epoch.           *)
HandedOffIsSilent ==
  \A d \in Devices :
    returned[d].ok /\ returned[d].call = "authorize_migration" =>
      /\ ~Holds(d, {InboxKey}) /\ ~Cursored(d)
      /\ \A e \in certified[d] : ~HoldsEpoch(d, e)

(* A refused write never leaves an epoch key beside a certificate that is  *)
(* not its own, or beside none.                                            *)
NoUncertifiedKey ==
  \A d \in Devices : \A e \in Epochs :
    storage[d][EpochKey(e)] # None => storage[d][EpochCert(e)] = storage[d][EpochKey(e)]

(* Whatever was refused while overwriting what, three durable slots that   *)
(* are all stored open one leaf that was returned to the host, and so does *)
(* every handoff: pieces of two credentials never combine.                 *)
NoMixedCredential ==
  /\ \A d \in Devices :
       Holds(d, Durable) =>
         Leaf(Load(d, RootPublicKey), Load(d, CredentialKey), Load(d, RootOpening)) \in leaves
  /\ \A h \in handoffs : Leaf(h.root, h.key, h.opening) \in leaves

(* Refused writes tear nothing: the two together.                          *)
MaterialIsWhole == NoMixedCredential /\ NoUncertifiedKey

(* "The sweep covers every epoch from the member's own cursor" and a       *)
(* member must "still end up holding no usable key" (discard_expired): of  *)
(* ALL epochs before current, certified or not.                            *)
DiscardLeavesNothing ==
  \A d \in Devices :
    returned[d].ok /\ returned[d].call = "discard_expired" =>
      \A e \in Epochs : e < returned[d].current => ~HoldsEpoch(d, e)
===============================================================================
