--------------------------- MODULE CredentialProofs ---------------------------
(***************************************************************************)
(* MemberCredential for any devices, any epochs and any jump between them. *)
(* Whatever write is refused, half unwound or cut off by a crash, an epoch *)
(* a member was told it certified is the cursor's or is gone: so it stays  *)
(* within the next sweep, is gone after it, and is gone after a handoff.   *)
(* And where writes are only refused, nothing on a device is torn.         *)
(*                                                                         *)
(* Every proof about a call is one about its sequence of writes: first     *)
(* what a prefix of such a sequence leaves in a slot, then what the        *)
(* sequences of the code hold, then what each call does to the invariant.  *)
(***************************************************************************)
EXTENDS MemberCredential, SequenceLemmas

-------------------------------------------------------------------------------
(* Slots and writes.                                                       *)

LEMMA SlotsApart ==
  /\ CredentialKey # RootOpening /\ CredentialKey # RootPublicKey /\ CredentialKey # InboxKey
  /\ CredentialKey # EpochCursor /\ RootOpening # RootPublicKey /\ RootOpening # InboxKey
  /\ RootOpening # EpochCursor /\ RootPublicKey # InboxKey /\ RootPublicKey # EpochCursor
  /\ InboxKey # EpochCursor
  /\ \A e : \A slot \in Durable \cup {InboxKey, EpochCursor} :
       EpochKey(e) # slot /\ EpochCert(e) # slot
  /\ \A e, f : EpochKey(e) # EpochCert(f)
  /\ \A e, f : EpochKey(e) = EpochKey(f) => e = f
  /\ \A e, f : EpochCert(e) = EpochCert(f) => e = f
BY DEF CredentialKey, RootOpening, RootPublicKey, InboxKey, EpochCursor, EpochKey, EpochCert,
  Durable

LEMMA SlotsKnown ==
  /\ CredentialKey \in Slots /\ RootOpening \in Slots /\ RootPublicKey \in Slots
  /\ InboxKey \in Slots /\ EpochCursor \in Slots
  /\ \A e \in Epochs : EpochKey(e) \in Slots /\ EpochCert(e) \in Slots
BY DEF Slots, Durable, EpochKey, EpochCert

(* A prefix of the writes leaves a slot alone or as one of them set it.    *)
LEMMA AfterCases ==
  ASSUME NEW s, NEW writes, NEW n, NEW slot \in Slots
  PROVE  \/ After(s, writes, n)[slot] = s[slot]
            /\ \A i \in 1..n : writes[i].slot # slot
         \/ \E i \in 1..n : writes[i].slot = slot
                            /\ After(s, writes, n)[slot] = writes[i].value
<1>1. CASE \E i \in 1..n : writes[i].slot = slot
  <2>1. PICK i : i = CHOOSE j \in 1..n : writes[j].slot = slot
    OBVIOUS
  <2>2. i \in 1..n /\ writes[i].slot = slot
    BY <1>1, <2>1
  <2>3. After(s, writes, n)[slot] = writes[i].value
    BY <1>1, <2>1 DEF After
  <2> QED
    BY <2>2, <2>3
<1>2. CASE ~\E i \in 1..n : writes[i].slot = slot
  BY <1>2 DEF After
<1> QED
  BY <1>1, <1>2

-------------------------------------------------------------------------------
(* How a call leaves the device.                                           *)

\* The first n writes committed, and then the slots of undone were emptied.
Reach(d, writes, n, undone) ==
  storage' = [storage EXCEPT ![d] = Emptied(After(@, writes, n), undone)]

Functional ==
  /\ DOMAIN storage = Devices /\ storage = [d \in Devices |-> storage[d]]
  /\ certified = [d \in Devices |-> certified[d]]
  /\ returned = [d \in Devices |-> returned[d]]

LEMMA EmptyingNothing ==
  ASSUME NEW s, NEW writes, NEW n
  PROVE  Emptied(After(s, writes, n), {}) = After(s, writes, n)
BY DEF Emptied, After

LEMMA CompletesAs ==
  ASSUME NEW d, NEW writes, Completes(d, writes)
  PROVE  Reach(d, writes, Len(writes), {})
BY EmptyingNothing DEF Completes, Reach

\* The two ways to stop.
Refused(d, writes, undo) ==
  /\ "refusal" \in Faults
  /\ \E n \in 0..(Len(writes) - 1) : \E undone \in Unwound(undo[n]) :
       storage' = [storage EXCEPT ![d] = Emptied(After(@, writes, n), undone)]

Killed(d, writes) ==
  /\ "crash" \in Faults
  /\ \E n \in 0..Len(writes) : storage' = [storage EXCEPT ![d] = After(@, writes, n)]

\* A stop after n writes, undone emptied.
StopsAt(d, writes, undo, n, undone) ==
  /\ Reach(d, writes, n, undone)
  /\ undone = {} \/ (n < Len(writes) /\ undone \subseteq undo[n])
  /\ Faults \subseteq {"refusal"} => n < Len(writes) /\ undone = undo[n]

(* Whatever the faults, a refusal comes before the last write and unwinds  *)
(* at most what the code unwinds there, and a crash unwinds nothing.       *)
LEMMA StopsAs ==
  ASSUME NEW d, NEW writes, NEW undo, Len(writes) \in Nat, Stops(d, writes, undo)
  PROVE  \E n \in 0..Len(writes) : \E undone : StopsAt(d, writes, undo, n, undone)
<1>1. CASE Refused(d, writes, undo)
  <2>1. PICK n \in 0..(Len(writes) - 1) : \E undone \in Unwound(undo[n]) :
               storage' = [storage EXCEPT ![d] = Emptied(After(@, writes, n), undone)]
    BY <1>1 DEF Refused
  <2>2. PICK undone \in Unwound(undo[n]) :
               storage' = [storage EXCEPT ![d] = Emptied(After(@, writes, n), undone)]
    BY <2>1
  <2>3. undone \subseteq undo[n] /\ (Faults \subseteq {"refusal"} => undone = undo[n])
    BY DEF Unwound
  <2>4. n \in 0..Len(writes) /\ n < Len(writes)
    OBVIOUS
  <2> QED
    BY <2>2, <2>3, <2>4 DEF Reach, StopsAt
<1>2. CASE Killed(d, writes)
  <2>1. "crash" \in Faults
    BY <1>2 DEF Killed
  <2>2. PICK n \in 0..Len(writes) : storage' = [storage EXCEPT ![d] = After(@, writes, n)]
    BY <1>2 DEF Killed
  <2>3. Reach(d, writes, n, {})
    BY <2>2, EmptyingNothing DEF Reach
  <2>4. ~(Faults \subseteq {"refusal"})
    BY <2>1
  <2> QED
    BY <2>3, <2>4 DEF StopsAt
<1>3. Refused(d, writes, undo) \/ Killed(d, writes)
  BY DEF Stops, Refused, Killed
<1> QED
  BY <1>1, <1>2, <1>3

LEMMA ReachedSlots ==
  ASSUME Functional, NEW d \in Devices, NEW writes, NEW n, NEW undone, Reach(d, writes, n, undone)
  PROVE  /\ \A slot \in Slots :
              storage'[d][slot] = IF slot \in undone THEN None ELSE After(storage[d], writes, n)[slot]
         /\ \A b \in Devices : b # d => storage'[b] = storage[b]
         /\ storage' = [b \in Devices |-> storage'[b]] /\ DOMAIN storage' = Devices
BY DEF Functional, Reach, Emptied

-------------------------------------------------------------------------------
(* The sequences of the code.                                              *)

(* A sweep holds the deletes of its epochs' keys and certificates, and     *)
(* each certificate's right after its key's.                               *)
Paired(W, from, current) ==
  \A i \in 1..Len(W) : \E e \in from..current - 1 :
    \/ W[i] = Delete(EpochKey(e))
    \/ /\ W[i] = Delete(EpochCert(e))
       /\ i - 1 \in 1..Len(W) /\ W[i - 1] = Delete(EpochKey(e))

Covers(W, from, current) ==
  \A e \in from..current - 1 : \E i \in 1..Len(W) :
    /\ i + 1 \in 1..Len(W)
    /\ W[i] = Delete(EpochKey(e)) /\ W[i + 1] = Delete(EpochCert(e))

LEMMA SweepShape ==
  ASSUME NEW d, NEW current \in Nat,
         Cursored(d) => Load(d, EpochCursor) \in Nat /\ Load(d, EpochCursor) <= current
  PROVE  /\ IsSequence(Sweep(d, current)) /\ Len(Sweep(d, current)) \in Nat
         /\ ~Cursored(d) => Len(Sweep(d, current)) = 0
         /\ Cursored(d) => /\ Paired(Sweep(d, current), Load(d, EpochCursor), current)
                           /\ Covers(Sweep(d, current), Load(d, EpochCursor), current)
<1>1. CASE ~Cursored(d)
  <2>1. Sweep(d, current) = << >>
    BY <1>1 DEF Sweep
  <2>2. IsSequence(<< >>) /\ Len(<< >>) = 0
    BY EmptySeq DEF IsSequence
  <2> QED
    BY <1>1, <2>1, <2>2
<1>2. CASE Cursored(d)
  <2>1. PICK from : from = Load(d, EpochCursor)
    OBVIOUS
  <2>2. from \in Nat /\ from <= current
    BY <1>2, <2>1
  <2>3. PICK m \in Nat : m = 2 * (current - from)
    BY <2>2
  <2>4. PICK W : W = [i \in 1..m |->
                        IF i % 2 = 1 THEN Delete(EpochKey(from + (i - 1) \div 2))
                                     ELSE Delete(EpochCert(from + (i - 1) \div 2))]
    OBVIOUS
  <2>5. Sweep(d, current) = W
    BY <1>2, <2>1, <2>2, <2>3, <2>4 DEF Sweep, SpanStart
  <2>6. IsSequence(W) /\ Len(W) = m
    BY <2>4, FunctionIsSequence
  <2>7. ASSUME NEW i \in 1..m
        PROVE  \E e \in from..current - 1 :
                 \/ W[i] = Delete(EpochKey(e))
                 \/ /\ W[i] = Delete(EpochCert(e))
                    /\ i - 1 \in 1..m /\ W[i - 1] = Delete(EpochKey(e))
    <3>1. from + (i - 1) \div 2 \in from..current - 1
      BY <2>2, <2>3
    <3>2. CASE i % 2 = 1
      BY <2>4, <3>1, <3>2
    <3>3. CASE i % 2 # 1
      <4>1. i - 1 \in 1..m /\ (i - 1) % 2 = 1 /\ (i - 1 - 1) \div 2 = (i - 1) \div 2
        BY <2>3, <3>3
      <4> QED
        BY <2>4, <3>1, <3>3, <4>1
    <3> QED
      BY <3>2, <3>3
  <2>8. ASSUME NEW e \in from..current - 1
        PROVE  \E i \in 1..m : /\ i + 1 \in 1..m
                               /\ W[i] = Delete(EpochKey(e)) /\ W[i + 1] = Delete(EpochCert(e))
    <3>1. PICK i : i = 2 * (e - from) + 1
      OBVIOUS
    <3>2. /\ i \in 1..m /\ i + 1 \in 1..m /\ i % 2 = 1 /\ (i + 1) % 2 # 1
          /\ from + (i - 1) \div 2 = e /\ from + (i + 1 - 1) \div 2 = e
      BY <2>2, <2>3, <3>1
    <3> QED
      BY <2>4, <3>2
  <2> QED
    BY <1>2, <2>1, <2>5, <2>6, <2>7, <2>8 DEF Paired, Covers
<1> QED
  BY <1>1, <1>2

(* What a prefix of n writes leaves of a call that begins with a sweep and *)
(* writes afterwards only to slots that no sweep empties: what is swept    *)
(* only ever disappears, the key before its certificate, and is gone when  *)
(* the sweep is over.                                                      *)
Swept(d, st, current, later, n) ==
  /\ \A slot \in Slots \ later : st[slot] = storage[d][slot] \/ st[slot] = None
  /\ \A slot \in Slots :
       /\ \A e \in Nat : e < current => slot # EpochKey(e) /\ slot # EpochCert(e)
       /\ slot \notin later \/ n <= Len(Sweep(d, current))
       => st[slot] = storage[d][slot]
  /\ \A e \in Epochs : e < current =>
       st[EpochCert(e)] = storage[d][EpochCert(e)] \/ st[EpochKey(e)] = None
  /\ n >= Len(Sweep(d, current)) /\ Cursored(d) =>
       \A e \in Load(d, EpochCursor)..current - 1 :
         st[EpochKey(e)] = None /\ st[EpochCert(e)] = None

LEMMA SweptSlots ==
  ASSUME NEW d, NEW current \in Nat, NEW later, NEW writes, NEW n \in Nat,
         Cursored(d) => Load(d, EpochCursor) \in Nat /\ Load(d, EpochCursor) <= current,
         \A i \in 1..Len(Sweep(d, current)) : writes[i] = Sweep(d, current)[i],
         \A i \in 1..n : i <= Len(Sweep(d, current)) \/ writes[i].slot \in later,
         \A e \in Nat : e < current => EpochKey(e) \notin later /\ EpochCert(e) \notin later,
         Epochs \subseteq Nat, \A e \in 0..current : e \in Epochs
  PROVE  Swept(d, After(storage[d], writes, n), current, later, n)
<1>1. PICK W : W = Sweep(d, current)
  OBVIOUS
<1>2. PICK st : st = After(storage[d], writes, n)
  OBVIOUS
<1>3. PICK from : from = Load(d, EpochCursor)
  OBVIOUS
<1>4. /\ Len(W) \in Nat /\ (~Cursored(d) => Len(W) = 0)
      /\ Cursored(d) => from \in Nat /\ Paired(W, from, current) /\ Covers(W, from, current)
  BY <1>1, <1>3, SweepShape
<1>5. ASSUME NEW i \in 1..Len(W)
      PROVE  /\ writes[i].value = None
             /\ \E e \in Nat : e < current /\ (\/ writes[i].slot = EpochKey(e)
                                               \/ writes[i].slot = EpochCert(e))
  <2>1. Cursored(d) /\ from \in Nat /\ writes[i] = W[i]
    BY <1>1, <1>4
  <2>2. PICK e \in from..current - 1 : W[i] = Delete(EpochKey(e)) \/ W[i] = Delete(EpochCert(e))
    BY <1>4, <2>1 DEF Paired
  <2>3. e \in Nat /\ e < current
    BY <2>1
  <2> QED
    BY <2>1, <2>2, <2>3 DEF Delete
\* A swept slot: the writes to it are deletes of the sweep.
<1>6. ASSUME NEW slot \in Slots \ later PROVE st[slot] = storage[d][slot] \/ st[slot] = None
  <2>1. \A i \in 1..n : writes[i].slot = slot => i \in 1..Len(W)
    BY <1>1, <1>4
  <2> QED
    BY <1>2, <1>5, <2>1, AfterCases
<1>7. ASSUME NEW slot \in Slots,
             \A e \in Nat : e < current => slot # EpochKey(e) /\ slot # EpochCert(e),
             slot \notin later \/ n <= Len(W)
      PROVE  st[slot] = storage[d][slot]
  <2>1. \A i \in 1..n : writes[i].slot # slot
    BY <1>1, <1>4, <1>5, <1>7
  <2> QED
    BY <1>2, <2>1, AfterCases
<1>8. ASSUME NEW e \in Epochs, e < current,
             NEW i \in 1..n, writes[i].slot = EpochKey(e)
      PROVE  st[EpochKey(e)] = None
  <2>1. e \in Nat /\ EpochKey(e) \in Slots /\ EpochKey(e) \notin later
    BY <1>8, SlotsKnown
  <2>2. \A j \in 1..n : writes[j].slot = EpochKey(e) => j \in 1..Len(W)
    BY <1>1, <1>4, <2>1
  <2>3. \A j \in 1..n : writes[j].slot = EpochKey(e) => writes[j].value = None
    BY <1>5, <2>2
  <2> QED
    BY <1>2, <1>8, <2>1, <2>3, AfterCases
<1>9. ASSUME NEW e \in Epochs, e < current
      PROVE  st[EpochCert(e)] = storage[d][EpochCert(e)] \/ st[EpochKey(e)] = None
  <2>1. e \in Nat /\ EpochCert(e) \in Slots /\ EpochCert(e) \notin later
    BY <1>9, SlotsKnown
  <2>2. CASE \A i \in 1..n : writes[i].slot # EpochCert(e)
    BY <1>2, <2>1, <2>2, AfterCases
  <2>3. CASE \E i \in 1..n : writes[i].slot = EpochCert(e)
    <3>1. PICK i \in 1..n : writes[i].slot = EpochCert(e)
      BY <2>3
    <3>2. i \in 1..Len(W) /\ writes[i] = W[i]
      BY <1>1, <1>4, <2>1, <3>1
    <3>3. PICK f \in from..current - 1 :
               \/ W[i] = Delete(EpochKey(f))
               \/ /\ W[i] = Delete(EpochCert(f))
                  /\ i - 1 \in 1..Len(W) /\ W[i - 1] = Delete(EpochKey(f))
      <4>1. Cursored(d)
        BY <1>4, <3>2
      <4> QED
        BY <1>4, <3>2, <4>1 DEF Paired
    <3>4. f = e /\ i - 1 \in 1..Len(W) /\ W[i - 1] = Delete(EpochKey(e))
      BY <3>1, <3>2, <3>3, SlotsApart DEF Delete
    <3>5. i - 1 \in 1..n /\ writes[i - 1].slot = EpochKey(e)
      <4>1. writes[i - 1] = W[i - 1]
        BY <1>1, <3>4
      <4> QED
        BY <3>4, <4>1 DEF Delete
    <3> QED
      BY <1>8, <1>9, <3>5
  <2> QED
    BY <2>2, <2>3
<1>10. ASSUME n >= Len(W), Cursored(d), NEW e \in from..current - 1
       PROVE  st[EpochKey(e)] = None /\ st[EpochCert(e)] = None
  <2>1. from \in Nat /\ e \in Nat /\ e < current /\ e \in Epochs
    BY <1>3, <1>10
  <2>2. PICK i \in 1..Len(W) : /\ i + 1 \in 1..Len(W)
                               /\ W[i] = Delete(EpochKey(e)) /\ W[i + 1] = Delete(EpochCert(e))
    BY <1>4, <1>10 DEF Covers
  <2>3. i \in 1..n /\ i + 1 \in 1..n /\ writes[i] = W[i] /\ writes[i + 1] = W[i + 1]
    BY <1>1, <1>4, <1>10, <2>2
  <2>4. writes[i].slot = EpochKey(e) /\ writes[i + 1].slot = EpochCert(e)
    BY <2>2, <2>3 DEF Delete
  <2>5. EpochCert(e) \in Slots /\ EpochCert(e) \notin later
    BY <2>1, SlotsKnown
  <2>6. \A j \in 1..n : writes[j].slot = EpochCert(e) => writes[j].value = None
    BY <1>1, <1>4, <1>5, <2>5
  <2>7. st[EpochCert(e)] = None
    BY <1>2, <2>3, <2>4, <2>5, <2>6, AfterCases
  <2>8. st[EpochKey(e)] = None
    BY <1>8, <2>1, <2>3, <2>4
  <2> QED
    BY <2>7, <2>8
<1> QED
  BY <1>1, <1>2, <1>3, <1>6, <1>7, <1>9, <1>10 DEF Swept

-------------------------------------------------------------------------------
(* Type correctness.                                                       *)

Held(S) == {None} \cup {Some(v) : v \in S}

Contents(slot) == Held(IF slot = EpochCursor THEN Epochs ELSE Draws)

Stores == {s \in [Slots -> Held(Epochs \cup Draws)] :
             \A slot \in Slots : s[slot] \in Contents(slot)}

Calls == {"create", "discard_expired", "roll_epoch", "authorize_migration",
          "complete_migration", "store"}

Outcomes == [call : Calls \cup {"none"}, current : Epochs, ok : BOOLEAN]

TypeOK ==
  /\ storage \in [Devices -> Stores]
  /\ successorRoot \in [Devices -> Held(Draws)]
  /\ handoffs \subseteq [key : Draws, opening : Draws, root : Draws, successor : Draws]
  /\ leaves \subseteq [root : Draws, key : Draws, opening : Draws]
  /\ certified \in [Devices -> SUBSET Epochs]
  /\ returned \in [Devices -> Outcomes]
  /\ drawn \in 0..MaxDraws

LEMMA EpochsShape ==
  /\ Epochs \subseteq Nat /\ 0 \in Epochs
  /\ \A e \in Epochs : \A f \in 0..e : f \in Epochs
BY CredentialAssumption DEF Epochs

LEMMA Typed ==
  ASSUME TypeOK
  PROVE  /\ Functional
         /\ \A d \in Devices : \A slot \in Slots : storage[d][slot] \in Contents(slot)
BY DEF TypeOK, Functional, Stores

LEMMA Loaded ==
  ASSUME TypeOK, NEW d \in Devices, NEW slot \in Slots
  PROVE  /\ storage[d][slot] # None =>
              /\ storage[d][slot] = {Load(d, slot)}
              /\ Load(d, slot) \in IF slot = EpochCursor THEN Epochs ELSE Draws
         /\ \A v : storage[d][slot] = {v} => Load(d, slot) = v
<1>1. ASSUME NEW v, storage[d][slot] = {v} PROVE Load(d, slot) = v
  BY <1>1 DEF Load
<1>2. storage[d][slot] \in Contents(slot)
  BY Typed
<1> QED
  BY <1>1, <1>2 DEF Contents, Held, Some, None

LEMMA CursorLoaded ==
  ASSUME TypeOK, NEW d \in Devices
  PROVE  /\ Cursored(d) <=> storage[d][EpochCursor] # None
         /\ Cursored(d) => /\ Load(d, EpochCursor) \in Epochs /\ Load(d, EpochCursor) \in Nat
                           /\ storage[d][EpochCursor] = {Load(d, EpochCursor)}
         /\ \A e : storage[d][EpochCursor] = {e} => Cursored(d) /\ Load(d, EpochCursor) = e
<1>1. Cursored(d) <=> storage[d][EpochCursor] # None
  BY DEF Cursored, Holds
<1> QED
  BY <1>1, Loaded, SlotsKnown, EpochsShape DEF None

\* Writes of what the slots are for.
Proper(writes) ==
  \A i \in 1..Len(writes) : writes[i].value \in Contents(writes[i].slot)

LEMMA NothingIsContents == \A slot : None \in Contents(slot)
BY DEF Contents, Held

LEMMA ReachTyped ==
  ASSUME TypeOK, NEW d \in Devices, NEW writes, NEW n \in Nat, NEW undone, Proper(writes),
         n <= Len(writes), Len(writes) \in Nat, Reach(d, writes, n, undone)
  PROVE  storage' \in [Devices -> Stores]
<1>1. PICK st : st = Emptied(After(storage[d], writes, n), undone)
  OBVIOUS
<1>2. ASSUME NEW slot \in Slots PROVE st[slot] \in Contents(slot)
  <2>1. st[slot] = None \/ st[slot] = After(storage[d], writes, n)[slot]
    BY <1>1 DEF Emptied
  <2>2. \A i \in 1..n : i \in 1..Len(writes)
    OBVIOUS
  <2>3. After(storage[d], writes, n)[slot] \in Contents(slot)
    BY <2>2, AfterCases, Typed DEF Proper
  <2> QED
    BY <2>1, <2>3, NothingIsContents
<1>3. \A slot : Contents(slot) \subseteq Held(Epochs \cup Draws)
  BY DEF Contents, Held
<1>4. st \in Stores
  <2>1. st = [slot \in Slots |-> st[slot]]
    BY <1>1 DEF Emptied
  <2>2. st \in [Slots -> Held(Epochs \cup Draws)]
    BY <1>2, <1>3, <2>1
  <2> QED
    BY <1>2, <2>2 DEF Stores
<1> QED
  BY <1>1, <1>4 DEF Reach, TypeOK

-------------------------------------------------------------------------------
(* What each call's writes do to its device, however far they get.         *)

SameSlots(d, slots) == \A slot \in slots : storage'[d][slot] = storage[d][slot]

\* Of these slots nothing but disappears.
OnlyFades(d, slots) ==
  \A slot \in slots : storage'[d][slot] = storage[d][slot] \/ storage'[d][slot] = None

\* A certificate disappears after its key.
KeyFirst(d, epochs) ==
  \A e \in epochs :
    storage'[d][EpochCert(e)] = storage[d][EpochCert(e)] \/ storage'[d][EpochKey(e)] = None

\* What is swept before current.
SweptBefore(d, current) ==
  Cursored(d) => \A e \in Load(d, EpochCursor)..current - 1 :
                   storage'[d][EpochKey(e)] = None /\ storage'[d][EpochCert(e)] = None

Identity == Durable \cup {InboxKey}

LEMMA PlausibleSpans ==
  ASSUME TypeOK, NEW d \in Devices, NEW current \in Epochs, PlausibleSpan(d, current)
  PROVE  /\ current \in Nat /\ \A e \in 0..current : e \in Epochs
         /\ Cursored(d) => /\ Load(d, EpochCursor) \in Nat /\ Load(d, EpochCursor) <= current
         /\ IsSequence(Sweep(d, current)) /\ Len(Sweep(d, current)) \in Nat
BY CursorLoaded, EpochsShape, SweepShape DEF PlausibleSpan

LEMMA SweepIsProper ==
  ASSUME TypeOK, NEW d \in Devices, NEW current \in Epochs, PlausibleSpan(d, current)
  PROVE  \A i \in 1..Len(Sweep(d, current)) : Sweep(d, current)[i].value = None
<1>1. /\ ~Cursored(d) => Len(Sweep(d, current)) = 0
      /\ Cursored(d) => Paired(Sweep(d, current), Load(d, EpochCursor), current)
  BY PlausibleSpans, SweepShape
<1>2. CASE ~Cursored(d)
  BY <1>1, <1>2
<1>3. CASE Cursored(d)
  <2> SUFFICES ASSUME NEW i \in 1..Len(Sweep(d, current))
               PROVE  Sweep(d, current)[i].value = None
    OBVIOUS
  <2>1. \E e : \/ Sweep(d, current)[i] = Delete(EpochKey(e))
               \/ Sweep(d, current)[i] = Delete(EpochCert(e))
    BY <1>1, <1>3 DEF Paired
  <2> QED
    BY <2>1 DEF Delete
<1> QED
  BY <1>2, <1>3

LEMMA DiscardReaches ==
  ASSUME TypeOK, NEW d \in Devices, NEW current \in Epochs, PlausibleSpan(d, current),
         NEW n \in Nat, n <= Len(Sweep(d, current)), Reach(d, Sweep(d, current), n, {})
  PROVE  /\ SameSlots(d, Identity \cup {EpochCursor}) /\ OnlyFades(d, Slots)
         /\ KeyFirst(d, Epochs)
         /\ n = Len(Sweep(d, current)) => SweptBefore(d, current)
<1>1. \A slot \in Slots : storage'[d][slot] = After(storage[d], Sweep(d, current), n)[slot]
  BY Typed, ReachedSlots
<1>2. Swept(d, After(storage[d], Sweep(d, current), n), current, {}, n)
  <2>1. /\ \A i \in 1..n : i <= Len(Sweep(d, current))
        /\ Epochs \subseteq Nat /\ current \in Nat
    BY EpochsShape, PlausibleSpans
  <2>2. \A e \in 0..current : e \in Epochs
    BY PlausibleSpans
  <2>3. Cursored(d) => Load(d, EpochCursor) \in Nat /\ Load(d, EpochCursor) <= current
    BY PlausibleSpans
  <2> QED
    BY <2>1, <2>2, <2>3, SweptSlots
<1>3. \A slot \in Identity \cup {EpochCursor} :
        slot \in Slots /\ \A e : slot # EpochKey(e) /\ slot # EpochCert(e)
  BY SlotsApart, SlotsKnown DEF Identity, Durable
<1>4. SameSlots(d, Identity \cup {EpochCursor})
  BY <1>1, <1>2, <1>3 DEF SameSlots, Swept
<1>5. OnlyFades(d, Slots)
  BY <1>1, <1>2 DEF OnlyFades, Swept
<1>6. ASSUME NEW e \in Epochs
      PROVE  storage'[d][EpochCert(e)] = storage[d][EpochCert(e)] \/ storage'[d][EpochKey(e)] = None
  <2>1. CASE e < current
    BY <1>1, <1>2, <2>1, SlotsKnown DEF Swept
  <2>2. CASE ~(e < current)
    <3>1. \A f \in Nat : f < current => EpochCert(e) # EpochKey(f) /\ EpochCert(e) # EpochCert(f)
      BY <2>2, SlotsApart
    <3> QED
      BY <1>1, <1>2, <3>1, SlotsKnown DEF Swept
  <2> QED
    BY <2>1, <2>2
<1>7. ASSUME n = Len(Sweep(d, current)) PROVE SweptBefore(d, current)
  <2>1. n >= Len(Sweep(d, current))
    BY <1>7
  <2>2. \A e \in Load(d, EpochCursor)..current - 1 : Cursored(d) => e \in Epochs
    BY PlausibleSpans
  <2> QED
    BY <1>1, <1>2, <2>1, <2>2, SlotsKnown DEF Swept, SweptBefore
<1> QED
  BY <1>4, <1>5, <1>6, <1>7 DEF KeyFirst

RollIs(R, W, L, current, key) ==
  /\ L \in Nat /\ Len(R) = L + 3
  /\ \A i \in 1..L : R[i] = W[i]
  /\ R[L + 1] = Store(EpochKey(current), key)
  /\ R[L + 2] = Store(EpochCert(current), key)
  /\ R[L + 3] = Store(EpochCursor, current)

LEMMA RollShape ==
  ASSUME TypeOK, NEW d \in Devices, NEW current \in Epochs, PlausibleSpan(d, current), NEW key,
         NEW L, L = Len(Sweep(d, current)), NEW R, R = RollWrites(d, current, key)
  PROVE  RollIs(R, Sweep(d, current), L, current, key)
<1>1. PICK W : W = Sweep(d, current)
  OBVIOUS
<1>2. PICK T : T = <<Store(EpochKey(current), key), Store(EpochCert(current), key),
                     Store(EpochCursor, current)>>
  OBVIOUS
<1>3. RollWrites(d, current, key) = W \o T
  BY <1>1, <1>2 DEF RollWrites
<1>4. /\ IsSequence(T) /\ Len(T) = 3
      /\ T[1] = Store(EpochKey(current), key) /\ T[2] = Store(EpochCert(current), key)
      /\ T[3] = Store(EpochCursor, current)
  <2>1. T \in Seq({T[1], T[2], T[3]})
    BY <1>2
  <2>2. IsSequence(T)
    BY <2>1, SequenceOver
  <2> QED
    BY <1>2, <2>2
<1>5. IsSequence(W) /\ L \in Nat /\ Len(W) = L
  BY <1>1, PlausibleSpans
<1>6. /\ Len(W \o T) = Len(W) + Len(T)
      /\ \A i \in 1..Len(W) : (W \o T)[i] = W[i]
      /\ \A i \in 1..Len(T) : (W \o T)[Len(W) + i] = T[i]
  <2>1. IsSequence(W) /\ IsSequence(T)
    BY <1>4, <1>5
  <2>2. Len(W \o T) = Len(W) + Len(T)
    BY <2>1, ConcatShape
  <2>3. \A i \in 1..Len(W) : (W \o T)[i] = W[i]
    BY <2>1, ConcatShape
  <2>4. \A i \in 1..Len(T) : (W \o T)[Len(W) + i] = T[i]
    BY <2>1, ConcatShape
  <2> QED
    BY <2>2, <2>3, <2>4
<1>7. /\ (W \o T)[L + 1] = T[1] /\ (W \o T)[L + 2] = T[2] /\ (W \o T)[L + 3] = T[3]
  BY <1>4, <1>5, <1>6
<1> QED
  BY <1>1, <1>3, <1>4, <1>5, <1>6, <1>7 DEF RollIs

\* The key and the certificate of current: as they were, the key deleted, or both stored.
FreshPair(d, current, key, L, n, undone) ==
  /\ n <= L /\ undone = {} => SameSlots(d, {EpochKey(current), EpochCert(current)})
  /\ undone = {EpochKey(current)} => storage'[d][EpochKey(current)] = None
  /\ n >= L + 2 /\ undone = {} =>
       storage'[d][EpochKey(current)] = {key} /\ storage'[d][EpochCert(current)] = {key}

\* Everything but that pair and the cursor: kept, or swept key first.
OthersFade(d, current) ==
  /\ SameSlots(d, Identity)
  /\ \A e \in Epochs \ {current} : OnlyFades(d, {EpochKey(e), EpochCert(e)})
  /\ KeyFirst(d, Epochs \ {current})

(* A roll: the sweep; then the key and the certificate of current; then    *)
(* the cursor, last of all.                                                *)
LEMMA RollReaches ==
  ASSUME TypeOK, NEW d \in Devices, NEW current \in Epochs, PlausibleSpan(d, current), NEW key,
         NEW L, L = Len(Sweep(d, current)), NEW n \in Nat, n <= L + 3,
         NEW undone, undone \subseteq {EpochKey(current)},
         Reach(d, RollWrites(d, current, key), n, undone)
  PROVE  /\ OthersFade(d, current)
         /\ n < L + 3 => SameSlots(d, {EpochCursor})
         /\ n = L + 3 => storage'[d][EpochCursor] = {current} /\ SweptBefore(d, current)
         /\ FreshPair(d, current, key, L, n, undone)
<1>1. PICK R : R = RollWrites(d, current, key)
  OBVIOUS
<1>2. PICK st : st = After(storage[d], R, n)
  OBVIOUS
<1>3. /\ L \in Nat /\ Len(R) = L + 3
      /\ \A i \in 1..L : R[i] = Sweep(d, current)[i]
      /\ R[L + 1] = Store(EpochKey(current), key)
      /\ R[L + 2] = Store(EpochCert(current), key)
      /\ R[L + 3] = Store(EpochCursor, current)
  <2>1. RollIs(R, Sweep(d, current), L, current, key)
    BY <1>1, RollShape
  <2> QED
    BY <2>1 DEF RollIs
<1>4. PICK later : later = {EpochKey(current), EpochCert(current), EpochCursor}
  OBVIOUS
<1>5. current \in Nat /\ Epochs \subseteq Nat
  BY EpochsShape
<1>6. \A i \in 1..n : i <= L \/ i = L + 1 \/ i = L + 2 \/ i = L + 3
  BY <1>3
<1>7. Swept(d, st, current, later, n)
  <2>1. \A i \in 1..n : i <= L \/ R[i].slot \in later
    BY <1>3, <1>4, <1>6 DEF Store
  <2>2. \A e \in Nat : e < current => EpochKey(e) \notin later /\ EpochCert(e) \notin later
    <3>1. \A e \in Nat : e < current => e # current
      BY <1>5
    <3>2. \A e \in Nat : e # current => EpochKey(e) \notin later /\ EpochCert(e) \notin later
      BY <1>4, SlotsApart DEF Durable
    <3> QED
      BY <3>1, <3>2
  <2>3. \A e \in 0..current : e \in Epochs
    BY PlausibleSpans
  <2>4. Cursored(d) => Load(d, EpochCursor) \in Nat /\ Load(d, EpochCursor) <= current
    BY PlausibleSpans
  <2> QED
    BY <1>2, <1>3, <1>5, <2>1, <2>2, <2>3, <2>4, SweptSlots
<1>8. /\ EpochKey(current) \in Slots /\ EpochCert(current) \in Slots /\ EpochCursor \in Slots
      /\ EpochKey(current) # EpochCert(current) /\ EpochKey(current) # EpochCursor
      /\ EpochCert(current) # EpochCursor
  BY SlotsApart, SlotsKnown
\* What the sweep deletes is none of the last three.
<1>9. \A i \in 1..L : \E e \in Nat : /\ e < current
                                     /\ R[i].slot = EpochKey(e) \/ R[i].slot = EpochCert(e)
  <2>1. /\ ~Cursored(d) => L = 0
        /\ Cursored(d) => Load(d, EpochCursor) \in Nat
                          /\ Paired(Sweep(d, current), Load(d, EpochCursor), current)
    BY PlausibleSpans, SweepShape
  <2> SUFFICES ASSUME NEW i \in 1..L
               PROVE  \E e \in Nat : /\ e < current
                                     /\ R[i].slot = EpochKey(e) \/ R[i].slot = EpochCert(e)
    OBVIOUS
  <2>2. Cursored(d)
    BY <1>3, <2>1
  <2>3. PICK e \in Load(d, EpochCursor)..current - 1 :
               \/ Sweep(d, current)[i] = Delete(EpochKey(e))
               \/ Sweep(d, current)[i] = Delete(EpochCert(e))
    BY <2>1, <2>2 DEF Paired
  <2>4. e \in Nat /\ e < current /\ R[i] = Sweep(d, current)[i]
    BY <1>3, <1>5, <2>1, <2>2
  <2> QED
    BY <2>3, <2>4 DEF Delete
<1>10. \A i \in 1..L : R[i].slot # EpochKey(current) /\ R[i].slot # EpochCert(current)
                       /\ R[i].slot # EpochCursor
  <2> SUFFICES ASSUME NEW i \in 1..L
               PROVE  R[i].slot # EpochKey(current) /\ R[i].slot # EpochCert(current)
                      /\ R[i].slot # EpochCursor
    OBVIOUS
  <2>1. PICK e \in Nat : e < current /\ (R[i].slot = EpochKey(e) \/ R[i].slot = EpochCert(e))
    BY <1>9
  <2>2. e # current
    BY <1>5, <2>1
  <2> QED
    BY <2>1, <2>2, SlotsApart
<1>11. /\ n < L + 3 => st[EpochCursor] = storage[d][EpochCursor]
       /\ n = L + 3 => st[EpochCursor] = {current}
  <2>1. \A i \in 1..n : R[i].slot = EpochCursor => i = L + 3
    BY <1>3, <1>6, <1>8, <1>10 DEF Store
  <2>2. R[L + 3].slot = EpochCursor /\ R[L + 3].value = {current}
    BY <1>3 DEF Store, Some
  <2>3. n = L + 3 => L + 3 \in 1..n
    BY <1>3
  <2> QED
    BY <1>2, <1>3, <1>8, <2>1, <2>2, <2>3, AfterCases
<1>12. n >= L + 2 => st[EpochKey(current)] = {key} /\ st[EpochCert(current)] = {key}
  <2>1. \A i \in 1..n : /\ R[i].slot = EpochKey(current) => i = L + 1
                        /\ R[i].slot = EpochCert(current) => i = L + 2
    BY <1>3, <1>6, <1>8, <1>10 DEF Store
  <2>2. /\ R[L + 1].slot = EpochKey(current) /\ R[L + 1].value = {key}
        /\ R[L + 2].slot = EpochCert(current) /\ R[L + 2].value = {key}
    BY <1>3 DEF Store, Some
  <2>3. n >= L + 2 => L + 1 \in 1..n /\ L + 2 \in 1..n
    BY <1>3
  <2> QED
    BY <1>2, <1>8, <2>1, <2>2, <2>3, AfterCases
<1>13. \A slot \in Slots : storage'[d][slot] = IF slot \in undone THEN None ELSE st[slot]
  BY <1>1, <1>2, Typed, ReachedSlots
<1>14. SameSlots(d, Identity)
  <2>1. \A slot \in Identity :
          /\ slot \in Slots /\ slot \notin later /\ slot # EpochKey(current)
          /\ \A e : slot # EpochKey(e) /\ slot # EpochCert(e)
    BY <1>4, SlotsApart, SlotsKnown DEF Identity, Durable
  <2> QED
    BY <1>7, <1>13, <2>1 DEF SameSlots, Swept
<1>15. ASSUME NEW e \in Epochs \ {current}
       PROVE  /\ EpochKey(e) \in Slots \ later /\ EpochCert(e) \in Slots \ later
              /\ storage'[d][EpochKey(e)] = st[EpochKey(e)]
              /\ storage'[d][EpochCert(e)] = st[EpochCert(e)]
  <2>1. EpochKey(e) # EpochKey(current) /\ EpochCert(e) # EpochCert(current)
        /\ EpochKey(e) # EpochCert(current) /\ EpochCert(e) # EpochKey(current)
        /\ EpochKey(e) # EpochCursor /\ EpochCert(e) # EpochCursor
    BY SlotsApart
  <2> QED
    BY <1>4, <1>13, <2>1, SlotsKnown
<1>16. ASSUME NEW e \in Epochs \ {current}
       PROVE  /\ OnlyFades(d, {EpochKey(e), EpochCert(e)})
              /\ \/ storage'[d][EpochCert(e)] = storage[d][EpochCert(e)]
                 \/ storage'[d][EpochKey(e)] = None
  <2>1. OnlyFades(d, {EpochKey(e), EpochCert(e)})
    BY <1>7, <1>15 DEF OnlyFades, Swept
  <2>2. CASE e < current
    BY <1>7, <1>15, <2>1, <2>2 DEF Swept
  <2>3. CASE ~(e < current)
    <3>1. \A f \in Nat : f < current => EpochCert(e) # EpochKey(f) /\ EpochCert(e) # EpochCert(f)
      BY <2>3, SlotsApart
    <3> QED
      BY <1>7, <1>15, <2>1, <3>1 DEF Swept
  <2> QED
    BY <2>1, <2>2, <2>3
<1>17. n = L + 3 => SweptBefore(d, current)
  <2>1. \A e \in Load(d, EpochCursor)..current - 1 : Cursored(d) => e \in Epochs \ {current}
    BY <1>5, PlausibleSpans
  <2>2. n = L + 3 => n >= L
    BY <1>3
  <2> QED
    BY <1>7, <1>15, <2>1, <2>2 DEF SweptBefore, Swept
<1>18. n <= L /\ undone = {} => SameSlots(d, {EpochKey(current), EpochCert(current)})
  <2>1. \A e \in Nat : e < current => /\ EpochKey(current) # EpochKey(e)
                                      /\ EpochKey(current) # EpochCert(e)
                                      /\ EpochCert(current) # EpochKey(e)
                                      /\ EpochCert(current) # EpochCert(e)
    BY <1>5, SlotsApart
  <2> QED
    BY <1>7, <1>8, <1>13, <2>1 DEF SameSlots, Swept
<1>19. SameSlots(d, {EpochCursor}) <=> st[EpochCursor] = storage[d][EpochCursor]
  BY <1>8, <1>13 DEF SameSlots
<1>20. storage'[d][EpochCursor] = st[EpochCursor]
  BY <1>8, <1>13
<1>21. undone = {EpochKey(current)} => storage'[d][EpochKey(current)] = None
  BY <1>8, <1>13
<1>22. n >= L + 2 /\ undone = {} =>
         storage'[d][EpochKey(current)] = {key} /\ storage'[d][EpochCert(current)] = {key}
  BY <1>8, <1>12, <1>13
<1>23. FreshPair(d, current, key, L, n, undone)
  BY <1>18, <1>21, <1>22 DEF FreshPair
<1>24. OthersFade(d, current)
  BY <1>14, <1>16 DEF KeyFirst, OthersFade
<1> QED
  BY <1>11, <1>17, <1>19, <1>20, <1>23, <1>24

LEMMA DestroyShape ==
  ASSUME TypeOK, NEW d \in Devices, NEW W, W = DestroyWrites(d),
         NEW c, c = Load(d, EpochCursor)
  PROVE  /\ Cursored(d) => /\ c \in Epochs /\ Len(W) = 4
                           /\ W[1] = Delete(InboxKey) /\ W[2] = Delete(EpochKey(c))
                           /\ W[3] = Delete(EpochCert(c)) /\ W[4] = Delete(EpochCursor)
         /\ ~Cursored(d) => /\ Len(W) = 2
                            /\ W[1] = Delete(InboxKey) /\ W[2] = Delete(EpochCursor)
<1>1. PICK H : H = <<Delete(InboxKey)>>
  OBVIOUS
<1>2. IsSequence(H) /\ Len(H) = 1 /\ H[1] = Delete(InboxKey)
  <2>1. H \in Seq({Delete(InboxKey)})
    BY <1>1
  <2>2. IsSequence(H)
    BY <2>1, SequenceOver
  <2> QED
    BY <1>1, <2>2
<1>3. CASE Cursored(d)
  <2>1. c \in Epochs /\ c \in Nat /\ PlausibleSpan(d, c)
    BY <1>3, CursorLoaded, CredentialAssumption DEF PlausibleSpan
  <2>2. PICK S : S = Sweep(d, c)
    OBVIOUS
  <2>3. IsSequence(S) /\ Len(S) = 0
    <3>1. IsSequence(S) /\ Len(S) \in Nat /\ Paired(S, c, c)
      BY <1>3, <2>1, <2>2, SweepShape, PlausibleSpans
    <3>2. \A i \in 1..Len(S) : \E e \in c..c - 1 : TRUE
      BY <3>1 DEF Paired
    <3>3. \A e \in c..c - 1 : FALSE
      BY <2>1
    <3> QED
      BY <3>1, <3>2, <3>3
  <2>4. PICK T : T = <<Delete(EpochKey(c)), Delete(EpochCert(c)), Delete(EpochCursor)>>
    OBVIOUS
  <2>5. IsSequence(T) /\ Len(T) = 3 /\ T[1] = Delete(EpochKey(c))
        /\ T[2] = Delete(EpochCert(c)) /\ T[3] = Delete(EpochCursor)
    <3>1. T \in Seq({T[1], T[2], T[3]})
      BY <2>4
    <3>2. IsSequence(T)
      BY <3>1, SequenceOver
    <3> QED
      BY <2>4, <3>2
  <2>6. W = H \o (S \o T)
    BY <1>1, <1>3, <2>2, <2>4 DEF DestroyWrites
  <2>7. PICK U : U = S \o T
    OBVIOUS
  <2>8. IsSequence(U) /\ Len(U) = 3
    BY <2>3, <2>5, <2>7, ConcatShape
  <2>9. \A i \in 1..Len(T) : (S \o T)[Len(S) + i] = T[i]
    BY <2>3, <2>5, ConcatShape
  <2>10. U[1] = T[1] /\ U[2] = T[2] /\ U[3] = T[3]
    BY <2>3, <2>5, <2>7, <2>9
  <2>11. Len(H \o U) = Len(H) + Len(U)
    BY <1>2, <2>8, ConcatShape
  <2>12. \A i \in 1..Len(H) : (H \o U)[i] = H[i]
    BY <1>2, <2>8, ConcatShape
  <2>13. \A i \in 1..Len(U) : (H \o U)[Len(H) + i] = U[i]
    <3>1. IsSequence(H) /\ IsSequence(U)
      BY <1>2, <2>8
    <3> QED
      BY <3>1, ConcatShape
  <2>14. (H \o U)[1] = H[1] /\ (H \o U)[2] = U[1] /\ (H \o U)[3] = U[2] /\ (H \o U)[4] = U[3]
    <3>1. 1 \in 1..Len(H) /\ 1 \in 1..Len(U) /\ 2 \in 1..Len(U) /\ 3 \in 1..Len(U)
      BY <1>2, <2>8
    <3>2. /\ (H \o U)[1] = H[1] /\ (H \o U)[Len(H) + 1] = U[1]
          /\ (H \o U)[Len(H) + 2] = U[2] /\ (H \o U)[Len(H) + 3] = U[3]
      BY <2>12, <2>13, <3>1
    <3>3. Len(H) + 1 = 2 /\ Len(H) + 2 = 3 /\ Len(H) + 3 = 4
      BY <1>2
    <3> QED
      BY <3>2, <3>3
  <2> QED
    BY <1>2, <1>3, <2>1, <2>5, <2>6, <2>7, <2>8, <2>10, <2>11, <2>14
<1>4. CASE ~Cursored(d)
  <2>1. PICK T : T = <<ReadAbsent(EpochCursor)>>
    OBVIOUS
  <2>2. IsSequence(T) /\ Len(T) = 1 /\ T[1] = Delete(EpochCursor)
    <3>1. T \in Seq({ReadAbsent(EpochCursor)})
      BY <2>1
    <3>2. IsSequence(T)
      BY <3>1, SequenceOver
    <3> QED
      BY <2>1, <3>2 DEF ReadAbsent
  <2>3. W = H \o T
    BY <1>1, <1>4, <2>1 DEF DestroyWrites
  <2>4. Len(H \o T) = Len(H) + Len(T)
    BY <1>2, <2>2, ConcatShape
  <2>5. \A i \in 1..Len(H) : (H \o T)[i] = H[i]
    BY <1>2, <2>2, ConcatShape
  <2>6. \A i \in 1..Len(T) : (H \o T)[Len(H) + i] = T[i]
    <3>1. IsSequence(H) /\ IsSequence(T)
      BY <1>2, <2>2
    <3> QED
      BY <3>1, ConcatShape
  <2> QED
    BY <1>2, <1>4, <2>2, <2>3, <2>4, <2>5, <2>6
<1> QED
  BY <1>3, <1>4

(* A handoff's deletions: the inbox secret first, the cursor last, and     *)
(* before it the key and the certificate it names.                         *)
LEMMA DestroyReaches ==
  ASSUME TypeOK, NEW d \in Devices, NEW n \in Nat, n <= Len(DestroyWrites(d)),
         Reach(d, DestroyWrites(d), n, {})
  PROVE  /\ Len(DestroyWrites(d)) \in Nat
         /\ OnlyFades(d, Slots) /\ SameSlots(d, Durable) /\ KeyFirst(d, Epochs)
         /\ Cursored(d) /\ storage'[d][EpochCursor] # storage[d][EpochCursor] =>
              /\ storage'[d][EpochKey(Load(d, EpochCursor))] = None
              /\ storage'[d][EpochCert(Load(d, EpochCursor))] = None
         /\ n = Len(DestroyWrites(d)) =>
              storage'[d][InboxKey] = None /\ storage'[d][EpochCursor] = None
<1>1. PICK W : W = DestroyWrites(d)
  OBVIOUS
<1>2. PICK c : c = Load(d, EpochCursor)
  OBVIOUS
<1>3. PICK st : st = After(storage[d], W, n)
  OBVIOUS
<1>4. /\ Cursored(d) => /\ c \in Epochs /\ Len(W) = 4
                        /\ W[1] = Delete(InboxKey) /\ W[2] = Delete(EpochKey(c))
                        /\ W[3] = Delete(EpochCert(c)) /\ W[4] = Delete(EpochCursor)
      /\ ~Cursored(d) => /\ Len(W) = 2
                         /\ W[1] = Delete(InboxKey) /\ W[2] = Delete(EpochCursor)
  BY <1>1, <1>2, DestroyShape
<1>5. \A slot \in Slots : storage'[d][slot] = st[slot]
  BY <1>1, <1>3, Typed, ReachedSlots
<1>6. /\ Len(W) \in Nat /\ n <= Len(W)
      /\ (Cursored(d) => Len(W) = 4) /\ (~Cursored(d) => Len(W) = 2)
  BY <1>1, <1>4
\* The writes the call got to.
<1>w. ASSUME NEW i \in 1..n
      PROVE  \/ Cursored(d) /\ i \in {1, 2, 3, 4}
             \/ ~Cursored(d) /\ i \in {1, 2}
  <2>1. CASE Cursored(d)
    <3>1. n <= 4
      BY <1>6, <2>1
    <3> QED
      BY <2>1, <3>1
  <2>2. CASE ~Cursored(d)
    <3>1. n <= 2
      BY <1>6, <2>2
    <3> QED
      BY <2>2, <3>1
  <2> QED
    BY <2>1, <2>2
<1>s. /\ Cursored(d) => /\ c \in Epochs
                        /\ W[1].slot = InboxKey /\ W[2].slot = EpochKey(c)
                        /\ W[3].slot = EpochCert(c) /\ W[4].slot = EpochCursor
      /\ ~Cursored(d) => W[1].slot = InboxKey /\ W[2].slot = EpochCursor
  BY <1>4 DEF Delete
<1>7. \A i \in 1..n : W[i].value = None
  BY <1>4, <1>w DEF Delete
<1>8. OnlyFades(d, Slots)
  BY <1>3, <1>5, <1>7, AfterCases DEF OnlyFades
<1>9. \A slot \in Slots : (\E i \in 1..n : W[i].slot = slot) => st[slot] = None
  BY <1>3, <1>7, AfterCases
<1>10. \A slot \in Slots : (\A i \in 1..n : W[i].slot # slot) => st[slot] = storage[d][slot]
  BY <1>3, AfterCases
<1>11. SameSlots(d, Durable)
  <2>1. \A slot \in Durable : slot \in Slots /\ \A i \in 1..n : W[i].slot # slot
    BY <1>w, <1>s, SlotsApart, SlotsKnown DEF Durable
  <2> QED
    BY <1>5, <1>10, <2>1 DEF SameSlots
<1>12. KeyFirst(d, Epochs)
  <2> SUFFICES ASSUME NEW e \in Epochs, st[EpochCert(e)] # storage[d][EpochCert(e)]
               PROVE  st[EpochKey(e)] = None
    BY <1>5, SlotsKnown DEF KeyFirst
  <2>1. PICK i \in 1..n : W[i].slot = EpochCert(e)
    BY <1>10, SlotsKnown
  <2>2. Cursored(d) /\ i = 3 /\ c = e
    <3>1. W[i].slot # InboxKey /\ W[i].slot # EpochCursor /\ \A f : W[i].slot # EpochKey(f)
      BY <2>1, SlotsApart
    <3> QED
      BY <1>w, <1>s, <2>1, <3>1, SlotsApart
  <2>3. 2 \in 1..n /\ W[2].slot = EpochKey(e)
    BY <1>4, <1>6, <2>2 DEF Delete
  <2> QED
    BY <1>9, <2>3, SlotsKnown
<1>13. ASSUME Cursored(d), storage'[d][EpochCursor] # storage[d][EpochCursor]
       PROVE  storage'[d][EpochKey(c)] = None /\ storage'[d][EpochCert(c)] = None
  <2>1. PICK i \in 1..n : W[i].slot = EpochCursor
    BY <1>5, <1>10, <1>13, SlotsKnown
  <2>2. i = 4
    <3>1. W[i].slot # InboxKey /\ \A f : W[i].slot # EpochKey(f) /\ W[i].slot # EpochCert(f)
      BY <2>1, SlotsApart
    <3> QED
      BY <1>w, <1>s, <1>13, <3>1
  <2>3. 2 \in 1..n /\ 3 \in 1..n /\ W[2].slot = EpochKey(c) /\ W[3].slot = EpochCert(c)
    BY <1>4, <1>6, <1>13, <2>2 DEF Delete
  <2> QED
    BY <1>4, <1>5, <1>9, <1>13, <2>3, SlotsKnown
<1>14. ASSUME n = Len(W) PROVE storage'[d][InboxKey] = None /\ storage'[d][EpochCursor] = None
  <2>1. /\ \E i \in 1..n : W[i].slot = InboxKey
        /\ \E i \in 1..n : W[i].slot = EpochCursor
    <3>1. CASE Cursored(d)
      <4>1. n = 4
        BY <1>6, <1>14, <3>1
      <4>2. 1 \in 1..n /\ 4 \in 1..n
        BY <4>1
      <4> QED
        BY <1>s, <3>1, <4>2
    <3>2. CASE ~Cursored(d)
      <4>1. n = 2
        BY <1>6, <1>14, <3>2
      <4>2. 1 \in 1..n /\ 2 \in 1..n
        BY <4>1
      <4> QED
        BY <1>s, <3>2, <4>2
    <3> QED
      BY <3>1, <3>2
  <2> QED
    BY <1>5, <1>9, <2>1, SlotsKnown
<1> QED
  BY <1>1, <1>2, <1>6, <1>8, <1>11, <1>12, <1>13, <1>14

(* Creation and completion leave every epoch and the cursor alone.         *)
LEMMA MaterialReaches ==
  ASSUME TypeOK, NEW d \in Devices, NEW key, NEW opening, NEW root, NEW inbox,
         NEW n \in 0..4, NEW undone, undone \subseteq Durable,
         Reach(d, Material(key, opening, root, inbox), n, undone)
  PROVE  /\ SameSlots(d, {EpochCursor})
         /\ \A e \in Epochs : SameSlots(d, {EpochKey(e), EpochCert(e)})
         /\ n = 4 /\ undone = {} =>
              /\ storage'[d][CredentialKey] = {key} /\ storage'[d][RootOpening] = {opening}
              /\ storage'[d][RootPublicKey] = {root}
         /\ n = 0 /\ undone = {} => SameSlots(d, Durable)
         /\ CredentialKey \in undone => storage'[d][CredentialKey] = None
<1>1. PICK W : W = Material(key, opening, root, inbox)
  OBVIOUS
<1>2. /\ W[1] = Store(CredentialKey, key) /\ W[2] = Store(RootOpening, opening)
      /\ W[3] = Store(RootPublicKey, root) /\ W[4] = Store(InboxKey, inbox)
  BY <1>1 DEF Material
<1>3. PICK st : st = After(storage[d], W, n)
  OBVIOUS
<1>4. \A slot \in Slots : storage'[d][slot] = IF slot \in undone THEN None ELSE st[slot]
  BY <1>1, <1>3, Typed, ReachedSlots
<1>5. \A i \in 1..n : i = 1 \/ i = 2 \/ i = 3 \/ i = 4
  OBVIOUS
<1>6. ASSUME NEW slot \in Slots, slot \notin Identity
      PROVE  storage'[d][slot] = storage[d][slot]
  <2>1. \A i \in 1..n : W[i].slot # slot
    BY <1>2, <1>5, <1>6 DEF Identity, Durable, Store
  <2> QED
    BY <1>3, <1>4, <1>6, <2>1, AfterCases DEF Identity
<1>7. EpochCursor \notin Identity /\ \A e : EpochKey(e) \notin Identity /\ EpochCert(e) \notin Identity
  BY SlotsApart DEF Identity, Durable
<1>8. /\ SameSlots(d, {EpochCursor})
      /\ \A e \in Epochs : SameSlots(d, {EpochKey(e), EpochCert(e)})
  BY <1>6, <1>7, SlotsKnown DEF SameSlots
<1>9. ASSUME n = 4, undone = {}
      PROVE  /\ storage'[d][CredentialKey] = {key} /\ storage'[d][RootOpening] = {opening}
             /\ storage'[d][RootPublicKey] = {root}
  <2>1. \A i \in 1..n : /\ W[i].slot = CredentialKey => i = 1
                        /\ W[i].slot = RootOpening => i = 2
                        /\ W[i].slot = RootPublicKey => i = 3
    BY <1>2, <1>5, SlotsApart DEF Store
  <2>2. /\ W[1].slot = CredentialKey /\ W[1].value = {key}
        /\ W[2].slot = RootOpening /\ W[2].value = {opening}
        /\ W[3].slot = RootPublicKey /\ W[3].value = {root}
    BY <1>2 DEF Store, Some
  <2>3. 1 \in 1..n /\ 2 \in 1..n /\ 3 \in 1..n
    BY <1>9
  <2>4. st[CredentialKey] = {key} /\ st[RootOpening] = {opening} /\ st[RootPublicKey] = {root}
    BY <1>3, <2>1, <2>2, <2>3, AfterCases, SlotsKnown
  <2> QED
    BY <1>4, <1>9, <2>4, SlotsKnown
<1>10. ASSUME n = 0, undone = {} PROVE SameSlots(d, Durable)
  <2>1. \A slot \in Slots : st[slot] = storage[d][slot]
    BY <1>3, <1>10, AfterCases
  <2> QED
    BY <1>4, <1>10, <2>1, SlotsKnown DEF SameSlots, Durable
<1>11. CredentialKey \in undone => storage'[d][CredentialKey] = None
  BY <1>4, SlotsKnown
<1> QED
  BY <1>8, <1>9, <1>10, <1>11

-------------------------------------------------------------------------------
(* The inductive invariant: what a device still holds of an epoch it was   *)
(* told it certified is at its cursor, so that one sweep, or one handoff,  *)
(* reaches all of it.  A later cursor has swept what was before it, and    *)
(* none is earlier, for no call rolls back.                                *)

CertifiedIsCursor ==
  \A d \in Devices : \A e \in certified[d] :
    HoldsEpoch(d, e) => storage[d][EpochCursor] = {e}

CredentialInv == TypeOK /\ CertifiedIsCursor /\ ForwardSecrecy /\ HandedOffIsSilent

\* What the invariant says of one device.
CursorOf(d) == \A e \in certified[d] : HoldsEpoch(d, e) => storage[d][EpochCursor] = {e}

SecrecyOf(d) ==
  returned[d].ok /\ returned[d].call \in {"discard_expired", "roll_epoch"} =>
    \A e \in certified[d] : e < returned[d].current => ~HoldsEpoch(d, e)

SilenceOf(d) ==
  returned[d].ok /\ returned[d].call = "authorize_migration" =>
    /\ ~Holds(d, {InboxKey}) /\ ~Cursored(d)
    /\ \A e \in certified[d] : ~HoldsEpoch(d, e)

(* A call changes nothing of any device but its own.                       *)
LEMMA OneDevice ==
  ASSUME CredentialInv, NEW d \in Devices,
         \A b \in Devices : b # d => UNCHANGED <<storage[b], certified[b], returned[b]>>,
         CursorOf(d)', SecrecyOf(d)', SilenceOf(d)'
  PROVE  CertifiedIsCursor' /\ ForwardSecrecy' /\ HandedOffIsSilent'
<1>1. ASSUME NEW b \in Devices, b # d PROVE CursorOf(b)' /\ SecrecyOf(b)' /\ SilenceOf(b)'
  <2>1. UNCHANGED <<storage[b], certified[b], returned[b]>>
    BY <1>1
  <2>2. CursorOf(b) /\ SecrecyOf(b) /\ SilenceOf(b)
    BY DEF CredentialInv, CertifiedIsCursor, ForwardSecrecy, HandedOffIsSilent, CursorOf,
      SecrecyOf, SilenceOf
  <2> QED
    BY <2>1, <2>2 DEF CursorOf, SecrecyOf, SilenceOf, HoldsEpoch, Holds, Cursored
<1>2. \A b \in Devices : CursorOf(b)' /\ SecrecyOf(b)' /\ SilenceOf(b)'
  BY <1>1
<1> QED
  BY <1>2 DEF CertifiedIsCursor, ForwardSecrecy, HandedOffIsSilent, CursorOf, SecrecyOf,
    SilenceOf

\* What an outcome that is neither a sweep nor a handoff owes.
LEMMA NothingPromised ==
  ASSUME NEW d, \/ returned'[d].ok = FALSE
                \/ returned'[d].call \in {"create", "complete_migration", "store"}
  PROVE  SecrecyOf(d)' /\ SilenceOf(d)'
BY DEF SecrecyOf, SilenceOf

LEMMA OutcomesKnown ==
  /\ Failed \in Outcomes
  /\ \A e \in Epochs : \A call \in Calls : Ok(call, e) \in Outcomes
BY EpochsShape DEF Ok, Failed, Outcomes

LEMMA OutcomesTyped ==
  ASSUME TypeOK, NEW d \in Devices, NEW outcome, Returns(d, outcome),
         outcome = Failed
           \/ \E e \in Epochs : \E call \in Calls : outcome = Ok(call, e)
  PROVE  /\ returned' \in [Devices -> Outcomes] /\ returned'[d] = outcome
         /\ \A b \in Devices : b # d => returned'[b] = returned[b]
<1>1. Failed \in Outcomes
  BY OutcomesKnown
<1>2. \A e \in Epochs : \A call \in Calls : Ok(call, e) \in Outcomes
  BY OutcomesKnown
<1>3. outcome \in Outcomes
  BY <1>1, <1>2
<1> QED
  BY <1>3 DEF Returns, TypeOK

LEMMA CredentialInit == Init => CredentialInv
<1> SUFFICES ASSUME Init PROVE CredentialInv
  OBVIOUS
<1>1. TypeOK
  <2>1. [slot \in Slots |-> None] \in Stores
    BY NothingIsContents DEF Stores, Held
  <2>2. Failed \in Outcomes
    BY OutcomesKnown
  <2> QED
    BY <2>1, <2>2, CredentialAssumption DEF Init, TypeOK, Held
<1>2. CertifiedIsCursor /\ ForwardSecrecy /\ HandedOffIsSilent
  BY DEF Init, CertifiedIsCursor, ForwardSecrecy, HandedOffIsSilent, Failed
<1> QED
  BY <1>1, <1>2 DEF CredentialInv

(* Calls that leave epochs and the cursor alone owe nothing new.           *)
LEMMA EpochsAlone ==
  ASSUME CredentialInv, NEW d \in Devices, UNCHANGED certified,
         SameSlots(d, {EpochCursor}), \A e \in Epochs : SameSlots(d, {EpochKey(e), EpochCert(e)})
  PROVE  CursorOf(d)'
<1>1. \A e \in certified[d] : e \in Epochs
  BY DEF CredentialInv, TypeOK
<1> QED
  BY <1>1 DEF CredentialInv, CertifiedIsCursor, CursorOf, HoldsEpoch, SameSlots

LEMMA MaterialProper ==
  ASSUME NEW key \in Draws, NEW opening \in Draws, NEW root \in Draws, NEW inbox \in Draws
  PROVE  /\ Proper(Material(key, opening, root, inbox))
         /\ Len(Material(key, opening, root, inbox)) = 4
         /\ \A n \in 0..3 : MaterialUndo[n] \subseteq Durable
         /\ \A n \in 1..3 : CredentialKey \in MaterialUndo[n]
         /\ MaterialUndo[0] = {}
<1>1. PICK W : W = Material(key, opening, root, inbox)
  OBVIOUS
<1>2. /\ Len(W) = 4
      /\ W[1] = Store(CredentialKey, key) /\ W[2] = Store(RootOpening, opening)
      /\ W[3] = Store(RootPublicKey, root) /\ W[4] = Store(InboxKey, inbox)
  BY <1>1 DEF Material
<1>3. \A i \in 1..Len(W) : i = 1 \/ i = 2 \/ i = 3 \/ i = 4
  BY <1>2
<1>4. \A v \in Draws : \A slot : slot # EpochCursor => Some(v) \in Contents(slot)
  BY DEF Contents, Held
<1>5. Proper(W)
  BY <1>2, <1>3, <1>4, SlotsApart DEF Proper, Store
<1>6. \A n \in 0..3 : MaterialUndo[n] \subseteq Durable
  BY DEF MaterialUndo, Durable
<1>7. \A n \in 1..3 : CredentialKey \in MaterialUndo[n]
  <2> SUFFICES ASSUME NEW n \in 1..3 PROVE CredentialKey \in MaterialUndo[n]
    OBVIOUS
  <2>1. 1 \in 1..n /\ <<CredentialKey, RootOpening, RootPublicKey>>[1] = CredentialKey
    OBVIOUS
  <2> QED
    BY <2>1 DEF MaterialUndo
<1>8. MaterialUndo[0] = {}
  BY DEF MaterialUndo
<1> QED
  BY <1>1, <1>2, <1>5, <1>6, <1>7, <1>8

(* Both calls that store a credential's material.                          *)
LEMMA MaterialStep ==
  ASSUME CredentialInv, NEW d \in Devices,
         NEW key \in Draws, NEW opening \in Draws, NEW root \in Draws, NEW inbox \in Draws,
         NEW call \in {"create", "complete_migration"},
         \/ /\ Completes(d, Material(key, opening, root, inbox))
            /\ Returns(d, Ok(call, 0))
         \/ /\ Stops(d, Material(key, opening, root, inbox), MaterialUndo)
            /\ Returns(d, Failed),
         UNCHANGED certified
  PROVE  /\ storage' \in [Devices -> Stores] /\ returned' \in [Devices -> Outcomes]
         /\ CertifiedIsCursor' /\ ForwardSecrecy' /\ HandedOffIsSilent'
<1>1. PICK W : W = Material(key, opening, root, inbox)
  OBVIOUS
<1>2. TypeOK /\ Proper(W) /\ Len(W) = 4 /\ \A n \in 0..3 : MaterialUndo[n] \subseteq Durable
  BY <1>1, MaterialProper DEF CredentialInv
<1>3. \E n \in 0..4 : \E undone \in SUBSET Durable : Reach(d, W, n, undone)
  <2>1. CASE Completes(d, W)
    <3>1. Reach(d, W, Len(W), {})
      BY <2>1, CompletesAs
    <3>2. 4 \in 0..4 /\ {} \in SUBSET Durable /\ Len(W) = 4
      BY <1>2
    <3> QED
      BY <3>1, <3>2
  <2>2. CASE Stops(d, W, MaterialUndo)
    <3>0. Len(W) \in Nat
      BY <1>2
    <3>n. PICK n \in 0..Len(W) : \E undone : StopsAt(d, W, MaterialUndo, n, undone)
      BY <2>2, <3>0, StopsAs
    <3>u. PICK undone : StopsAt(d, W, MaterialUndo, n, undone)
      BY <3>n
    <3>1. /\ Reach(d, W, n, undone)
          /\ undone = {} \/ (n < Len(W) /\ undone \subseteq MaterialUndo[n])
      BY <3>u DEF StopsAt
    <3>2. n < Len(W) => n \in 0..3
      BY <1>2
    <3>3. undone \in SUBSET Durable
      BY <1>2, <3>1, <3>2
    <3> QED
      BY <1>2, <3>1, <3>3
  <2> QED
    BY <1>1, <2>1, <2>2
<1>4. PICK n \in 0..4, undone \in SUBSET Durable : Reach(d, W, n, undone)
  BY <1>3
<1>5. /\ storage' \in [Devices -> Stores]
      /\ \A b \in Devices : b # d => storage'[b] = storage[b]
  <2>1. n \in Nat /\ n <= Len(W) /\ Len(W) \in Nat /\ Functional
    BY <1>2, Typed
  <2>2. storage' \in [Devices -> Stores]
    BY <1>2, <1>4, <2>1, ReachTyped
  <2>3. \A b \in Devices : b # d => storage'[b] = storage[b]
    BY <1>4, <2>1, ReachedSlots
  <2> QED
    BY <2>2, <2>3
<1>6. /\ SameSlots(d, {EpochCursor})
      /\ \A e \in Epochs : SameSlots(d, {EpochKey(e), EpochCert(e)})
  BY <1>1, <1>2, <1>4, MaterialReaches
<1>7. /\ returned' \in [Devices -> Outcomes]
      /\ \A b \in Devices : b # d => returned'[b] = returned[b]
      /\ returned'[d] = Ok(call, 0) \/ returned'[d] = Failed
  <2>1. \E outcome : Returns(d, outcome) /\ (outcome = Failed \/ outcome = Ok(call, 0))
    OBVIOUS
  <2>2. PICK outcome : Returns(d, outcome) /\ (outcome = Failed \/ outcome = Ok(call, 0))
    BY <2>1
  <2>3. outcome = Failed \/ \E e \in Epochs : \E c \in Calls : outcome = Ok(c, e)
    BY <2>2, EpochsShape DEF Calls
  <2> QED
    BY <1>2, <2>2, <2>3, OutcomesTyped
<1>8. SecrecyOf(d)' /\ SilenceOf(d)'
  <2>1. \/ returned'[d].ok = FALSE
        \/ returned'[d].call \in {"create", "complete_migration", "store"}
    BY <1>7 DEF Ok, Failed
  <2> QED
    BY <2>1, NothingPromised
<1>9. CursorOf(d)'
  BY <1>6, EpochsAlone
<1>10. CertifiedIsCursor' /\ ForwardSecrecy' /\ HandedOffIsSilent'
  BY <1>5, <1>7, <1>8, <1>9, OneDevice
<1> QED
  BY <1>5, <1>7, <1>10

(* Every write sequence is proper, and a sweep is undone nowhere.          *)
LEMMA SweepStops ==
  ASSUME NEW d, NEW W, Len(W) \in Nat, Stops(d, W, NoUndo(W))
  PROVE  \E n \in 0..Len(W) : Reach(d, W, n, {})
<1>n. PICK n \in 0..Len(W) : \E undone : StopsAt(d, W, NoUndo(W), n, undone)
  BY StopsAs
<1>u. PICK undone : StopsAt(d, W, NoUndo(W), n, undone)
  BY <1>n
<1>1. /\ Reach(d, W, n, undone)
      /\ undone = {} \/ (n < Len(W) /\ undone \subseteq NoUndo(W)[n])
  BY <1>u DEF StopsAt
<1>2. undone = {}
  BY <1>1 DEF NoUndo
<1> QED
  BY <1>1, <1>2

LEMMA DiscardStep ==
  ASSUME CredentialInv, NEW d \in Devices, NEW current \in Epochs, DiscardExpired(d, current)
  PROVE  /\ storage' \in [Devices -> Stores] /\ returned' \in [Devices -> Outcomes]
         /\ CertifiedIsCursor' /\ ForwardSecrecy' /\ HandedOffIsSilent'
<1>1. PICK W : W = Sweep(d, current)
  OBVIOUS
<1>2. TypeOK /\ PlausibleSpan(d, current) /\ UNCHANGED certified
  BY DEF CredentialInv, DiscardExpired
<1>3. Len(W) \in Nat /\ current \in Nat
  BY <1>1, <1>2, PlausibleSpans
<1>4. Proper(W)
  BY <1>1, <1>2, SweepIsProper, NothingIsContents DEF Proper
<1>5. \E n \in 0..Len(W) :
        /\ Reach(d, W, n, {})
        /\ \/ n = Len(W) /\ Returns(d, Ok("discard_expired", current))
           \/ Returns(d, Failed)
  <2>1. CASE Completes(d, W) /\ Returns(d, Ok("discard_expired", current))
    <3>1. Len(W) \in 0..Len(W)
      BY <1>3
    <3> QED
      BY <2>1, <3>1, CompletesAs
  <2>2. CASE Stops(d, W, NoUndo(W)) /\ Returns(d, Failed)
    BY <1>3, <2>2, SweepStops
  <2> QED
    BY <1>1, <2>1, <2>2 DEF DiscardExpired
<1>6. PICK n \in 0..Len(W) :
        /\ Reach(d, W, n, {})
        /\ \/ n = Len(W) /\ Returns(d, Ok("discard_expired", current))
           \/ Returns(d, Failed)
  BY <1>5
<1>7. n \in Nat /\ n <= Len(W) /\ Functional
  BY <1>2, <1>3, Typed
<1>8. /\ SameSlots(d, Identity \cup {EpochCursor}) /\ OnlyFades(d, Slots)
      /\ n = Len(W) => SweptBefore(d, current)
  BY <1>1, <1>2, <1>6, <1>7, DiscardReaches
<1>9. storage' \in [Devices -> Stores]
  BY <1>2, <1>3, <1>4, <1>6, <1>7, ReachTyped
<1>10. \A b \in Devices : b # d => storage'[b] = storage[b]
  BY <1>6, <1>7, ReachedSlots
<1>11. PICK outcome : /\ Returns(d, outcome)
                      /\ \/ n = Len(W) /\ outcome = Ok("discard_expired", current)
                         \/ outcome = Failed
  BY <1>6
<1>12. /\ returned' \in [Devices -> Outcomes] /\ returned'[d] = outcome
       /\ \A b \in Devices : b # d => returned'[b] = returned[b]
  <2>1. outcome = Failed \/ \E e \in Epochs : \E c \in Calls : outcome = Ok(c, e)
    BY <1>11 DEF Calls
  <2> QED
    BY <1>2, <1>11, <2>1, OutcomesTyped
<1>13. \A e \in certified[d] :
         /\ e \in Epochs /\ e \in Nat
         /\ HoldsEpoch(d, e)' => HoldsEpoch(d, e) /\ storage[d][EpochCursor] = {e}
  <2>1. \A e \in certified[d] : e \in Epochs /\ e \in Nat
    BY <1>2, EpochsShape DEF TypeOK
  <2>2. \A e \in certified[d] : HoldsEpoch(d, e)' => HoldsEpoch(d, e)
    BY <1>8, <2>1, SlotsKnown DEF HoldsEpoch, OnlyFades
  <2> QED
    BY <2>1, <2>2 DEF CredentialInv, CertifiedIsCursor
<1>14. CursorOf(d)'
  BY <1>2, <1>8, <1>13 DEF CursorOf, SameSlots
<1>15. ASSUME n = Len(W), NEW e \in certified[d], e < current PROVE ~HoldsEpoch(d, e)'
  <2> SUFFICES ASSUME HoldsEpoch(d, e)' PROVE FALSE
    OBVIOUS
  <2>1. Cursored(d) /\ Load(d, EpochCursor) = e
    BY <1>2, <1>13, CursorLoaded
  <2>2. e \in Load(d, EpochCursor)..current - 1
    BY <1>3, <1>13, <1>15, <2>1
  <2> QED
    BY <1>8, <1>15, <2>1, <2>2 DEF SweptBefore, HoldsEpoch
<1>16. SecrecyOf(d)'
  <2>1. CASE n = Len(W) /\ outcome = Ok("discard_expired", current)
    <3>1. returned'[d].current = current
      BY <1>12, <2>1 DEF Ok
    <3> QED
      BY <1>2, <1>15, <2>1, <3>1 DEF SecrecyOf
  <2>2. CASE outcome = Failed
    BY <1>12, <2>2 DEF SecrecyOf, Failed
  <2> QED
    BY <1>11, <2>1, <2>2
<1>17. SilenceOf(d)'
  BY <1>11, <1>12 DEF SilenceOf, Ok, Failed
<1>18. CertifiedIsCursor' /\ ForwardSecrecy' /\ HandedOffIsSilent'
  BY <1>2, <1>10, <1>12, <1>14, <1>16, <1>17, OneDevice
<1> QED
  BY <1>9, <1>12, <1>18

LEMMA DrawsBounded ==
  ASSUME TypeOK, NEW k \in Nat, Draw(k)
  PROVE  drawn' \in 0..MaxDraws /\ \A i \in 1..k : drawn + i \in Draws
BY CredentialAssumption DEF TypeOK, Draw, Draws

LEMMA RollIsProper ==
  ASSUME TypeOK, NEW d \in Devices, NEW current \in Epochs, PlausibleSpan(d, current),
         NEW key \in Draws, NEW R, R = RollWrites(d, current, key)
  PROVE  Proper(R)
<1>1. PICK L : L = Len(Sweep(d, current))
  OBVIOUS
<1>2. /\ L \in Nat /\ Len(R) = L + 3
      /\ \A i \in 1..L : R[i] = Sweep(d, current)[i]
      /\ R[L + 1] = Store(EpochKey(current), key)
      /\ R[L + 2] = Store(EpochCert(current), key)
      /\ R[L + 3] = Store(EpochCursor, current)
  <2>1. RollIs(R, Sweep(d, current), L, current, key)
    BY <1>1, RollShape
  <2> QED
    BY <2>1 DEF RollIs
<1>3. \A i \in 1..Len(R) : i \in 1..L \/ i = L + 1 \/ i = L + 2 \/ i = L + 3
  BY <1>2
<1>4. \A i \in 1..L : R[i].value \in Contents(R[i].slot)
  BY <1>1, <1>2, SweepIsProper, NothingIsContents
<1>5. /\ R[L + 1].value \in Contents(R[L + 1].slot)
      /\ R[L + 2].value \in Contents(R[L + 2].slot)
  BY <1>2, SlotsApart DEF Store, Contents, Held
<1>6. R[L + 3].value \in Contents(R[L + 3].slot)
  BY <1>2 DEF Store, Contents, Held
<1> QED
  BY <1>3, <1>4, <1>5, <1>6 DEF Proper

\* How a roll of L + 3 writes R ends: after n of them, with undone emptied.
RollEnds(d, current, R, L, n, undone) ==
  /\ Reach(d, R, n, undone)
  /\ \/ /\ n = L + 3 /\ undone = {}
        /\ certified' = [certified EXCEPT ![d] = @ \cup {current}]
        /\ Returns(d, Ok("roll_epoch", current))
     \/ /\ certified' = [certified EXCEPT ![d] = @ \ {current}]
        /\ Returns(d, Failed)
        /\ Faults \subseteq {"refusal"} =>
             /\ n < L + 3
             /\ undone = IF n = L + 1 THEN {EpochKey(current)} ELSE {}

LEMMA RollOutcome ==
  ASSUME CredentialInv, NEW d \in Devices, NEW current \in Epochs, RollEpoch(d, current),
         NEW L, L = Len(Sweep(d, current)), NEW R, R = RollWrites(d, current, drawn + 1)
  PROVE  /\ L \in Nat /\ Len(R) = L + 3 /\ Proper(R) /\ drawn + 1 \in Draws
         /\ \E n \in 0..L + 3 : \E undone \in SUBSET {EpochKey(current)} :
              RollEnds(d, current, R, L, n, undone)
<1>1. TypeOK /\ PlausibleSpan(d, current) /\ Draw(1)
  BY DEF CredentialInv, RollEpoch
<1>2. drawn + 1 \in Draws
  BY <1>1, DrawsBounded
<1>3. L \in Nat /\ Len(R) = L + 3 /\ Proper(R)
  <2>1. RollIs(R, Sweep(d, current), L, current, drawn + 1)
    BY <1>1, <1>2, RollShape
  <2>2. Proper(R)
    BY <1>1, <1>2, RollIsProper
  <2> QED
    BY <2>1, <2>2 DEF RollIs
<1>4. CASE /\ Completes(d, R)
           /\ certified' = [certified EXCEPT ![d] = @ \cup {current}]
           /\ Returns(d, Ok("roll_epoch", current))
  <2>1. L + 3 \in 0..L + 3 /\ {} \in SUBSET {EpochKey(current)}
    BY <1>3
  <2>2. Reach(d, R, L + 3, {})
    BY <1>3, <1>4, CompletesAs
  <2> QED
    BY <1>2, <1>3, <1>4, <2>1, <2>2 DEF RollEnds
<1>5. CASE /\ Stops(d, R, RollUndo(d, current))
           /\ certified' = [certified EXCEPT ![d] = @ \ {current}]
           /\ Returns(d, Failed)
  <2>1. Len(R) \in Nat
    BY <1>3
  <2>n. PICK n \in 0..Len(R) : \E undone : StopsAt(d, R, RollUndo(d, current), n, undone)
    BY <1>5, <2>1, StopsAs
  <2>u. PICK undone : StopsAt(d, R, RollUndo(d, current), n, undone)
    BY <2>n
  <2>2. /\ Reach(d, R, n, undone)
        /\ undone = {} \/ (n < Len(R) /\ undone \subseteq RollUndo(d, current)[n])
        /\ Faults \subseteq {"refusal"} => n < Len(R) /\ undone = RollUndo(d, current)[n]
    BY <2>u DEF StopsAt
  <2>3. n < L + 3 => /\ n \in 0..L + 2
                     /\ RollUndo(d, current)[n] = IF n = L + 1 THEN {EpochKey(current)} ELSE {}
    BY <1>3 DEF RollUndo
  <2>4. n \in 0..L + 3 /\ undone \in SUBSET {EpochKey(current)}
    BY <1>3, <2>2, <2>3
  <2>5. Faults \subseteq {"refusal"} =>
          n < L + 3 /\ undone = IF n = L + 1 THEN {EpochKey(current)} ELSE {}
    BY <1>3, <2>2, <2>3
  <2> QED
    BY <1>2, <1>3, <1>5, <2>2, <2>4, <2>5 DEF RollEnds
<1> QED
  BY <1>4, <1>5 DEF RollEpoch

LEMMA RollStep ==
  ASSUME CredentialInv, NEW d \in Devices, NEW current \in Epochs, RollEpoch(d, current)
  PROVE  /\ storage' \in [Devices -> Stores] /\ returned' \in [Devices -> Outcomes]
         /\ certified' \in [Devices -> SUBSET Epochs] /\ drawn' \in 0..MaxDraws
         /\ CertifiedIsCursor' /\ ForwardSecrecy' /\ HandedOffIsSilent'
<1>1. PICK R : R = RollWrites(d, current, drawn + 1)
  OBVIOUS
<1>2. PICK L : L = Len(Sweep(d, current))
  OBVIOUS
<1>3. TypeOK /\ PlausibleSpan(d, current) /\ Draw(1) /\ drawn' \in 0..MaxDraws
  <2>1. TypeOK /\ PlausibleSpan(d, current) /\ Draw(1)
    BY DEF CredentialInv, RollEpoch
  <2> QED
    BY <2>1, DrawsBounded
<1>4. L \in Nat /\ Len(R) = L + 3 /\ Proper(R)
  BY <1>1, <1>2, RollOutcome
<1>5. PICK n \in 0..L + 3, undone \in SUBSET {EpochKey(current)} :
        /\ Reach(d, R, n, undone)
        /\ \/ /\ n = L + 3
              /\ certified' = [certified EXCEPT ![d] = @ \cup {current}]
              /\ Returns(d, Ok("roll_epoch", current))
           \/ /\ certified' = [certified EXCEPT ![d] = @ \ {current}]
              /\ Returns(d, Failed)
  <2>1. PICK n \in 0..L + 3 : \E undone \in SUBSET {EpochKey(current)} :
          RollEnds(d, current, R, L, n, undone)
    BY <1>1, <1>2, RollOutcome
  <2>2. PICK undone \in SUBSET {EpochKey(current)} : RollEnds(d, current, R, L, n, undone)
    BY <2>1
  <2>3. RollEnds(d, current, R, L, n, undone)
    BY <2>2
  <2> QED
    BY <2>3 DEF RollEnds
<1>6. n \in Nat /\ n <= Len(R) /\ n <= L + 3 /\ Len(R) \in Nat /\ Functional
      /\ undone \subseteq {EpochKey(current)}
  BY <1>3, <1>4, Typed
<1>7. /\ \A e \in Epochs \ {current} : OnlyFades(d, {EpochKey(e), EpochCert(e)})
      /\ n < L + 3 => SameSlots(d, {EpochCursor})
      /\ n = L + 3 => storage'[d][EpochCursor] = {current} /\ SweptBefore(d, current)
  <2>1. Reach(d, RollWrites(d, current, drawn + 1), n, undone)
    BY <1>1, <1>5
  <2>2. OthersFade(d, current)
    BY <1>2, <1>3, <1>6, <2>1, RollReaches
  <2>3. /\ n < L + 3 => SameSlots(d, {EpochCursor})
        /\ n = L + 3 => storage'[d][EpochCursor] = {current} /\ SweptBefore(d, current)
    BY <1>2, <1>3, <1>6, <2>1, RollReaches
  <2> QED
    BY <2>2, <2>3 DEF OthersFade
<1>8. storage' \in [Devices -> Stores]
  BY <1>3, <1>4, <1>5, <1>6, ReachTyped
<1>9. \A b \in Devices : b # d => storage'[b] = storage[b]
  BY <1>5, <1>6, ReachedSlots
<1>10. PICK outcome : /\ Returns(d, outcome)
                      /\ \/ /\ n = L + 3 /\ outcome = Ok("roll_epoch", current)
                            /\ certified' = [certified EXCEPT ![d] = @ \cup {current}]
                         \/ /\ outcome = Failed
                            /\ certified' = [certified EXCEPT ![d] = @ \ {current}]
  BY <1>5
<1>11. /\ returned' \in [Devices -> Outcomes] /\ returned'[d] = outcome
       /\ \A b \in Devices : b # d => returned'[b] = returned[b]
  <2>1. outcome = Failed \/ \E e \in Epochs : \E c \in Calls : outcome = Ok(c, e)
    BY <1>10 DEF Calls
  <2> QED
    BY <1>3, <1>10, <2>1, OutcomesTyped
<1>12. /\ certified' \in [Devices -> SUBSET Epochs]
       /\ \A b \in Devices : b # d => certified'[b] = certified[b]
       /\ \A e \in certified'[d] : e = current \/ e \in certified[d]
       /\ outcome = Failed => current \notin certified'[d]
  <2>1. certified \in [Devices -> SUBSET Epochs]
    BY <1>3 DEF TypeOK
  <2>2. CASE outcome = Failed
    BY <1>10, <2>1, <2>2 DEF Failed, Ok
  <2>3. CASE outcome # Failed
    BY <1>10, <2>1, <2>3
  <2> QED
    BY <2>2, <2>3
\* An epoch certified before is at the cursor, and is swept unless the cursor stays.
<1>13. ASSUME NEW e \in certified[d], e # current, HoldsEpoch(d, e)'
       PROVE  n < L + 3 /\ storage'[d][EpochCursor] = {e}
  <2>1. e \in Epochs /\ e \in Nat /\ current \in Nat
    BY <1>3, EpochsShape DEF TypeOK
  <2>2. HoldsEpoch(d, e)
    BY <1>7, <1>13, <2>1 DEF HoldsEpoch, OnlyFades
  <2>3. storage[d][EpochCursor] = {e}
    BY <2>2 DEF CredentialInv, CertifiedIsCursor
  <2>4. Cursored(d) /\ Load(d, EpochCursor) = e /\ e <= current
    BY <1>3, <2>3, CursorLoaded DEF PlausibleSpan
  <2>5. e \in Load(d, EpochCursor)..current - 1
    BY <1>13, <2>1, <2>4
  <2>6. n # L + 3
    BY <1>7, <1>13, <2>4, <2>5 DEF SweptBefore, HoldsEpoch
  <2>7. n < L + 3
    BY <1>4, <1>6, <2>6
  <2> QED
    BY <1>7, <2>3, <2>7 DEF SameSlots
<1>14. CursorOf(d)'
  <2>1. ASSUME NEW e \in certified'[d], HoldsEpoch(d, e)' PROVE storage'[d][EpochCursor] = {e}
    <3>1. CASE e = current
      <4>1. n = L + 3
        BY <1>10, <1>12, <2>1, <3>1
      <4> QED
        BY <1>7, <3>1, <4>1
    <3>2. CASE e # current
      BY <1>12, <1>13, <2>1, <3>2
    <3> QED
      BY <3>1, <3>2
  <2> QED
    BY <2>1 DEF CursorOf
<1>15. SecrecyOf(d)'
  <2>1. CASE n = L + 3 /\ outcome = Ok("roll_epoch", current)
    <3>1. returned'[d].current = current
      BY <1>11, <2>1 DEF Ok
    <3>2. ASSUME NEW e \in certified'[d], e < current PROVE ~HoldsEpoch(d, e)'
      <4>1. current \in Nat
        BY EpochsShape
      <4>2. e # current
        BY <3>2, <4>1
      <4> QED
        BY <1>4, <1>12, <1>13, <2>1, <3>2, <4>2
    <3> QED
      BY <3>1, <3>2 DEF SecrecyOf
  <2>2. CASE outcome = Failed
    BY <1>11, <2>2 DEF SecrecyOf, Failed
  <2> QED
    BY <1>10, <2>1, <2>2
<1>16. SilenceOf(d)'
  BY <1>10, <1>11 DEF SilenceOf, Ok, Failed
<1>17. CertifiedIsCursor' /\ ForwardSecrecy' /\ HandedOffIsSilent'
  BY <1>9, <1>11, <1>12, <1>14, <1>15, <1>16, OneDevice
<1> QED
  BY <1>3, <1>8, <1>11, <1>12, <1>17

LEMMA DestroyIsProper ==
  ASSUME TypeOK, NEW d \in Devices
  PROVE  Proper(DestroyWrites(d)) /\ Len(DestroyWrites(d)) \in Nat
<1>1. PICK W : W = DestroyWrites(d)
  OBVIOUS
<1>2. PICK c : c = Load(d, EpochCursor)
  OBVIOUS
<1>3. /\ Cursored(d) => /\ c \in Epochs /\ Len(W) = 4
                        /\ W[1] = Delete(InboxKey) /\ W[2] = Delete(EpochKey(c))
                        /\ W[3] = Delete(EpochCert(c)) /\ W[4] = Delete(EpochCursor)
      /\ ~Cursored(d) => /\ Len(W) = 2
                         /\ W[1] = Delete(InboxKey) /\ W[2] = Delete(EpochCursor)
  BY <1>1, <1>2, DestroyShape
<1>4. CASE Cursored(d)
  <2>0. Len(W) = 4
    BY <1>3, <1>4
  <2>1. \A i \in 1..Len(W) : i = 1 \/ i = 2 \/ i = 3 \/ i = 4
    BY <2>0
  <2> QED
    BY <1>1, <1>3, <1>4, <2>1, NothingIsContents DEF Proper, Delete
<1>5. CASE ~Cursored(d)
  <2>0. Len(W) = 2
    BY <1>3, <1>5
  <2>1. \A i \in 1..Len(W) : i = 1 \/ i = 2
    BY <2>0
  <2> QED
    BY <1>1, <1>3, <1>5, <2>1, NothingIsContents DEF Proper, Delete
<1> QED
  BY <1>4, <1>5

LEMMA AuthorizeStep ==
  ASSUME CredentialInv, NEW d \in Devices, NEW successor \in Draws,
         AuthorizeMigration(d, successor)
  PROVE  /\ storage' \in [Devices -> Stores] /\ returned' \in [Devices -> Outcomes]
         /\ handoffs' \subseteq [key : Draws, opening : Draws, root : Draws, successor : Draws]
         /\ CertifiedIsCursor' /\ ForwardSecrecy' /\ HandedOffIsSilent'
<1>1. PICK W : W = DestroyWrites(d)
  OBVIOUS
<1>2. TypeOK /\ Holds(d, Durable \cup {InboxKey}) /\ UNCHANGED certified
  BY DEF CredentialInv, AuthorizeMigration
<1>3. Proper(W) /\ Len(W) \in Nat /\ Len(W) \in 0..Len(W)
  <2>1. Proper(W) /\ Len(W) \in Nat
    BY <1>1, <1>2, DestroyIsProper
  <2> QED
    BY <2>1
<1>4. \E n \in 0..Len(W) :
        /\ Reach(d, W, n, {})
        /\ \/ n = Len(W) /\ Returns(d, Ok("authorize_migration", 0))
           \/ Returns(d, Failed)
  <2>1. CASE Completes(d, W) /\ Returns(d, Ok("authorize_migration", 0))
    BY <1>3, <2>1, CompletesAs
  <2>2. CASE Stops(d, W, NoUndo(W)) /\ Returns(d, Failed)
    BY <1>3, <2>2, SweepStops
  <2> QED
    BY <1>1, <2>1, <2>2 DEF AuthorizeMigration
<1>5. PICK n \in 0..Len(W) :
        /\ Reach(d, W, n, {})
        /\ \/ n = Len(W) /\ Returns(d, Ok("authorize_migration", 0))
           \/ Returns(d, Failed)
  BY <1>4
<1>6. n \in Nat /\ n <= Len(W) /\ Functional
  BY <1>2, <1>3, Typed
<1>7. /\ OnlyFades(d, Slots)
      /\ Cursored(d) /\ storage'[d][EpochCursor] # storage[d][EpochCursor] =>
           /\ storage'[d][EpochKey(Load(d, EpochCursor))] = None
           /\ storage'[d][EpochCert(Load(d, EpochCursor))] = None
      /\ n = Len(W) => storage'[d][InboxKey] = None /\ storage'[d][EpochCursor] = None
  BY <1>1, <1>2, <1>5, <1>6, DestroyReaches
<1>8. storage' \in [Devices -> Stores]
  BY <1>2, <1>3, <1>5, <1>6, ReachTyped
<1>9. \A b \in Devices : b # d => storage'[b] = storage[b]
  BY <1>5, <1>6, ReachedSlots
<1>10. PICK outcome : /\ Returns(d, outcome)
                      /\ \/ n = Len(W) /\ outcome = Ok("authorize_migration", 0)
                         \/ outcome = Failed
  BY <1>5
<1>11. /\ returned' \in [Devices -> Outcomes] /\ returned'[d] = outcome
       /\ \A b \in Devices : b # d => returned'[b] = returned[b]
  <2>1. outcome = Failed \/ \E e \in Epochs : \E c \in Calls : outcome = Ok(c, e)
    BY <1>10, EpochsShape DEF Calls
  <2> QED
    BY <1>2, <1>10, <2>1, OutcomesTyped
<1>12. ASSUME NEW e \in certified[d], HoldsEpoch(d, e)' PROVE storage'[d][EpochCursor] = {e}
  <2>1. e \in Epochs
    BY <1>2 DEF TypeOK
  <2>2. HoldsEpoch(d, e)
    BY <1>7, <1>12, <2>1, SlotsKnown DEF HoldsEpoch, OnlyFades
  <2>3. storage[d][EpochCursor] = {e}
    BY <2>2 DEF CredentialInv, CertifiedIsCursor
  <2>4. Cursored(d) /\ Load(d, EpochCursor) = e
    BY <1>2, <2>3, CursorLoaded
  <2> QED
    BY <1>7, <1>12, <2>3, <2>4 DEF HoldsEpoch
<1>13. CursorOf(d)'
  BY <1>2, <1>12 DEF CursorOf
<1>14. SecrecyOf(d)'
  BY <1>10, <1>11 DEF SecrecyOf, Ok, Failed
<1>15. SilenceOf(d)'
  <2>1. CASE n = Len(W)
    <3>1. ~Holds(d, {InboxKey})' /\ ~Cursored(d)'
      BY <1>7, <2>1 DEF Holds, Cursored
    <3>2. \A e \in certified[d] : ~HoldsEpoch(d, e)'
      BY <1>7, <1>12, <2>1 DEF None
    <3> QED
      BY <1>2, <3>1, <3>2 DEF SilenceOf
  <2>2. CASE outcome = Failed
    BY <1>11, <2>2 DEF SilenceOf, Failed
  <2> QED
    BY <1>10, <2>1, <2>2
<1>16. CertifiedIsCursor' /\ ForwardSecrecy' /\ HandedOffIsSilent'
  BY <1>2, <1>9, <1>11, <1>13, <1>14, <1>15, OneDevice
<1>17. handoffs' \subseteq [key : Draws, opening : Draws, root : Draws, successor : Draws]
  <2>1. Load(d, CredentialKey) \in Draws /\ Load(d, RootOpening) \in Draws
        /\ Load(d, RootPublicKey) \in Draws
    <3>1. /\ storage[d][CredentialKey] # None /\ storage[d][RootOpening] # None
          /\ storage[d][RootPublicKey] # None
      BY <1>2 DEF Holds, Durable
    <3> QED
      BY <1>2, <3>1, Loaded, SlotsKnown, SlotsApart
  <2>2. Handoff(d, successor) \in [key : Draws, opening : Draws, root : Draws, successor : Draws]
    BY <2>1 DEF Handoff
  <2>3. handoffs' = handoffs \/ handoffs' = handoffs \cup {Handoff(d, successor)}
    BY DEF AuthorizeMigration
  <2> QED
    BY <1>2, <2>2, <2>3 DEF TypeOK
<1> QED
  BY <1>8, <1>11, <1>16, <1>17

LEMMA CreateStep ==
  ASSUME CredentialInv, NEW d \in Devices, Create(d)
  PROVE  CredentialInv'
<1>1. TypeOK /\ Draw(4) /\ UNCHANGED <<successorRoot, handoffs, certified>>
  BY DEF CredentialInv, Create
<1>2. /\ drawn + 1 \in Draws /\ drawn + 2 \in Draws /\ drawn + 3 \in Draws /\ drawn + 4 \in Draws
      /\ drawn' \in 0..MaxDraws
  BY <1>1, DrawsBounded
<1>3. /\ storage' \in [Devices -> Stores] /\ returned' \in [Devices -> Outcomes]
      /\ CertifiedIsCursor' /\ ForwardSecrecy' /\ HandedOffIsSilent'
  <2>1. \/ /\ Completes(d, Material(drawn + 2, drawn + 3, drawn + 1, drawn + 4))
           /\ Returns(d, Ok("create", 0))
        \/ /\ Stops(d, Material(drawn + 2, drawn + 3, drawn + 1, drawn + 4), MaterialUndo)
           /\ Returns(d, Failed)
    BY DEF Create
  <2>2. UNCHANGED certified
    BY <1>1
  <2> QED
    BY <1>2, <2>1, <2>2, MaterialStep
<1>4. leaves' \subseteq [root : Draws, key : Draws, opening : Draws]
  <2>1. leaves' = leaves \/ leaves' = leaves \cup {Leaf(drawn + 1, drawn + 2, drawn + 3)}
    BY DEF Create
  <2> QED
    BY <1>1, <1>2, <2>1 DEF TypeOK, Leaf
<1> QED
  BY <1>1, <1>2, <1>3, <1>4 DEF CredentialInv, TypeOK

LEMMA CompleteStep ==
  ASSUME CredentialInv, NEW d \in Devices, NEW handoff \in handoffs,
         CompleteMigration(d, handoff)
  PROVE  CredentialInv'
<1>1. PICK root \in successorRoot[d] :
       /\ Draw(2)
       /\ \/ /\ Completes(d, Material(handoff.key, drawn + 1, root, drawn + 2))
             /\ leaves' = leaves \cup {Leaf(root, handoff.key, drawn + 1)}
             /\ Returns(d, Ok("complete_migration", 0))
          \/ /\ Stops(d, Material(handoff.key, drawn + 1, root, drawn + 2), MaterialUndo)
             /\ UNCHANGED leaves
             /\ Returns(d, Failed)
       /\ UNCHANGED <<successorRoot, handoffs, certified>>
  BY DEF CompleteMigration
<1>2. TypeOK /\ handoff.key \in Draws /\ root \in Draws
  BY DEF CredentialInv, TypeOK, Held, Some, None
<1>3. drawn + 1 \in Draws /\ drawn + 2 \in Draws /\ drawn' \in 0..MaxDraws
  BY <1>1, <1>2, DrawsBounded
<1>4. /\ storage' \in [Devices -> Stores] /\ returned' \in [Devices -> Outcomes]
      /\ CertifiedIsCursor' /\ ForwardSecrecy' /\ HandedOffIsSilent'
  <2>1. \/ /\ Completes(d, Material(handoff.key, drawn + 1, root, drawn + 2))
           /\ Returns(d, Ok("complete_migration", 0))
        \/ /\ Stops(d, Material(handoff.key, drawn + 1, root, drawn + 2), MaterialUndo)
           /\ Returns(d, Failed)
    BY <1>1
  <2>2. UNCHANGED certified
    BY <1>1
  <2> QED
    BY <1>2, <1>3, <2>1, <2>2, MaterialStep
<1>5. leaves' \subseteq [root : Draws, key : Draws, opening : Draws]
  <2>1. leaves' = leaves \/ leaves' = leaves \cup {Leaf(root, handoff.key, drawn + 1)}
    BY <1>1
  <2> QED
    BY <1>2, <1>3, <2>1 DEF TypeOK, Leaf
<1> QED
  BY <1>1, <1>2, <1>3, <1>4, <1>5 DEF CredentialInv, TypeOK

LEMMA RenewReaches ==
  ASSUME TypeOK, NEW d \in Devices, NEW key \in Draws, Completes(d, <<Store(InboxKey, key)>>)
  PROVE  /\ storage' \in [Devices -> Stores]
         /\ \A b \in Devices : b # d => storage'[b] = storage[b]
         /\ \A slot \in Slots : slot # InboxKey => storage'[d][slot] = storage[d][slot]
<1>1. PICK W : W = <<Store(InboxKey, key)>>
  OBVIOUS
<1>2. Len(W) = 1 /\ W[1] = Store(InboxKey, key)
  BY <1>1
<1>3. Reach(d, W, Len(W), {})
  BY <1>1, CompletesAs
<1>4. 1 \in Nat /\ Len(W) \in Nat /\ 1 <= Len(W) /\ Functional /\ Reach(d, W, 1, {})
  BY <1>2, <1>3, Typed
<1>5. Proper(W)
  <2>1. W[1].value \in Contents(W[1].slot)
    BY <1>2, SlotsApart DEF Store, Contents, Held
  <2>2. \A i \in 1..Len(W) : i = 1
    BY <1>2
  <2> QED
    BY <2>1, <2>2 DEF Proper
<1>6. storage' \in [Devices -> Stores]
  BY <1>4, <1>5, ReachTyped
<1>7. /\ \A b \in Devices : b # d => storage'[b] = storage[b]
      /\ \A slot \in Slots : storage'[d][slot] = After(storage[d], W, 1)[slot]
  BY <1>4, ReachedSlots
<1>8. ASSUME NEW slot \in Slots, slot # InboxKey PROVE storage'[d][slot] = storage[d][slot]
  <2>1. \A i \in 1..1 : W[i].slot # slot
    BY <1>2, <1>8 DEF Store
  <2> QED
    BY <1>7, <2>1, AfterCases
<1> QED
  BY <1>6, <1>7, <1>8

LEMMA RenewStep ==
  ASSUME CredentialInv, NEW d \in Devices, RenewInbox(d)
  PROVE  CredentialInv'
<1>1. /\ TypeOK /\ Draw(1) /\ Returns(d, Ok("store", 0))
      /\ Completes(d, <<Store(InboxKey, drawn + 1)>>)
      /\ UNCHANGED <<successorRoot, handoffs, leaves, certified>>
  BY DEF CredentialInv, RenewInbox
<1>2. drawn + 1 \in Draws /\ drawn' \in 0..MaxDraws
  BY <1>1, DrawsBounded
<1>3. /\ storage' \in [Devices -> Stores]
      /\ \A b \in Devices : b # d => storage'[b] = storage[b]
      /\ \A slot \in Slots : slot # InboxKey => storage'[d][slot] = storage[d][slot]
  BY <1>1, <1>2, RenewReaches
<1>4. /\ SameSlots(d, {EpochCursor})
      /\ \A e \in Epochs : SameSlots(d, {EpochKey(e), EpochCert(e)})
  BY <1>3, SlotsApart, SlotsKnown DEF SameSlots
<1>5. /\ returned' \in [Devices -> Outcomes] /\ returned'[d] = Ok("store", 0)
      /\ \A b \in Devices : b # d => returned'[b] = returned[b]
  <2>1. \E e \in Epochs : \E c \in Calls : Ok("store", 0) = Ok(c, e)
    BY EpochsShape DEF Calls
  <2> QED
    BY <1>1, <2>1, OutcomesTyped
<1>6. SecrecyOf(d)' /\ SilenceOf(d)'
  <2>1. returned'[d].call \in {"create", "complete_migration", "store"}
    BY <1>5 DEF Ok
  <2> QED
    BY <2>1, NothingPromised
<1>7. CursorOf(d)'
  BY <1>1, <1>4, EpochsAlone
<1>8. CertifiedIsCursor' /\ ForwardSecrecy' /\ HandedOffIsSilent'
  BY <1>1, <1>3, <1>5, <1>6, <1>7, OneDevice
<1> QED
  BY <1>1, <1>2, <1>3, <1>5, <1>8 DEF CredentialInv, TypeOK

LEMMA SuccessorStep ==
  ASSUME CredentialInv, NEW d \in Devices, CreateSuccessorRoot(d)
  PROVE  CredentialInv'
<1>1. /\ TypeOK /\ Draw(1) /\ successorRoot' = [successorRoot EXCEPT ![d] = Some(drawn + 1)]
      /\ UNCHANGED <<storage, handoffs, leaves, certified, returned>>
  BY DEF CredentialInv, CreateSuccessorRoot
<1>2. drawn + 1 \in Draws /\ drawn' \in 0..MaxDraws
  BY <1>1, DrawsBounded
<1>3. successorRoot' \in [Devices -> Held(Draws)]
  BY <1>1, <1>2 DEF TypeOK, Held
<1>4. TypeOK'
  BY <1>1, <1>2, <1>3 DEF TypeOK
<1>5. CertifiedIsCursor' /\ ForwardSecrecy' /\ HandedOffIsSilent'
  BY <1>1 DEF CredentialInv, CertifiedIsCursor, ForwardSecrecy, HandedOffIsSilent, HoldsEpoch,
    Holds, Cursored
<1> QED
  BY <1>4, <1>5 DEF CredentialInv

LEMMA CredentialStep == CredentialInv /\ [Next]_vars => CredentialInv'
<1> SUFFICES ASSUME CredentialInv, [Next]_vars PROVE CredentialInv'
  OBVIOUS
<1>0. TypeOK
  BY DEF CredentialInv
<1>1. ASSUME NEW d \in Devices, Create(d) PROVE CredentialInv'
  BY <1>1, CreateStep
<1>2. ASSUME NEW d \in Devices, NEW e \in Epochs, DiscardExpired(d, e) PROVE CredentialInv'
  <2>1. UNCHANGED <<successorRoot, handoffs, leaves, certified, drawn>>
    BY <1>2 DEF DiscardExpired
  <2>2. /\ storage' \in [Devices -> Stores] /\ returned' \in [Devices -> Outcomes]
        /\ CertifiedIsCursor' /\ ForwardSecrecy' /\ HandedOffIsSilent'
    BY <1>2, DiscardStep
  <2> QED
    BY <1>0, <2>1, <2>2 DEF CredentialInv, TypeOK
<1>3. ASSUME NEW d \in Devices, NEW e \in Epochs, RollEpoch(d, e) PROVE CredentialInv'
  <2>1. UNCHANGED <<successorRoot, handoffs, leaves>>
    BY <1>3 DEF RollEpoch
  <2>2. /\ storage' \in [Devices -> Stores] /\ returned' \in [Devices -> Outcomes]
        /\ certified' \in [Devices -> SUBSET Epochs] /\ drawn' \in 0..MaxDraws
        /\ CertifiedIsCursor' /\ ForwardSecrecy' /\ HandedOffIsSilent'
    BY <1>3, RollStep
  <2> QED
    BY <1>0, <2>1, <2>2 DEF CredentialInv, TypeOK
<1>4. ASSUME NEW d \in Devices, CreateSuccessorRoot(d) PROVE CredentialInv'
  BY <1>4, SuccessorStep
<1>5. ASSUME NEW d \in Devices, NEW successor \in UNION {successorRoot[b] : b \in Devices},
             AuthorizeMigration(d, successor)
      PROVE  CredentialInv'
  <2>1. UNCHANGED <<successorRoot, leaves, certified, drawn>>
    BY <1>5 DEF AuthorizeMigration
  <2>2. successor \in Draws
    BY <1>0, <1>5 DEF TypeOK, Held, Some, None
  <2>3. /\ storage' \in [Devices -> Stores] /\ returned' \in [Devices -> Outcomes]
        /\ handoffs' \subseteq [key : Draws, opening : Draws, root : Draws, successor : Draws]
        /\ CertifiedIsCursor' /\ ForwardSecrecy' /\ HandedOffIsSilent'
    BY <1>5, <2>2, AuthorizeStep
  <2> QED
    BY <1>0, <2>1, <2>3 DEF CredentialInv, TypeOK
<1>6. ASSUME NEW d \in Devices, NEW handoff \in handoffs, CompleteMigration(d, handoff)
      PROVE  CredentialInv'
  BY <1>6, CompleteStep
<1>7. ASSUME NEW d \in Devices, RenewInbox(d) PROVE CredentialInv'
  BY <1>7, RenewStep
<1>8. CASE UNCHANGED vars
  BY <1>8 DEF vars, CredentialInv, TypeOK, CertifiedIsCursor, ForwardSecrecy,
    HandedOffIsSilent, HoldsEpoch, Holds, Cursored
<1> QED
  BY <1>1, <1>2, <1>3, <1>4, <1>5, <1>6, <1>7, <1>8 DEF Next

(* The invariant of a member's devices, under every fault.                 *)
THEOREM CredentialInductive == Spec => []CredentialInv
BY CredentialInit, CredentialStep, PTL DEF Spec

(* Material of an epoch a roll reported as certified is never out of the   *)
(* next sweep's reach, whatever write was refused, half unwound or cut off *)
(* by a crash (roll_epoch stores the cursor last, destroy_acting_material  *)
(* deletes it last).                                                       *)
THEOREM SweepsReach == Spec => []CertifiedIsSweepable
<1>1. ASSUME CredentialInv PROVE CertifiedIsSweepable
  <2> SUFFICES ASSUME NEW d \in Devices, NEW e \in certified[d], HoldsEpoch(d, e)
               PROVE  Cursored(d) /\ Load(d, EpochCursor) <= e
    BY DEF CertifiedIsSweepable
  <2>1. TypeOK /\ storage[d][EpochCursor] = {e}
    BY <1>1 DEF CredentialInv, CertifiedIsCursor
  <2>2. Cursored(d) /\ Load(d, EpochCursor) = e /\ e \in Nat
    BY <2>1, CursorLoaded
  <2> QED
    BY <2>2
<1>2. CredentialInv => CertifiedIsSweepable
  BY <1>1
<1> QED
  BY <1>2, CredentialInductive, PTL

(* When discard_expired or roll_epoch has just returned Ok, nothing of an  *)
(* epoch before current that the member was told it certified is left, for *)
(* any span up to the largest the code accepts.                            *)
THEOREM PastEpochsAreGone == Spec => []ForwardSecrecy
<1>1. CredentialInv => ForwardSecrecy
  BY DEF CredentialInv
<1> QED
  BY <1>1, CredentialInductive, PTL

(* A device whose authorize_migration has just returned Ok holds no inbox  *)
(* secret, no cursor and nothing of an epoch it certified: it can neither  *)
(* act nor listen for the credential it handed off.                        *)
THEOREM HandoffsSilence == Spec => []HandedOffIsSilent
<1>1. CredentialInv => HandedOffIsSilent
  BY DEF CredentialInv
<1> QED
  BY <1>1, CredentialInductive, PTL

-------------------------------------------------------------------------------
(* Where writes are refused and nothing worse, what the code unwinds is    *)
(* enough: the two halves of MaterialIsWhole are inductive together with   *)
(* the invariant above.                                                    *)

WholeInv == CredentialInv /\ MaterialIsWhole

WholeOf(d) ==
  Holds(d, Durable) =>
    Leaf(Load(d, RootPublicKey), Load(d, CredentialKey), Load(d, RootOpening)) \in leaves

PairedOf(d) ==
  \A e \in Epochs :
    storage[d][EpochKey(e)] # None => storage[d][EpochCert(e)] = storage[d][EpochKey(e)]

HandoffsOpen == \A h \in handoffs : Leaf(h.root, h.key, h.opening) \in leaves

LEMMA OneWhole ==
  ASSUME MaterialIsWhole, NEW d \in Devices,
         \A b \in Devices : b # d => storage'[b] = storage[b],
         leaves \subseteq leaves', WholeOf(d)', PairedOf(d)', HandoffsOpen'
  PROVE  MaterialIsWhole'
<1>1. ASSUME NEW b \in Devices, b # d PROVE WholeOf(b)' /\ PairedOf(b)'
  <2>1. storage'[b] = storage[b]
    BY <1>1
  <2>2. WholeOf(b) /\ PairedOf(b)
    BY DEF MaterialIsWhole, NoMixedCredential, NoUncertifiedKey, WholeOf, PairedOf
  <2> QED
    BY <2>1, <2>2 DEF WholeOf, PairedOf, Holds, Load
<1>2. \A b \in Devices : WholeOf(b)' /\ PairedOf(b)'
  BY <1>1
<1> QED
  BY <1>2 DEF MaterialIsWhole, NoMixedCredential, NoUncertifiedKey, WholeOf, PairedOf,
    HandoffsOpen

LEMMA WholeParts ==
  ASSUME MaterialIsWhole, NEW d \in Devices
  PROVE  WholeOf(d) /\ PairedOf(d) /\ HandoffsOpen
BY DEF MaterialIsWhole, NoMixedCredential, NoUncertifiedKey, WholeOf, PairedOf, HandoffsOpen

\* A credential whose slots are as they were is as whole as it was.
LEMMA StillWhole ==
  ASSUME MaterialIsWhole, NEW d \in Devices, SameSlots(d, Durable), leaves \subseteq leaves'
  PROVE  WholeOf(d)'
<1>1. \A slot \in Durable : storage'[d][slot] = storage[d][slot] /\ Load(d, slot)' = Load(d, slot)
  BY DEF SameSlots, Load
<1>2. Holds(d, Durable)' => Holds(d, Durable)
  BY <1>1 DEF Holds
<1>3. CredentialKey \in Durable /\ RootOpening \in Durable /\ RootPublicKey \in Durable
  BY DEF Durable
<1> QED
  BY <1>1, <1>2, <1>3, WholeParts DEF WholeOf

\* Keys that disappear before their certificates stay paired.
LEMMA StillPaired ==
  ASSUME MaterialIsWhole, NEW d \in Devices, NEW e \in Epochs,
         OnlyFades(d, {EpochKey(e), EpochCert(e)}), KeyFirst(d, {e}),
         storage'[d][EpochKey(e)] # None
  PROVE  storage'[d][EpochCert(e)] = storage'[d][EpochKey(e)]
BY WholeParts DEF OnlyFades, KeyFirst, PairedOf

LEMMA SameWhole ==
  ASSUME MaterialIsWhole, UNCHANGED <<storage, handoffs, leaves>>
  PROVE  MaterialIsWhole'
<1>1. ASSUME NEW b \in Devices PROVE WholeOf(b)' /\ PairedOf(b)'
  <2>1. storage'[b] = storage[b] /\ leaves' = leaves
    OBVIOUS
  <2> QED
    BY <2>1, WholeParts DEF WholeOf, PairedOf, Holds, Load
<1>2. HandoffsOpen'
  BY DEF HandoffsOpen, MaterialIsWhole, NoMixedCredential
<1> QED
  BY <1>1, <1>2 DEF MaterialIsWhole, NoMixedCredential, NoUncertifiedKey, WholeOf, PairedOf,
    HandoffsOpen

LEMMA DiscardWhole ==
  ASSUME WholeInv, NEW d \in Devices, NEW current \in Epochs, DiscardExpired(d, current)
  PROVE  MaterialIsWhole'
<1>1. /\ TypeOK /\ MaterialIsWhole /\ PlausibleSpan(d, current)
      /\ UNCHANGED <<leaves, handoffs>>
  BY DEF WholeInv, CredentialInv, DiscardExpired
<1>2. PICK W : W = Sweep(d, current)
  OBVIOUS
<1>3. Len(W) \in Nat /\ Len(W) \in 0..Len(W)
  <2>1. Len(W) \in Nat
    BY <1>1, <1>2, PlausibleSpans
  <2> QED
    BY <2>1
<1>4. PICK n \in 0..Len(W) : Reach(d, W, n, {})
  <2>1. Completes(d, W) => \E n \in 0..Len(W) : Reach(d, W, n, {})
    BY <1>3, CompletesAs
  <2>2. Stops(d, W, NoUndo(W)) => \E n \in 0..Len(W) : Reach(d, W, n, {})
    BY <1>3, SweepStops
  <2> QED
    BY <1>2, <2>1, <2>2 DEF DiscardExpired
<1>5. n \in Nat /\ n <= Len(W) /\ Functional
  BY <1>1, <1>3, Typed
<1>6. /\ SameSlots(d, Identity \cup {EpochCursor}) /\ OnlyFades(d, Slots)
      /\ KeyFirst(d, Epochs)
  BY <1>1, <1>2, <1>4, <1>5, DiscardReaches
<1>7. WholeOf(d)'
  <2>1. SameSlots(d, Durable)
    BY <1>6 DEF SameSlots, Identity
  <2> QED
    BY <1>1, <2>1, StillWhole
<1>8. PairedOf(d)'
  <2>1. \A e \in Epochs : OnlyFades(d, {EpochKey(e), EpochCert(e)}) /\ KeyFirst(d, {e})
    BY <1>6, SlotsKnown DEF OnlyFades, KeyFirst
  <2> QED
    BY <1>1, <2>1, StillPaired DEF PairedOf
<1>9. \A b \in Devices : b # d => storage'[b] = storage[b]
  BY <1>4, <1>5, ReachedSlots
<1>10. HandoffsOpen'
  BY <1>1, WholeParts DEF HandoffsOpen
<1> QED
  BY <1>1, <1>7, <1>8, <1>9, <1>10, OneWhole

LEMMA RollWhole ==
  ASSUME WholeInv, Faults \subseteq {"refusal"}, NEW d \in Devices, NEW current \in Epochs,
         RollEpoch(d, current)
  PROVE  MaterialIsWhole'
<1>1. /\ CredentialInv /\ TypeOK /\ MaterialIsWhole /\ PlausibleSpan(d, current)
      /\ UNCHANGED <<leaves, handoffs>>
  BY DEF WholeInv, CredentialInv, RollEpoch
<1>2. PICK R : R = RollWrites(d, current, drawn + 1)
  OBVIOUS
<1>3. PICK L : L = Len(Sweep(d, current))
  OBVIOUS
<1>4. L \in Nat
  BY <1>1, <1>2, <1>3, RollOutcome
<1>5. PICK n \in 0..L + 3 : \E undone \in SUBSET {EpochKey(current)} :
        RollEnds(d, current, R, L, n, undone)
  BY <1>1, <1>2, <1>3, RollOutcome
<1>6. PICK undone \in SUBSET {EpochKey(current)} : RollEnds(d, current, R, L, n, undone)
  BY <1>5
<1>7. /\ Reach(d, R, n, undone)
      /\ \/ n = L + 3 /\ undone = {}
         \/ n < L + 3 /\ undone = IF n = L + 1 THEN {EpochKey(current)} ELSE {}
  BY <1>6 DEF RollEnds
<1>8. n \in Nat /\ n <= L + 3 /\ Functional /\ undone \subseteq {EpochKey(current)}
  BY <1>1, <1>4, Typed
<1>9. /\ SameSlots(d, Identity)
      /\ \A e \in Epochs \ {current} : OnlyFades(d, {EpochKey(e), EpochCert(e)})
      /\ KeyFirst(d, Epochs \ {current})
      /\ n <= L /\ undone = {} => SameSlots(d, {EpochKey(current), EpochCert(current)})
      /\ undone = {EpochKey(current)} => storage'[d][EpochKey(current)] = None
      /\ n >= L + 2 /\ undone = {} =>
           /\ storage'[d][EpochKey(current)] = {drawn + 1}
           /\ storage'[d][EpochCert(current)] = {drawn + 1}
  <2>1. PICK key : key = drawn + 1
    OBVIOUS
  <2>2. Reach(d, RollWrites(d, current, key), n, undone)
    BY <1>2, <1>7, <2>1
  <2>3. n \in Nat /\ n <= L + 3 /\ undone \subseteq {EpochKey(current)}
    BY <1>8
  <2>4. OthersFade(d, current)
    BY <1>1, <1>3, <2>2, <2>3, RollReaches
  <2>5. FreshPair(d, current, key, L, n, undone)
    BY <1>1, <1>3, <1>4, <2>2, <2>3, RollReaches
  <2> QED
    BY <2>1, <2>4, <2>5 DEF FreshPair, OthersFade
<1>10. WholeOf(d)'
  <2>1. SameSlots(d, Durable)
    BY <1>9 DEF SameSlots, Identity
  <2> QED
    BY <1>1, <2>1, StillWhole
\* The new key: not yet there, deleted again, or beside its certificate.
<1>11. \/ SameSlots(d, {EpochKey(current), EpochCert(current)})
       \/ storage'[d][EpochKey(current)] = None
       \/ storage'[d][EpochCert(current)] = storage'[d][EpochKey(current)]
  <2>1. CASE n <= L
    BY <1>4, <1>7, <1>9, <2>1
  <2>2. CASE n = L + 1
    BY <1>4, <1>7, <1>9, <2>2
  <2>3. CASE n >= L + 2
    <3>1. undone = {}
      BY <1>4, <1>7, <2>3
    <3> QED
      BY <1>9, <2>3, <3>1
  <2> QED
    BY <1>4, <1>8, <2>1, <2>2, <2>3
<1>12. PairedOf(d)'
  <2>1. ASSUME NEW e \in Epochs, storage'[d][EpochKey(e)] # None
        PROVE  storage'[d][EpochCert(e)] = storage'[d][EpochKey(e)]
    <3>1. CASE e = current
      <4>1. PairedOf(d)
        BY <1>1, WholeParts
      <4> QED
        BY <1>11, <2>1, <3>1, <4>1 DEF PairedOf, SameSlots
    <3>2. CASE e # current
      <4>1. OnlyFades(d, {EpochKey(e), EpochCert(e)}) /\ KeyFirst(d, {e})
        BY <1>9, <3>2 DEF KeyFirst
      <4> QED
        BY <1>1, <2>1, <4>1, StillPaired
    <3> QED
      BY <3>1, <3>2
  <2> QED
    BY <2>1 DEF PairedOf
<1>13. \A b \in Devices : b # d => storage'[b] = storage[b]
  BY <1>7, <1>8, ReachedSlots
<1>14. HandoffsOpen'
  BY <1>1, WholeParts DEF HandoffsOpen
<1> QED
  BY <1>1, <1>10, <1>12, <1>13, <1>14, OneWhole

LEMMA AuthorizeWhole ==
  ASSUME WholeInv, NEW d \in Devices, NEW successor, AuthorizeMigration(d, successor)
  PROVE  MaterialIsWhole'
<1>1. /\ TypeOK /\ MaterialIsWhole /\ Holds(d, Durable \cup {InboxKey}) /\ UNCHANGED leaves
  BY DEF WholeInv, CredentialInv, AuthorizeMigration
<1>2. PICK W : W = DestroyWrites(d)
  OBVIOUS
<1>3. Len(W) \in Nat /\ Len(W) \in 0..Len(W)
  <2>1. Len(W) \in Nat
    BY <1>1, <1>2, DestroyIsProper
  <2> QED
    BY <2>1
<1>4. PICK n \in 0..Len(W) : Reach(d, W, n, {})
  <2>1. Completes(d, W) => \E n \in 0..Len(W) : Reach(d, W, n, {})
    BY <1>3, CompletesAs
  <2>2. Stops(d, W, NoUndo(W)) => \E n \in 0..Len(W) : Reach(d, W, n, {})
    BY <1>3, SweepStops
  <2> QED
    BY <1>2, <2>1, <2>2 DEF AuthorizeMigration
<1>5. n \in Nat /\ n <= Len(W) /\ Functional
  BY <1>1, <1>3, Typed
<1>6. OnlyFades(d, Slots) /\ SameSlots(d, Durable) /\ KeyFirst(d, Epochs)
  BY <1>1, <1>2, <1>4, <1>5, DestroyReaches
<1>7. WholeOf(d)'
  BY <1>1, <1>6, StillWhole
<1>8. PairedOf(d)'
  <2>1. \A e \in Epochs : OnlyFades(d, {EpochKey(e), EpochCert(e)}) /\ KeyFirst(d, {e})
    BY <1>6, SlotsKnown DEF OnlyFades, KeyFirst
  <2> QED
    BY <1>1, <2>1, StillPaired DEF PairedOf
<1>9. \A b \in Devices : b # d => storage'[b] = storage[b]
  BY <1>4, <1>5, ReachedSlots
<1>10. HandoffsOpen'
  <2>1. Holds(d, Durable)
    BY <1>1 DEF Holds
  <2>2. Leaf(Load(d, RootPublicKey), Load(d, CredentialKey), Load(d, RootOpening)) \in leaves
    BY <1>1, <2>1, WholeParts DEF WholeOf
  <2>3. handoffs' = handoffs \/ handoffs' = handoffs \cup {Handoff(d, successor)}
    BY DEF AuthorizeMigration
  <2>4. /\ Handoff(d, successor).root = Load(d, RootPublicKey)
        /\ Handoff(d, successor).key = Load(d, CredentialKey)
        /\ Handoff(d, successor).opening = Load(d, RootOpening)
    BY DEF Handoff
  <2> QED
    BY <1>1, <2>2, <2>3, <2>4, WholeParts DEF HandoffsOpen
<1> QED
  BY <1>1, <1>7, <1>8, <1>9, <1>10, OneWhole

(* Both calls that store a credential: all four slots, or the first one    *)
(* untouched, or the first one deleted again.                              *)
LEMMA MaterialWhole ==
  ASSUME WholeInv, Faults \subseteq {"refusal"}, NEW d \in Devices,
         NEW key \in Draws, NEW opening \in Draws, NEW root \in Draws, NEW inbox \in Draws,
         \/ /\ Completes(d, Material(key, opening, root, inbox))
            /\ leaves' = leaves \cup {Leaf(root, key, opening)}
         \/ /\ Stops(d, Material(key, opening, root, inbox), MaterialUndo)
            /\ UNCHANGED leaves,
         UNCHANGED handoffs
  PROVE  MaterialIsWhole'
<1>1. PICK W : W = Material(key, opening, root, inbox)
  OBVIOUS
<1>2. /\ TypeOK /\ MaterialIsWhole /\ Len(W) = 4 /\ Functional
      /\ leaves \subseteq leaves'
  BY <1>1, MaterialProper, Typed DEF WholeInv, CredentialInv
<1>3. /\ \A n \in 0..3 : MaterialUndo[n] \subseteq Durable
      /\ \A n \in 1..3 : CredentialKey \in MaterialUndo[n]
      /\ MaterialUndo[0] = {}
  BY MaterialProper
<1>4. \E n \in 0..4 : \E undone \in SUBSET Durable :
        /\ Reach(d, W, n, undone)
        /\ \/ n = 4 /\ undone = {} /\ leaves' = leaves \cup {Leaf(root, key, opening)}
           \/ n = 0 /\ undone = {}
           \/ CredentialKey \in undone
  <2>1. CASE Completes(d, W) /\ leaves' = leaves \cup {Leaf(root, key, opening)}
    <3>1. Reach(d, W, Len(W), {})
      BY <2>1, CompletesAs
    <3>2. 4 \in 0..4 /\ {} \in SUBSET Durable /\ Len(W) = 4
      BY <1>2
    <3> QED
      BY <2>1, <3>1, <3>2
  <2>2. CASE Stops(d, W, MaterialUndo)
    <3>1. Len(W) \in Nat
      BY <1>2
    <3>n. PICK n \in 0..Len(W) : \E undone : StopsAt(d, W, MaterialUndo, n, undone)
      BY <2>2, <3>1, StopsAs
    <3>u. PICK undone : StopsAt(d, W, MaterialUndo, n, undone)
      BY <3>n
    <3>2. /\ Reach(d, W, n, undone)
          /\ undone = {} \/ (n < Len(W) /\ undone \subseteq MaterialUndo[n])
          /\ Faults \subseteq {"refusal"} => n < Len(W) /\ undone = MaterialUndo[n]
      BY <3>u DEF StopsAt
    <3>3. n \in 0..3 /\ n \in 0..4 /\ undone = MaterialUndo[n]
      BY <1>2, <3>2
    <3>4. undone \in SUBSET Durable
      BY <1>3, <3>3
    <3>5. (n = 0 /\ undone = {}) \/ CredentialKey \in undone
      <4>1. n = 0 \/ n \in 1..3
        BY <3>3
      <4> QED
        BY <1>3, <3>3, <4>1
    <3> QED
      BY <3>2, <3>3, <3>4, <3>5
  <2> QED
    BY <1>1, <2>1, <2>2
<1>5. PICK n \in 0..4 : \E undone \in SUBSET Durable :
        /\ Reach(d, W, n, undone)
        /\ \/ n = 4 /\ undone = {} /\ leaves' = leaves \cup {Leaf(root, key, opening)}
           \/ n = 0 /\ undone = {}
           \/ CredentialKey \in undone
  BY <1>4
<1>6. PICK undone \in SUBSET Durable :
        /\ Reach(d, W, n, undone)
        /\ \/ n = 4 /\ undone = {} /\ leaves' = leaves \cup {Leaf(root, key, opening)}
           \/ n = 0 /\ undone = {}
           \/ CredentialKey \in undone
  BY <1>5
<1>7. /\ \A e \in Epochs : SameSlots(d, {EpochKey(e), EpochCert(e)})
      /\ n = 4 /\ undone = {} =>
           /\ storage'[d][CredentialKey] = {key} /\ storage'[d][RootOpening] = {opening}
           /\ storage'[d][RootPublicKey] = {root}
      /\ n = 0 /\ undone = {} => SameSlots(d, Durable)
      /\ CredentialKey \in undone => storage'[d][CredentialKey] = None
  <2>1. undone \subseteq Durable /\ Reach(d, Material(key, opening, root, inbox), n, undone)
    BY <1>1, <1>6
  <2> QED
    BY <1>2, <2>1, MaterialReaches
<1>8. WholeOf(d)'
  <2>1. CASE n = 4 /\ undone = {} /\ leaves' = leaves \cup {Leaf(root, key, opening)}
    <3>1. Load(d, CredentialKey)' = key
      BY <1>7, <2>1 DEF Load
    <3>2. Load(d, RootOpening)' = opening
      BY <1>7, <2>1 DEF Load
    <3>3. Load(d, RootPublicKey)' = root
      BY <1>7, <2>1 DEF Load
    <3> QED
      BY <2>1, <3>1, <3>2, <3>3 DEF WholeOf
  <2>2. CASE n = 0 /\ undone = {}
    BY <1>2, <1>7, <2>2, StillWhole
  <2>3. CASE CredentialKey \in undone
    <3>1. ~Holds(d, Durable)'
      BY <1>7, <2>3 DEF Holds, Durable
    <3> QED
      BY <3>1 DEF WholeOf
  <2> QED
    BY <1>6, <2>1, <2>2, <2>3
<1>9. PairedOf(d)'
  BY <1>2, <1>7, WholeParts DEF PairedOf, SameSlots
<1>10. \A b \in Devices : b # d => storage'[b] = storage[b]
  BY <1>2, <1>6, ReachedSlots
<1>11. HandoffsOpen'
  BY <1>2, WholeParts DEF HandoffsOpen
<1> QED
  BY <1>2, <1>8, <1>9, <1>10, <1>11, OneWhole

LEMMA WholeInit == Init => WholeInv
<1> SUFFICES ASSUME Init PROVE WholeInv
  OBVIOUS
<1>1. \A d \in Devices : \A slot \in Slots : storage[d][slot] = None
  BY DEF Init
<1>2. NoMixedCredential
  <2>1. \A d \in Devices : ~Holds(d, Durable)
    BY <1>1, SlotsKnown DEF Holds, Durable
  <2>2. handoffs = {}
    BY DEF Init
  <2> QED
    BY <2>1, <2>2 DEF NoMixedCredential
<1>3. NoUncertifiedKey
  BY <1>1, SlotsKnown DEF NoUncertifiedKey
<1> QED
  BY <1>2, <1>3, CredentialInit DEF WholeInv, MaterialIsWhole

LEMMA WholeStep ==
  ASSUME WholeInv, Faults \subseteq {"refusal"}, [Next]_vars
  PROVE  WholeInv'
<1>0. TypeOK /\ CredentialInv /\ MaterialIsWhole
  BY DEF WholeInv, CredentialInv
<1> SUFFICES MaterialIsWhole'
  BY <1>0, CredentialStep DEF WholeInv
<1>1. ASSUME NEW d \in Devices, Create(d) PROVE MaterialIsWhole'
  <2>1. Draw(4) /\ UNCHANGED handoffs
    BY <1>1 DEF Create
  <2>2. /\ drawn + 1 \in Draws /\ drawn + 2 \in Draws
        /\ drawn + 3 \in Draws /\ drawn + 4 \in Draws
    BY <1>0, <2>1, DrawsBounded
  <2>3. \/ /\ Completes(d, Material(drawn + 2, drawn + 3, drawn + 1, drawn + 4))
           /\ leaves' = leaves \cup {Leaf(drawn + 1, drawn + 2, drawn + 3)}
        \/ /\ Stops(d, Material(drawn + 2, drawn + 3, drawn + 1, drawn + 4), MaterialUndo)
           /\ UNCHANGED leaves
    BY <1>1 DEF Create
  <2> QED
    BY <2>1, <2>2, <2>3, MaterialWhole
<1>2. ASSUME NEW d \in Devices, NEW e \in Epochs, DiscardExpired(d, e) PROVE MaterialIsWhole'
  BY <1>2, DiscardWhole
<1>3. ASSUME NEW d \in Devices, NEW e \in Epochs, RollEpoch(d, e) PROVE MaterialIsWhole'
  BY <1>3, RollWhole
<1>4. ASSUME NEW d \in Devices, CreateSuccessorRoot(d) PROVE MaterialIsWhole'
  <2>1. UNCHANGED <<storage, handoffs, leaves>>
    BY <1>4 DEF CreateSuccessorRoot
  <2> QED
    BY <1>0, <2>1, SameWhole
<1>5. ASSUME NEW d \in Devices, NEW successor, AuthorizeMigration(d, successor)
      PROVE  MaterialIsWhole'
  BY <1>5, AuthorizeWhole
<1>6. ASSUME NEW d \in Devices, NEW handoff \in handoffs, CompleteMigration(d, handoff)
      PROVE  MaterialIsWhole'
  <2>1. PICK root \in successorRoot[d] :
         /\ Draw(2)
         /\ \/ /\ Completes(d, Material(handoff.key, drawn + 1, root, drawn + 2))
               /\ leaves' = leaves \cup {Leaf(root, handoff.key, drawn + 1)}
            \/ /\ Stops(d, Material(handoff.key, drawn + 1, root, drawn + 2), MaterialUndo)
               /\ UNCHANGED leaves
         /\ UNCHANGED handoffs
    BY <1>6 DEF CompleteMigration
  <2>2. handoff.key \in Draws /\ root \in Draws
    BY <1>0 DEF TypeOK, Held, Some, None
  <2>3. drawn + 1 \in Draws /\ drawn + 2 \in Draws
    BY <1>0, <2>1, DrawsBounded
  <2>4. \/ /\ Completes(d, Material(handoff.key, drawn + 1, root, drawn + 2))
           /\ leaves' = leaves \cup {Leaf(root, handoff.key, drawn + 1)}
        \/ /\ Stops(d, Material(handoff.key, drawn + 1, root, drawn + 2), MaterialUndo)
           /\ UNCHANGED leaves
    BY <2>1
  <2>5. UNCHANGED handoffs
    BY <2>1
  <2> QED
    BY <2>2, <2>3, <2>4, <2>5, MaterialWhole
<1>7. ASSUME NEW d \in Devices, RenewInbox(d) PROVE MaterialIsWhole'
  <2>1. /\ Draw(1) /\ Completes(d, <<Store(InboxKey, drawn + 1)>>)
        /\ UNCHANGED <<handoffs, leaves>>
    BY <1>7 DEF RenewInbox
  <2>2. drawn + 1 \in Draws
    BY <1>0, <2>1, DrawsBounded
  <2>3. /\ \A b \in Devices : b # d => storage'[b] = storage[b]
        /\ \A slot \in Slots : slot # InboxKey => storage'[d][slot] = storage[d][slot]
    BY <1>0, <2>1, <2>2, RenewReaches
  <2>4. SameSlots(d, Durable)
    BY <2>3, SlotsApart, SlotsKnown DEF SameSlots, Durable
  <2>5. WholeOf(d)'
    BY <1>0, <2>1, <2>4, StillWhole
  <2>6. PairedOf(d)'
    BY <1>0, <2>3, WholeParts, SlotsApart, SlotsKnown DEF PairedOf
  <2>7. HandoffsOpen'
    BY <1>0, <2>1, WholeParts DEF HandoffsOpen
  <2> QED
    BY <1>0, <2>1, <2>3, <2>5, <2>6, <2>7, OneWhole
<1>8. CASE UNCHANGED vars
  <2>1. UNCHANGED <<storage, handoffs, leaves>>
    BY <1>8 DEF vars
  <2> QED
    BY <1>0, <2>1, SameWhole
<1>9. ASSUME NEW d \in Devices,
             \E successor \in UNION {successorRoot[b] : b \in Devices} :
               AuthorizeMigration(d, successor)
      PROVE  MaterialIsWhole'
  BY <1>5, <1>9
<1>10. CASE Next
  <2>1. PICK d \in Devices :
          \/ Create(d)
          \/ \E e \in Epochs : DiscardExpired(d, e)
          \/ \E e \in Epochs : RollEpoch(d, e)
          \/ CreateSuccessorRoot(d)
          \/ \E successor \in UNION {successorRoot[b] : b \in Devices} :
               AuthorizeMigration(d, successor)
          \/ \E handoff \in handoffs : CompleteMigration(d, handoff)
          \/ RenewInbox(d)
    BY <1>10 DEF Next
  <2> QED
    BY <1>1, <1>2, <1>3, <1>4, <1>6, <1>7, <1>9, <2>1
<1> QED
  BY <1>8, <1>10

(* Where the port refuses writes but the process lives and its unwinding   *)
(* deletes succeed, nothing is torn: three durable slots that are all      *)
(* stored open one leaf that was returned, every handoff opens one, and no *)
(* epoch key is beside another certificate or none                         *)
(* (store_credential_material and roll_epoch unwind what they wrote).      *)
THEOREM RefusalsTearNothing ==
  ASSUME Faults \subseteq {"refusal"}
  PROVE  Spec => []MaterialIsWhole
<1>1. WholeInv /\ [Next]_vars => WholeInv'
  BY WholeStep
<1>2. WholeInv => MaterialIsWhole
  BY DEF WholeInv
<1> QED
  BY <1>1, <1>2, WholeInit, PTL DEF Spec
================================================================================
