-------------------------------- MODULE Bulletin --------------------------------
(***************************************************************************)
(* What leaves the operator at an epoch boundary and what its readers make *)
(* of it: members accept and open the signed envelope                      *)
(* (nymora-protocol/src/bulletin.rs, operator/mod.rs envelope_now), anyone *)
(* audits the transparency log (operator/log.rs).                          *)
(*                                                                         *)
(* The operator keeps one branch of history if it is honest and two if it  *)
(* forks; a forking operator also signs envelopes that carry one branch's  *)
(* body with paths cut from the other.  Whoever relays envelopes loses,    *)
(* repeats, delays and recombines them, and carries those of another agora *)
(* that the same host runs with the same two secrets.                      *)
(*                                                                         *)
(* Cryptography is symbolic.  A digest, a derived key or a signature is    *)
(* the tuple it covers; a seal opens under its own key and associated data *)
(* and no other; an agreement is the unordered pair of its secrets.  A     *)
(* class root is the sequence of leaves under it, an exclusion root the    *)
(* set.  An optional result is a sequence of at most one element.          *)
(***************************************************************************)
EXTENDS Naturals, SequencesExt, FiniteSets

CONSTANTS
  Agora, Other,   \* the agora followed here, and another one of the same host
  Members,        \* one credential each
  Classes,        \* policy classes, a sequence in the operator's ascending order
  ClassOf,        \* [Members -> Range(Classes)]
  Founding,       \* leaves that land with the founding, a sequence
  MaxEpoch        \* bound: the last epoch; the first is 0

ASSUME FoundingAssumption == Founding \in Seq(Members)
ASSUME ClassesAssumption  == Classes \in Seq(Range(Classes))

Secret   == "secret"     \* AgoraState.tag_secret
Seed     == "seed"       \* AgoraState.statement_seed
LogSeed  == "logSeed"
Main     == "main"
Fork     == "fork"

VARIABLES
  branches,  \* {Main} for an honest operator, {Main, Fork} for one that forks
  past,      \* [branches -> sequence of what each epoch was fixed as]
  frozen,    \* dissolved: nothing more is signed
  holds      \* [Members -> sequence of what each accepted, with what it opened]
vars == <<branches, past, frozen, holds>>

Epoch == Len(past[Main]) - 1

-------------------------------------------------------------------------------
(* Keys and seals.                                                         *)

PublicKey(secret) == <<"public", secret>>

Agree(secret, public) == {secret, public[2]}

EphemeralSecret(agora, e) == <<"InboxEphemeral", Secret, agora, e>>
BodyKey(agora, e)         == <<"BodyKey", Secret, agora, e>>
TagKey(agora, e)          == <<"TagKey", Secret, agora, e>>
FetchKey(agora, e)        == <<"FetchKey", Secret, agora, e>>

SealContext(ephemeral, inbox, class)       == <<ephemeral, inbox, class>>
SealKey(agreed, ephemeral, inbox, class)   == <<"InboxSeal", agreed, SealContext(ephemeral, inbox, class)>>
LookupTag(agreed, ephemeral, inbox, class) == <<"InboxTag", agreed, SealContext(ephemeral, inbox, class)>>
AssociatedData(agora, e) == <<"BulletinBody", agora, e>>

Seal(key, associated, plain) == [key |-> key, associated |-> associated, plain |-> plain]
OpenSealed(key, agora, e, sealed) ==
  IF sealed.key = key /\ sealed.associated = AssociatedData(agora, e)
    THEN <<sealed.plain>> ELSE << >>

Sign(seed, message) == <<"signature", seed, message>>
SignatureVerifies(key, message, signature) == signature = Sign(key[2], message)

\* Routing tags.
RoutingTag(key, message) == <<"tag", key, message>>
Resolve(keys, message, target) ==
  LET hits == {i \in DOMAIN keys : RoutingTag(keys[i], message) = target}
  IN IF hits = {} THEN << >> ELSE <<CHOOSE i \in hits : \A j \in hits : i <= j>>

-------------------------------------------------------------------------------
(* What an epoch fixes, and the body in its canonical layout.              *)

Leaves(past_e, class) == SelectSeq(past_e.landed, LAMBDA m : ClassOf[m] = class)
Position(past_e, m)   == CHOOSE i \in DOMAIN Leaves(past_e, ClassOf[m]) : Leaves(past_e, ClassOf[m])[i] = m

Body(agora, e, past_e) ==
  [epoch |-> e,
   class_roots |-> [i \in DOMAIN Classes |-> <<Classes[i], Leaves(past_e, Classes[i])>>],
   revocation_root |-> past_e.revoked, spend_root |-> past_e.spent,
   revoked |-> SetToSeq(past_e.revoked), spent |-> SetToSeq(past_e.spent),
   tag_key |-> TagKey(agora, e), fetch_key |-> FetchKey(agora, e)]

\* Words stand for the fixed-width fields.
Encode(b) ==
  <<b.epoch, Len(b.class_roots)>> \o FlattenSeq(b.class_roots)
  \o <<b.revocation_root, b.spend_root>>
  \o <<Len(b.revoked)>> \o b.revoked \o <<Len(b.spent)>> \o b.spent
  \o <<b.tag_key, b.fetch_key>>

(* The counts are read, then what they announce must be there and nothing  *)
(* may be left over.                                                       *)
ParseBody(e, plain) ==
  LET classes == plain[2]
      roots   == 2 + 2 * classes
      revoked == plain[roots + 3]
      spent   == plain[roots + 4 + revoked]
      keys    == roots + 4 + revoked + spent
  IN IF plain[1] = e /\ Len(plain) = keys + 2
       THEN <<[epoch |-> e,
               class_roots |-> [i \in 1..classes |-> <<plain[2 * i + 1], plain[2 * i + 2]>>],
               revocation_root |-> plain[roots + 1], spend_root |-> plain[roots + 2],
               revoked |-> SubSeq(plain, roots + 4, roots + 3 + revoked),
               spent |-> SubSeq(plain, roots + 5 + revoked, keys),
               tag_key |-> plain[keys + 1], fetch_key |-> plain[keys + 2]]>>
       ELSE << >>

OpenBody(key, agora, e, sealed) ==
  LET opened == OpenSealed(key, agora, e, sealed)
  IN IF opened = << >> THEN << >> ELSE ParseBody(e, opened[1])

ClassRoot(view, class) ==
  LET named == SelectSeq(view.class_roots, LAMBDA pair : pair[1] = class)
  IN IF named = << >> THEN << >> ELSE <<named[1][2]>>

\* verifies: the path's siblings reproduce the root around the leaf at its position.
Reproduces(path, m, root) == path.siblings = root /\ root[path.position] = m

-------------------------------------------------------------------------------
(* The log.                                                                *)

EntriesOf(e, past_e) ==
  [i \in DOMAIN Classes |-> [kind |-> "ClassRoot", epoch |-> e, of |-> <<Classes[i], Leaves(past_e, Classes[i])>>]]
  \o <<[kind |-> "ExclusionRoots", epoch |-> e, of |-> <<past_e.revoked, past_e.spent>>]>>

Entries(b, e) == FlattenSeq([i \in 1..(e + 1) |-> EntriesOf(i - 1, past[b][i])])

Log(b) ==
  Entries(b, Epoch)
  \o (IF frozen THEN <<[kind |-> "Frozen", epoch |-> Epoch, of |-> << >>]>> ELSE << >>)

\* Faulty: each digest covers its own entry only.
FaultyChainStep(prev, entry) == <<"TransparencyEntry", << >>, entry>>
ChainStep(prev, entry) == <<"TransparencyEntry", prev, entry>>

\* The chained digest after each entry.
Chain(entries) ==
  LET digest[i \in 0..Len(entries)] ==
        IF i = 0 THEN << >> ELSE ChainStep(digest[i - 1], entries[i])
  IN [i \in DOMAIN entries |-> digest[i]]

HeadMessage(sequence, head) == <<"TransparencyHead", sequence, head>>

\* One signed head per entry.
Heads(entries) ==
  LET chain == Chain(entries)
  IN [i \in DOMAIN entries |->
        [sequence |-> i - 1, head |-> chain[i],
         signature |-> Sign(LogSeed, HeadMessage(i - 1, chain[i]))]]

LogKey == PublicKey(LogSeed)

HeadVerifies(head, key) ==
  SignatureVerifies(key, HeadMessage(head.sequence, head.head), head.signature)

VerifyLog(entries, heads, key) ==
  LET chain == Chain(entries)
  IN \A head \in heads :
       /\ head.sequence + 1 \in DOMAIN entries
       /\ chain[head.sequence + 1] = head.head
       /\ HeadVerifies(head, key)

Equivocation(a, b, key) ==
  /\ a.sequence = b.sequence /\ a.head /= b.head
  /\ HeadVerifies(a, key) /\ HeadVerifies(b, key)

\* Faulty: two entries of one epoch count as a rewind.
FaultyConforms(entries) ==
  \A i, j \in DOMAIN entries :
    i < j => entries[i].epoch < entries[j].epoch /\ entries[i].kind /= "Frozen"
Conforms(entries) ==
  \A i, j \in DOMAIN entries :
    i < j => entries[i].epoch <= entries[j].epoch /\ entries[i].kind /= "Frozen"

-------------------------------------------------------------------------------
(* The envelope.                                                           *)

\* Faulty: one digest whatever the body.
FaultyDigest(agora, env) ==
  <<"Bulletin", agora, env.epoch, env.ephemeral, env.ciphertexts, env.head>>
Digest(agora, env) ==
  <<"Bulletin", agora, env.epoch, env.ephemeral, env.body,
    <<"EnvelopeCiphertexts", env.ciphertexts>>, env.head>>

StatementKey == PublicKey(Seed)
InboxSecret(m) == <<"inbox", m>>

\* Faulty: revoked leaves are served too.
FaultyServed(past_e) == past_e.live
Served(past_e) == past_e.live \ past_e.revoked

(* One ciphertext per served credential: the body key, the position, the   *)
(* path.                                                                   *)
CiphertextFor(m, agora, e, past_e) ==
  LET secret    == EphemeralSecret(agora, e)
      ephemeral == PublicKey(secret)
      inbox     == PublicKey(InboxSecret(m))
      agreed    == Agree(secret, inbox)
  IN [tag |-> LookupTag(agreed, ephemeral, inbox, ClassOf[m]),
      bytes |-> Seal(SealKey(agreed, ephemeral, inbox, ClassOf[m]), AssociatedData(agora, e),
                     [body_key |-> BodyKey(agora, e), position |-> Position(past_e, m),
                      siblings |-> Leaves(past_e, ClassOf[m])])]

(* The envelope of an epoch: the body and head of branch b, the paths of   *)
(* branch p, which an honest operator has only one of.                     *)
EnvelopeOf(agora, e, b, p) ==
  LET env == [epoch |-> e, ephemeral |-> PublicKey(EphemeralSecret(agora, e)),
              body |-> Seal(BodyKey(agora, e), AssociatedData(agora, e),
                            Encode(Body(agora, e, past[b][e + 1]))),
              ciphertexts |-> {CiphertextFor(m, agora, e, past[p][e + 1]) : m \in Served(past[p][e + 1])},
              head |-> Last(Heads(Entries(b, e))), signature |-> << >>]
  IN [env EXCEPT !.signature = Sign(Seed, Digest(agora, env))]

Published(agora) == {EnvelopeOf(agora, e, b, p) : e \in 0..Epoch, b \in branches, p \in branches}

(* What relays can put together: an envelope, or one with a field of       *)
(* another.                                                                *)
Relayed(one, another, field) == [one EXCEPT ![field] = another[field]]
Fields == {"epoch", "body", "ciphertexts", "head"}

EnvelopeVerifies(key, agora, env) == SignatureVerifies(key, Digest(agora, env), env.signature)

\* Faulty: any epoch will do.
FaultyAccepts(key, agora, env, current) == EnvelopeVerifies(key, agora, env)
Accepts(key, agora, env, current) ==
  /\ \A e \in current : env.epoch > e
  /\ EnvelopeVerifies(key, agora, env)

EnvelopeEquivocation(key, agora, a, b) ==
  /\ a.epoch = b.epoch /\ Digest(agora, a) /= Digest(agora, b)
  /\ EnvelopeVerifies(key, agora, a) /\ EnvelopeVerifies(key, agora, b)

(* A member's own ciphertext, found by its tag and opened.                 *)
OwnCiphertext(m, agora, env) ==
  LET inbox   == PublicKey(InboxSecret(m))
      agreed  == Agree(InboxSecret(m), env.ephemeral)
      tagged  == {ct \in env.ciphertexts :
                    ct.tag = LookupTag(agreed, env.ephemeral, inbox, ClassOf[m])}
  IN IF tagged = {} THEN << >>
     ELSE OpenSealed(SealKey(agreed, env.ephemeral, inbox, ClassOf[m]), agora, env.epoch,
                     (CHOOSE ct \in tagged : TRUE).bytes)

(* The view a member makes of an envelope: its own ciphertext, the body    *)
(* with the key that carried, and a path that reproduces the body's root.  *)
Opened(m, agora, env) ==
  LET own  == OwnCiphertext(m, agora, env)
      view == IF own = << >> THEN << >>
              ELSE OpenBody(own[1].body_key, agora, env.epoch, env.body)
  IN IF view = << >> THEN << >>
     ELSE LET root == ClassRoot(view[1], ClassOf[m])
          IN IF root /= << >> /\ Reproduces(own[1], m, root[1]) THEN view ELSE << >>

-------------------------------------------------------------------------------
Init ==
  /\ branches \in {{Main}, {Main, Fork}}
  /\ past = [b \in branches |-> <<[landed |-> Founding, revoked |-> {}, spent |-> {},
                                    live |-> Range(Founding)]>>]
  /\ frozen = FALSE
  /\ holds = [m \in Members |-> << >>]

(* What a boundary may change: one leaf lands, is revoked, is consumed by  *)
(* a migration, or lets its inbox registration lapse - or nothing.         *)
After(past_e) ==
  LET steady == [past_e EXCEPT !.live = Range(past_e.landed) \ past_e.spent]
  IN {steady}
     \cup {[steady EXCEPT !.landed = Append(@, m), !.live = @ \cup {m}] :
             m \in Members \ Range(past_e.landed)}
     \cup {[steady EXCEPT !.revoked = @ \cup {m}] : m \in Range(past_e.landed)}
     \cup {[steady EXCEPT !.spent = @ \cup {m}, !.live = @ \ {m}] :
             m \in Range(past_e.landed) \ past_e.revoked}
     \cup {[steady EXCEPT !.live = @ \ {m}] : m \in Range(past_e.landed)}

AdvanceEpoch ==
  /\ ~frozen /\ Epoch < MaxEpoch
  /\ \E main \in After(Last(past[Main])) :
       IF branches = {Main}
         THEN past' = [past EXCEPT ![Main] = Append(@, main)]
         ELSE \E fork \in After(Last(past[Fork])) :
                past' = [past EXCEPT ![Main] = Append(@, main), ![Fork] = Append(@, fork)]
  /\ UNCHANGED <<branches, frozen, holds>>

Dissolve ==
  /\ ~frozen /\ frozen' = TRUE
  /\ UNCHANGED <<branches, past, holds>>

(* A member's host handles an envelope: nothing is kept unless every step  *)
(* succeeds.                                                               *)
Current(m) == IF holds[m] = << >> THEN {} ELSE {Last(holds[m]).env.epoch}

Receive(m, env) ==
  /\ Accepts(StatementKey, Agora, env, Current(m))
  /\ LET view == Opened(m, Agora, env)
     IN /\ view /= << >>
        /\ holds' = [holds EXCEPT ![m] = Append(@, [env |-> env, view |-> view[1]])]
  /\ UNCHANGED <<branches, past, frozen>>

Next ==
  \/ AdvanceEpoch \/ Dissolve
  \/ LET all == Published(Agora) \cup Published(Other)
     IN \E one, another \in all, field \in Fields, m \in Members :
          Receive(m, Relayed(one, another, field))

Spec == Init /\ [][Next]_vars

-------------------------------------------------------------------------------
(* Properties.                                                             *)

Honest == branches = {Main}
Held(m) == Range(holds[m])

(* The single-body rule: members who see an epoch differently hold, in the *)
(* two envelopes they accepted, a proof of the fork that anyone can check. *)
EnvelopesForkProvably ==
  \A m, n \in Members : \A h \in Held(m), k \in Held(n) :
    h.env.epoch = k.env.epoch /\ h.view /= k.view =>
      EnvelopeEquivocation(StatementKey, Agora, h.env, k.env)

(* An honest operator's member is equipped with an epoch only from the     *)
(* envelope published for its own agora, sees exactly what that epoch was  *)
(* fixed as, and only where it was to be served: a revoked leaf or a       *)
(* lapsed registration gets nothing, however envelopes are recombined.     *)
(* The routing tags it resolves are those of the epochs it was served in.  *)
EquippedAsPublished ==
  Honest => \A m \in Members :
    /\ \A h \in Held(m) :
         LET past_e == past[Main][h.env.epoch + 1]
         IN /\ h.env = EnvelopeOf(Agora, h.env.epoch, Main, Main)
            /\ h.view = Body(Agora, h.env.epoch, past_e)
            /\ m \in past_e.live \ past_e.revoked
    /\ \A e \in 0..Epoch :
         LET keys == [i \in DOMAIN holds[m] |-> holds[m][i].view.tag_key]
         IN Resolve(keys, "message", RoutingTag(TagKey(Agora, e), "message")) /= << >>
              => m \notin past[Main][e + 1].revoked

(* A repeated or delayed envelope never takes a member back: the epochs it *)
(* holds strictly increase, and what was excluded stays excluded.          *)
ViewsOnlyAdvance ==
  \A m \in Members : \A i, j \in DOMAIN holds[m] : i < j =>
    /\ holds[m][i].env.epoch < holds[m][j].env.epoch
    /\ Honest => Range(holds[m][i].view.revoked) \subseteq Range(holds[m][j].view.revoked)

(* What follows says nothing of what members hold: it is evaluated where   *)
(* nobody has received anything yet, which every history has a state of.   *)
Unread == \A m \in Members : holds[m] = << >>

(* An honest operator is never accused: no two envelopes anyone can put    *)
(* together are a fork, no two of its heads are, and every cut of its log  *)
(* passes both audits.                                                     *)
HonestNeverAccused ==
  Honest /\ Unread =>
    /\ LET all == Published(Agora) \cup Published(Other)
       IN \A one, another, served \in all : \A field \in Fields :
            ~EnvelopeEquivocation(StatementKey, Agora, Relayed(one, another, field), served)
    /\ LET log == Log(Main) IN
       /\ \A a, b \in Range(Heads(log)) : ~Equivocation(a, b, LogKey)
       /\ \A n \in 0..Len(log) :
            /\ Conforms(SubSeq(log, 1, n))
            /\ VerifyLog(SubSeq(log, 1, n), Range(Heads(SubSeq(log, 1, n))), LogKey)

(* Two auditors whose newest verified heads have the same number have      *)
(* verified the same entries up to there, or those two heads prove a fork: *)
(* a log shortened, reordered or rewritten verifies under no head.         *)
Doctored(log) ==
  {log} \cup {RemoveAt(log, i) : i \in DOMAIN log} \cup {Reverse(log)}

LogsForkProvably ==
  Unread =>
    LET logs     == UNION {Doctored(Log(b)) : b \in branches}
        heads    == UNION {Range(Heads(Log(b))) : b \in branches}
        verified == UNION {{[log |-> log, head |-> h] : h \in {k \in heads : VerifyLog(log, {k}, LogKey)}}
                             : log \in logs}
    IN \A v, w \in verified :
         v.head.sequence = w.head.sequence =>
           \/ SubSeq(v.log, 1, v.head.sequence + 1) = SubSeq(w.log, 1, w.head.sequence + 1)
           \/ Equivocation(v.head, w.head, LogKey)

(* An operator that shows one thing to some and another to others has      *)
(* signed the proof of it: its members hold it in their envelopes, its     *)
(* auditors in their heads.                                                *)
ForksAreProvable == EnvelopesForkProvably /\ LogsForkProvably
===============================================================================
