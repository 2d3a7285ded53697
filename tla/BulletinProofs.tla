----------------------------- MODULE BulletinProofs -----------------------------
(***************************************************************************)
(* What Bulletin promises, for any members, classes, founding and number   *)
(* of epochs, whatever the operator signs and the relays recombine.        *)
(*                                                                         *)
(* First what its operators compute: a chained digest binds a log, a       *)
(* sealed body opens to what was sealed, a signature binds an envelope.    *)
(***************************************************************************)
EXTENDS Bulletin, SequenceLemmas

-------------------------------------------------------------------------------
(* The chained digest.                                                     *)

LEMMA ChainStepInjective ==
  ASSUME NEW a, NEW b, NEW x, NEW y, ChainStep(a, x) = ChainStep(b, y)
  PROVE  a = b /\ x = y
BY DEF ChainStep

(* The function the chain is read from exists.                             *)
LEMMA ChainUnfolds ==
  ASSUME NEW entries, IsSequence(entries)
  PROVE  \E d : /\ d = [i \in 0..Len(entries) |->
                          IF i = 0 THEN << >> ELSE ChainStep(d[i - 1], entries[i])]
                /\ Chain(entries) = [i \in DOMAIN entries |-> d[i]]
<1> DEFINE Built(g, n) == g = [i \in 0..n |-> IF i = 0 THEN << >> ELSE ChainStep(g[i - 1], entries[i])]
           S == {n \in Nat : \E g : Built(g, n)}
<1>1. Nat \subseteq S
  <2>1. 0 \in S
    <3>1. Built([i \in 0..0 |-> << >>], 0)
      OBVIOUS
    <3> QED
      BY <3>1
  <2>2. ASSUME NEW n \in Nat, n \in S PROVE n + 1 \in S
    <3>1. PICK g : Built(g, n)
      BY <2>2
    <3> DEFINE h == [i \in 0..n + 1 |->
                       IF i = 0 THEN << >>
                       ELSE IF i = n + 1 THEN ChainStep(g[n], entries[i]) ELSE g[i]]
    <3>2. ASSUME NEW i \in 0..n + 1, i # 0 PROVE h[i] = ChainStep(h[i - 1], entries[i])
      <4>1. CASE i = n + 1
        <5>0. n \in 0..n /\ n \in 0..n + 1 /\ i - 1 = n /\ n # n + 1
          BY <3>2, <4>1
        <5>1. h[i] = ChainStep(g[n], entries[i])
          BY <3>2, <4>1
        <5>2. h[n] = g[n]
          BY <3>1, <5>0
        <5> QED
          BY <5>0, <5>1, <5>2
      <4>2. CASE i # n + 1
        <5>1. i \in 0..n /\ i - 1 \in 0..n /\ i - 1 \in 0..n + 1 /\ i - 1 # n + 1
          BY <3>2, <4>2
        <5>2. h[i] = g[i] /\ g[i] = ChainStep(g[i - 1], entries[i])
          BY <3>1, <3>2, <4>2, <5>1
        <5>3. h[i - 1] = g[i - 1]
          BY <3>1, <5>1
        <5> QED
          BY <5>2, <5>3
      <4> QED
        BY <4>1, <4>2
    <3>3. h[0] = << >>
      OBVIOUS
    <3> HIDE DEF h
    <3>4. h = [i \in 0..n + 1 |-> IF i = 0 THEN << >> ELSE ChainStep(h[i - 1], entries[i])]
      BY <3>2, <3>3 DEF h
    <3>5. Built(h, n + 1)
      BY <3>4
    <3> HIDE DEF Built
    <3> QED
      BY <3>5
  <2> HIDE DEF S
  <2> QED
    BY <2>1, <2>2, Induct
<1>2. Len(entries) \in Nat
  BY SequenceShape
<1>3. \E g : Built(g, Len(entries))
  BY <1>1, <1>2
<1> DEFINE d == CHOOSE g : Built(g, Len(entries))
<1>4. Built(d, Len(entries))
  BY <1>3
<1>5. Chain(entries) = [i \in DOMAIN entries |-> d[i]]
  BY DEF Chain
<1> QED
  BY <1>4, <1>5

(* A chained digest is the digest of one sequence of entries only: logs    *)
(* whose digests agree at a place agree on everything up to there.         *)
LEMMA ChainBindsPrefix ==
  ASSUME NEW s, NEW t, IsSequence(s), IsSequence(t),
         NEW n \in 1..Len(s), n \in 1..Len(t), Chain(s)[n] = Chain(t)[n]
  PROVE  \A i \in 1..n : s[i] = t[i]
<1>1. PICK c : /\ c = [i \in 0..Len(s) |-> IF i = 0 THEN << >> ELSE ChainStep(c[i - 1], s[i])]
               /\ Chain(s) = [i \in DOMAIN s |-> c[i]]
  BY ChainUnfolds
<1>2. PICK d : /\ d = [i \in 0..Len(t) |-> IF i = 0 THEN << >> ELSE ChainStep(d[i - 1], t[i])]
               /\ Chain(t) = [i \in DOMAIN t |-> d[i]]
  BY ChainUnfolds
<1>3. /\ Len(s) \in Nat /\ Len(t) \in Nat
      /\ DOMAIN s = 1..Len(s) /\ DOMAIN t = 1..Len(t)
  BY SequenceShape
<1> DEFINE S == {k \in Nat : k <= Len(s) /\ k <= Len(t) /\ c[k] = d[k] =>
                               \A i \in 1..k : s[i] = t[i]}
<1>4. 0 \in S
  OBVIOUS
<1>5. ASSUME NEW k \in Nat, k \in S PROVE k + 1 \in S
  <2> SUFFICES ASSUME k + 1 <= Len(s), k + 1 <= Len(t), c[k + 1] = d[k + 1]
               PROVE  \A i \in 1..k + 1 : s[i] = t[i]
    OBVIOUS
  <2>1. k + 1 \in 0..Len(s) /\ k + 1 \in 0..Len(t) /\ k + 1 # 0 /\ (k + 1) - 1 = k
    BY <1>3
  <2>2. c[k + 1] = ChainStep(c[k], s[k + 1])
    BY <1>1, <2>1
  <2>3. d[k + 1] = ChainStep(d[k], t[k + 1])
    BY <1>2, <2>1
  <2>4. c[k] = d[k] /\ s[k + 1] = t[k + 1]
    <3>1. ChainStep(c[k], s[k + 1]) = ChainStep(d[k], t[k + 1])
      BY <2>2, <2>3
    <3> DEFINE a == c[k]
               b == d[k]
               x == s[k + 1]
               y == t[k + 1]
    <3>2. ChainStep(a, x) = ChainStep(b, y)
      BY <3>1
    <3> HIDE DEF a, b, x, y
    <3>3. a = b /\ x = y
      BY <3>2, ChainStepInjective
    <3> QED
      BY <3>3 DEF a, b, x, y
  <2>5. \A i \in 1..k : s[i] = t[i]
    BY <1>3, <1>5, <2>1, <2>4
  <2> QED
    BY <2>4, <2>5
<1>6. Nat \subseteq S
  <2> HIDE DEF S
  <2> QED
    BY <1>4, <1>5, Induct
<1>7. n \in Nat /\ n <= Len(s) /\ n <= Len(t) /\ c[n] = d[n]
  BY <1>1, <1>2, <1>3
<1> QED
  BY <1>6, <1>7

-------------------------------------------------------------------------------
(* The body, encoded and opened again.                                     *)

LaidOut(b, c, r, p) ==
  /\ IsSequence(b.class_roots) /\ c = Len(b.class_roots)
  /\ IsSequence(b.revoked) /\ r = Len(b.revoked)
  /\ IsSequence(b.spent) /\ p = Len(b.spent)
  /\ \A i \in 1..c : IsSequence(b.class_roots[i]) /\ Len(b.class_roots[i]) = 2

SpelledOut(plain, b, c, r, p) ==
  /\ Len(plain) = 2 * c + r + p + 8
  /\ plain[1] = b.epoch /\ plain[2] = c
  /\ \A i \in 1..c : /\ plain[2 * i + 1] = b.class_roots[i][1]
                     /\ plain[2 * i + 2] = b.class_roots[i][2]
  /\ plain[2 * c + 3] = b.revocation_root /\ plain[2 * c + 4] = b.spend_root
  /\ plain[2 * c + 5] = r
  /\ \A i \in 1..r : plain[2 * c + 5 + i] = b.revoked[i]
  /\ plain[2 * c + 6 + r] = p
  /\ \A i \in 1..p : plain[2 * c + 6 + r + i] = b.spent[i]
  /\ plain[2 * c + 7 + r + p] = b.tag_key
  /\ plain[2 * c + 8 + r + p] = b.fetch_key

(* Its layout: where each field of a body begins in the encoding, and that *)
(* nothing follows the last.                                               *)
LEMMA Layout ==
  ASSUME NEW b, NEW c \in Nat, NEW r \in Nat, NEW p \in Nat,
         LaidOut(b, c, r, p)
  PROVE  SpelledOut(Encode(b), b, c, r, p)
<1> DEFINE f  == FlattenSeq(b.class_roots)
           s1 == <<b.epoch, c>>
           t3 == <<b.revocation_root, b.spend_root>>
           t4 == <<r>>
           t5 == b.revoked
           t6 == <<p>>
           t7 == b.spent
           t8 == <<b.tag_key, b.fetch_key>>
           s2 == s1 \o f
           s3 == s2 \o t3
           s4 == s3 \o t4
           s5 == s4 \o t5
           s6 == s5 \o t6
           s7 == s6 \o t7
           s8 == s7 \o t8
<1>1. c \in Nat /\ r \in Nat /\ p \in Nat
  OBVIOUS
<1>2. /\ IsSequence(f) /\ Len(f) = 2 * c
      /\ \A i \in 1..c : f[2 * i - 1] = b.class_roots[i][1] /\ f[2 * i] = b.class_roots[i][2]
  BY FlattenPairs DEF LaidOut
<1>3. /\ Len(s1) = 2 /\ Len(t3) = 2 /\ Len(t4) = 1 /\ Len(t5) = r
      /\ Len(t6) = 1 /\ Len(t7) = p /\ Len(t8) = 2
  BY SmallSequences DEF LaidOut
<1>9. /\ IsSequence(s1) /\ IsSequence(t3) /\ IsSequence(t4) /\ IsSequence(t5)
      /\ IsSequence(t6) /\ IsSequence(t7) /\ IsSequence(t8) /\ IsSequence(f)
  BY <1>2, SmallSequences DEF LaidOut
<1>4. Encode(b) = s8
  <2>1. c = Len(b.class_roots) /\ r = Len(b.revoked) /\ p = Len(b.spent)
    BY DEF LaidOut
  <2> QED
    BY <2>1, Zenon DEF Encode
<1>5. /\ s1[1] = b.epoch /\ s1[2] = c
      /\ t3[1] = b.revocation_root /\ t3[2] = b.spend_root
      /\ t4[1] = r /\ t6[1] = p
      /\ t8[1] = b.tag_key /\ t8[2] = b.fetch_key
  OBVIOUS
<1>6. t5 = b.revoked /\ t7 = b.spent
  OBVIOUS
<1> HIDE DEF f, s1, t3, t4, t5, t6, t7, t8
<1>b. /\ IsSequence(s2) /\ Len(s2) = Len(s1) + Len(f)
      /\ \A i \in 1..Len(s1) : s2[i] = s1[i]
      /\ \A i \in 1..Len(f) : s2[Len(s1) + i] = f[i]
  BY <1>9, ConcatShape
<1>bs. IsSequence(s2)
  BY <1>b
<1> HIDE DEF s2
<1>c. /\ IsSequence(s3) /\ Len(s3) = Len(s2) + Len(t3)
      /\ \A i \in 1..Len(s2) : s3[i] = s2[i]
      /\ \A i \in 1..Len(t3) : s3[Len(s2) + i] = t3[i]
  BY <1>bs, <1>9, ConcatShape
<1>cs. IsSequence(s3)
  BY <1>c
<1> HIDE DEF s3
<1>d. /\ IsSequence(s4) /\ Len(s4) = Len(s3) + Len(t4)
      /\ \A i \in 1..Len(s3) : s4[i] = s3[i]
      /\ \A i \in 1..Len(t4) : s4[Len(s3) + i] = t4[i]
  BY <1>cs, <1>9, ConcatShape
<1>ds. IsSequence(s4)
  BY <1>d
<1> HIDE DEF s4
<1>e. /\ IsSequence(s5) /\ Len(s5) = Len(s4) + Len(t5)
      /\ \A i \in 1..Len(s4) : s5[i] = s4[i]
      /\ \A i \in 1..Len(t5) : s5[Len(s4) + i] = t5[i]
  BY <1>ds, <1>9, ConcatShape
<1>es. IsSequence(s5)
  BY <1>e
<1> HIDE DEF s5
<1>f. /\ IsSequence(s6) /\ Len(s6) = Len(s5) + Len(t6)
      /\ \A i \in 1..Len(s5) : s6[i] = s5[i]
      /\ \A i \in 1..Len(t6) : s6[Len(s5) + i] = t6[i]
  BY <1>es, <1>9, ConcatShape
<1>fs. IsSequence(s6)
  BY <1>f
<1> HIDE DEF s6
<1>g. /\ IsSequence(s7) /\ Len(s7) = Len(s6) + Len(t7)
      /\ \A i \in 1..Len(s6) : s7[i] = s6[i]
      /\ \A i \in 1..Len(t7) : s7[Len(s6) + i] = t7[i]
  BY <1>fs, <1>9, ConcatShape
<1>gs. IsSequence(s7)
  BY <1>g
<1> HIDE DEF s7
<1>h. /\ IsSequence(s8) /\ Len(s8) = Len(s7) + Len(t8)
      /\ \A i \in 1..Len(s7) : s8[i] = s7[i]
      /\ \A i \in 1..Len(t8) : s8[Len(s7) + i] = t8[i]
  BY <1>gs, <1>9, ConcatShape
<1>hs. IsSequence(s8)
  BY <1>h
<1> HIDE DEF s8
<1>7. /\ Len(s1) = 2 /\ Len(s2) = 2 * c + 2 /\ Len(s3) = 2 * c + 4 /\ Len(s4) = 2 * c + 5
      /\ Len(s5) = 2 * c + 5 + r /\ Len(s6) = 2 * c + 6 + r
      /\ Len(s7) = 2 * c + 6 + r + p /\ Len(s8) = 2 * c + 8 + r + p
  BY <1>1, <1>2, <1>3, <1>b, <1>c, <1>d, <1>e, <1>f, <1>g, <1>h
<1>p7. \A i \in 1..2 * c + 6 + r + p : s8[i] = s7[i]
  BY <1>7, <1>h
<1>p6. \A i \in 1..2 * c + 6 + r : s8[i] = s6[i]
  BY <1>1, <1>7, <1>g, <1>p7
<1>p5. \A i \in 1..2 * c + 5 + r : s8[i] = s5[i]
  BY <1>1, <1>7, <1>f, <1>p6
<1>p4. \A i \in 1..2 * c + 5 : s8[i] = s4[i]
  BY <1>1, <1>7, <1>e, <1>p5
<1>p3. \A i \in 1..2 * c + 4 : s8[i] = s3[i]
  BY <1>1, <1>7, <1>d, <1>p4
<1>p2. \A i \in 1..2 * c + 2 : s8[i] = s2[i]
  BY <1>1, <1>7, <1>c, <1>p3
<1>p1. s8[1] = b.epoch /\ s8[2] = c
  BY <1>1, <1>5, <1>7, <1>b, <1>p2
<1>q2. ASSUME NEW i \in 1..c
       PROVE  s8[2 * i + 1] = b.class_roots[i][1] /\ s8[2 * i + 2] = b.class_roots[i][2]
  <2>1. /\ 2 * i - 1 \in 1..Len(f) /\ 2 * i \in 1..Len(f)
        /\ 2 + (2 * i - 1) = 2 * i + 1 /\ 2 + 2 * i = 2 * i + 2
        /\ 2 * i + 1 \in 1..2 * c + 2 /\ 2 * i + 2 \in 1..2 * c + 2
    BY <1>1, <1>2
  <2>2. s2[2 + (2 * i - 1)] = f[2 * i - 1] /\ s2[2 + 2 * i] = f[2 * i]
    BY <1>7, <1>b, <2>1
  <2>3. f[2 * i - 1] = b.class_roots[i][1] /\ f[2 * i] = b.class_roots[i][2]
    BY <1>2
  <2>4. s8[2 * i + 1] = s2[2 * i + 1] /\ s8[2 * i + 2] = s2[2 * i + 2]
    BY <1>p2, <2>1
  <2> QED
    BY <2>1, <2>2, <2>3, <2>4
<1>q3. s8[2 * c + 3] = b.revocation_root /\ s8[2 * c + 4] = b.spend_root
  <2>1. s3[2 * c + 2 + 1] = t3[1] /\ s3[2 * c + 2 + 2] = t3[2]
    BY <1>3, <1>7, <1>c
  <2>2. /\ 2 * c + 2 + 1 = 2 * c + 3 /\ 2 * c + 2 + 2 = 2 * c + 4
        /\ 2 * c + 3 \in 1..2 * c + 4 /\ 2 * c + 4 \in 1..2 * c + 4
    BY <1>1
  <2> QED
    BY <1>5, <1>p3, <2>1, <2>2
<1>q4. s8[2 * c + 5] = r
  <2>1. s4[2 * c + 4 + 1] = t4[1]
    BY <1>3, <1>7, <1>d
  <2>2. 2 * c + 4 + 1 = 2 * c + 5 /\ 2 * c + 5 \in 1..2 * c + 5
    BY <1>1
  <2> QED
    BY <1>5, <1>p4, <2>1, <2>2
<1>q5. ASSUME NEW i \in 1..r PROVE s8[2 * c + 5 + i] = b.revoked[i]
  <2>1. s5[2 * c + 5 + i] = t5[i]
    BY <1>3, <1>7, <1>e
  <2>2. 2 * c + 5 + i \in 1..2 * c + 5 + r
    BY <1>1
  <2> QED
    BY <1>6, <1>p5, <2>1, <2>2
<1>q6. s8[2 * c + 6 + r] = p
  <2>1. s6[2 * c + 5 + r + 1] = t6[1]
    BY <1>3, <1>7, <1>f
  <2>2. 2 * c + 5 + r + 1 = 2 * c + 6 + r /\ 2 * c + 6 + r \in 1..2 * c + 6 + r
    BY <1>1
  <2> QED
    BY <1>5, <1>p6, <2>1, <2>2
<1>q7. ASSUME NEW i \in 1..p PROVE s8[2 * c + 6 + r + i] = b.spent[i]
  <2>1. s7[2 * c + 6 + r + i] = t7[i]
    BY <1>3, <1>7, <1>g
  <2>2. 2 * c + 6 + r + i \in 1..2 * c + 6 + r + p
    BY <1>1
  <2> QED
    BY <1>6, <1>p7, <2>1, <2>2
<1>q8. s8[2 * c + 7 + r + p] = b.tag_key /\ s8[2 * c + 8 + r + p] = b.fetch_key
  <2>1. s8[2 * c + 6 + r + p + 1] = t8[1] /\ s8[2 * c + 6 + r + p + 2] = t8[2]
    BY <1>3, <1>7, <1>h
  <2>2. 2 * c + 6 + r + p + 1 = 2 * c + 7 + r + p /\ 2 * c + 6 + r + p + 2 = 2 * c + 8 + r + p
    BY <1>1
  <2> QED
    BY <1>5, <2>1, <2>2
<1>8. Len(s8) = 2 * c + r + p + 8
  BY <1>1, <1>7
<1> QED
  BY <1>1, <1>4, <1>8, <1>p1, <1>q2, <1>q3, <1>q4, <1>q5, <1>q6, <1>q7, <1>q8 DEF SpelledOut

(* A sealed body opens, under its own key, to the body that was sealed.    *)
LEMMA BodyOpens ==
  ASSUME NEW key, NEW agora, NEW e, NEW past_e,
         IsFiniteSet(past_e.revoked), IsFiniteSet(past_e.spent)
  PROVE  OpenBody(key, agora, e,
                  Seal(key, AssociatedData(agora, e), Encode(Body(agora, e, past_e))))
           = <<Body(agora, e, past_e)>>
<1> DEFINE b == Body(agora, e, past_e)
           c == Len(Classes)
           r == Len(SetToSeq(past_e.revoked))
           p == Len(SetToSeq(past_e.spent))
           plain == Encode(b)
           sealed == Seal(key, AssociatedData(agora, e), plain)
<1>1. /\ c \in Nat /\ DOMAIN Classes = 1..c
      /\ IsSequence(SetToSeq(past_e.revoked)) /\ r \in Nat
      /\ IsSequence(SetToSeq(past_e.spent)) /\ p \in Nat
  <2>1. IsSequence(Classes)
    BY ClassesAssumption DEF IsSequence
  <2> QED
    BY <2>1, SetToSeqShape, SequenceShape
<1>2. /\ b.epoch = e
      /\ b.class_roots = [i \in 1..c |-> <<Classes[i], Leaves(past_e, Classes[i])>>]
      /\ b.revocation_root = past_e.revoked /\ b.spend_root = past_e.spent
      /\ b.revoked = SetToSeq(past_e.revoked) /\ b.spent = SetToSeq(past_e.spent)
      /\ b.tag_key = TagKey(agora, e) /\ b.fetch_key = FetchKey(agora, e)
  BY <1>1 DEF Body
<1>3. IsSequence(b.class_roots) /\ Len(b.class_roots) = c
  <2>1. b.class_roots = [i \in 1..c |-> b.class_roots[i]]
    BY <1>2
  <2> QED
    BY <1>1, <2>1, FunctionIsSequence
<1>4. LaidOut(b, c, r, p)
  <2>1. ASSUME NEW i \in 1..c
        PROVE  IsSequence(b.class_roots[i]) /\ Len(b.class_roots[i]) = 2
    <3>1. b.class_roots[i] = <<Classes[i], Leaves(past_e, Classes[i])>>
      BY <1>2
    <3> QED
      BY <3>1, SmallSequences
  <2> QED
    BY <1>1, <1>2, <1>3, <2>1 DEF LaidOut
<1> HIDE DEF b, c, r, p
<1>5. /\ Len(plain) = 2 * c + r + p + 8
      /\ plain[1] = b.epoch /\ plain[2] = c
      /\ \A i \in 1..c : /\ plain[2 * i + 1] = b.class_roots[i][1]
                         /\ plain[2 * i + 2] = b.class_roots[i][2]
      /\ plain[2 * c + 3] = b.revocation_root /\ plain[2 * c + 4] = b.spend_root
      /\ plain[2 * c + 5] = r
      /\ \A i \in 1..r : plain[2 * c + 5 + i] = b.revoked[i]
      /\ plain[2 * c + 6 + r] = p
      /\ \A i \in 1..p : plain[2 * c + 6 + r + i] = b.spent[i]
      /\ plain[2 * c + 7 + r + p] = b.tag_key
      /\ plain[2 * c + 8 + r + p] = b.fetch_key
  <2>1. c \in Nat /\ r \in Nat /\ p \in Nat
    BY <1>1 DEF c, r, p
  <2>2. LaidOut(b, c, r, p)
    BY <1>4
  <2>3. SpelledOut(plain, b, c, r, p)
    BY <2>1, <2>2, Layout
  <2> HIDE DEF plain
  <2> QED
    BY <2>3 DEF SpelledOut
<1> HIDE DEF plain
<1> DEFINE roots   == 2 + 2 * plain[2]
           revoked == plain[roots + 3]
           spent   == plain[roots + 4 + revoked]
           keys    == roots + 4 + revoked + spent
<1>6. /\ roots = 2 * c + 2
      /\ revoked = r
      /\ spent = p
      /\ keys = 2 * c + 6 + r + p
  <2>1. roots = 2 * c + 2
    BY <1>1, <1>5
  <2>2. roots + 3 = 2 * c + 5
    BY <1>1, <2>1
  <2>3. revoked = r
    BY <1>5, <2>2
  <2>4. roots + 4 + revoked = 2 * c + 6 + r
    BY <1>1, <2>1, <2>3
  <2>5. spent = p
    BY <1>5, <2>4
  <2>6. keys = 2 * c + 6 + r + p
    BY <1>1, <2>1, <2>3, <2>5
  <2> QED
    BY <2>1, <2>3, <2>5, <2>6
<1>7. OpenSealed(key, agora, e, sealed) = <<plain>>
  BY DEF OpenSealed, Seal
<1>8. Len(plain) = keys + 2 /\ plain[1] = e
  BY <1>1, <1>2, <1>5, <1>6
<1> DEFINE view == [epoch |-> e,
                    class_roots |-> [i \in 1..plain[2] |-> <<plain[2 * i + 1], plain[2 * i + 2]>>],
                    revocation_root |-> plain[roots + 1], spend_root |-> plain[roots + 2],
                    revoked |-> SubSeq(plain, roots + 4, roots + 3 + revoked),
                    spent |-> SubSeq(plain, roots + 5 + revoked, keys),
                    tag_key |-> plain[keys + 1], fetch_key |-> plain[keys + 2]]
<1>9. OpenBody(key, agora, e, sealed) = <<view>>
  <2>1. OpenBody(key, agora, e, sealed) = ParseBody(e, plain)
    <3> DEFINE opened == OpenSealed(key, agora, e, sealed)
    <3>1. opened # << >> /\ opened[1] = plain
      BY <1>7
    <3> QED
      BY <3>1, Zenon DEF OpenBody
  <2>2. ParseBody(e, plain) = <<view>>
    BY <1>8, Zenon DEF ParseBody
  <2> QED
    BY <2>1, <2>2
<1> HIDE DEF roots, revoked, spent, keys
<1>n. c \in Nat /\ r \in Nat /\ p \in Nat
  BY <1>1
<1>10. [i \in 1..plain[2] |-> <<plain[2 * i + 1], plain[2 * i + 2]>>] = b.class_roots
  <2>1. ASSUME NEW i \in 1..c
        PROVE  <<plain[2 * i + 1], plain[2 * i + 2]>> = <<Classes[i], Leaves(past_e, Classes[i])>>
    BY <1>2, <1>5
  <2> QED
    BY <1>2, <1>5, <2>1
<1>11. /\ plain[roots + 1] = b.revocation_root /\ plain[roots + 2] = b.spend_root
       /\ plain[keys + 1] = b.tag_key /\ plain[keys + 2] = b.fetch_key
  <2>1. /\ roots + 1 = 2 * c + 3 /\ roots + 2 = 2 * c + 4
        /\ keys + 1 = 2 * c + 7 + r + p /\ keys + 2 = 2 * c + 8 + r + p
    BY <1>n, <1>6
  <2> QED
    BY <1>5, <2>1
<1>12. SubSeq(plain, roots + 4, roots + 3 + revoked) = b.revoked
  <2>1. roots + 4 = (2 * c + 5) + 1 /\ roots + 3 + revoked = (2 * c + 5) + r /\ 2 * c + 5 \in Nat
    BY <1>n, <1>6
  <2>2. IsSequence(b.revoked) /\ Len(b.revoked) = r
    BY <1>1, <1>2 DEF r
  <2>3. SubSeq(plain, (2 * c + 5) + 1, (2 * c + 5) + Len(b.revoked)) = b.revoked
    <3> DEFINE k == 2 * c + 5
               t == b.revoked
    <3>1. k \in Nat /\ IsSequence(t) /\ \A i \in 1..Len(t) : plain[k + i] = t[i]
      BY <1>5, <2>1, <2>2
    <3> HIDE DEF k, t
    <3>2. SubSeq(plain, k + 1, k + Len(t)) = t
      BY <3>1, SliceIs
    <3> QED
      BY <3>2 DEF k, t
  <2> QED
    BY <2>1, <2>2, <2>3
<1>13. SubSeq(plain, roots + 5 + revoked, keys) = b.spent
  <2>1. roots + 5 + revoked = (2 * c + 6 + r) + 1 /\ keys = (2 * c + 6 + r) + p /\ 2 * c + 6 + r \in Nat
    BY <1>n, <1>6
  <2>2. IsSequence(b.spent) /\ Len(b.spent) = p
    BY <1>1, <1>2 DEF p
  <2>3. SubSeq(plain, (2 * c + 6 + r) + 1, (2 * c + 6 + r) + Len(b.spent)) = b.spent
    <3> DEFINE k == 2 * c + 6 + r
               t == b.spent
    <3>1. k \in Nat /\ IsSequence(t) /\ \A i \in 1..Len(t) : plain[k + i] = t[i]
      BY <1>5, <2>1, <2>2
    <3> HIDE DEF k, t
    <3>2. SubSeq(plain, k + 1, k + Len(t)) = t
      BY <3>1, SliceIs
    <3> QED
      BY <3>2 DEF k, t
  <2> QED
    BY <2>1, <2>2, <2>3
<1>14. view = b
  <2>1. b = [epoch |-> e, class_roots |-> b.class_roots,
             revocation_root |-> b.revocation_root, spend_root |-> b.spend_root,
             revoked |-> b.revoked, spent |-> b.spent,
             tag_key |-> b.tag_key, fetch_key |-> b.fetch_key]
    BY DEF b, Body
  <2> QED
    BY <1>10, <1>11, <1>12, <1>13, <2>1
<1> QED
  BY <1>9, <1>14 DEF b, plain

-------------------------------------------------------------------------------
(* Envelopes.                                                              *)

EnvelopeShape(agora, e, b, p, env) ==
  /\ env.epoch = e
  /\ env.ephemeral = PublicKey(EphemeralSecret(agora, e))
  /\ env.body = Seal(BodyKey(agora, e), AssociatedData(agora, e), Encode(Body(agora, e, past[b][e + 1])))
  /\ env.ciphertexts = {CiphertextFor(m, agora, e, past[p][e + 1]) : m \in Served(past[p][e + 1])}
  /\ env.signature = Sign(Seed, Digest(agora, env))
  /\ env = [epoch |-> env.epoch, ephemeral |-> env.ephemeral, body |-> env.body,
            ciphertexts |-> env.ciphertexts, head |-> env.head, signature |-> env.signature]

LEMMA EnvelopeFields ==
  ASSUME NEW agora, NEW e, NEW b, NEW p
  PROVE  EnvelopeShape(agora, e, b, p, EnvelopeOf(agora, e, b, p))
<1> DEFINE eph    == PublicKey(EphemeralSecret(agora, e))
           body   == Seal(BodyKey(agora, e), AssociatedData(agora, e), Encode(Body(agora, e, past[b][e + 1])))
           cts    == {CiphertextFor(m, agora, e, past[p][e + 1]) : m \in Served(past[p][e + 1])}
           head   == Last(Heads(Entries(b, e)))
           blank  == [epoch |-> e, ephemeral |-> eph, body |-> body,
                      ciphertexts |-> cts, head |-> head, signature |-> << >>]
           env    == [blank EXCEPT !.signature = Sign(Seed, Digest(agora, blank))]
<1>1. EnvelopeOf(agora, e, b, p) = env
  BY DEF EnvelopeOf
<1> HIDE DEF eph, body, cts, head
<1>2. /\ env.epoch = e /\ env.ephemeral = eph /\ env.body = body
      /\ env.ciphertexts = cts /\ env.head = head
      /\ env.signature = Sign(Seed, Digest(agora, blank))
      /\ env = [epoch |-> env.epoch, ephemeral |-> env.ephemeral, body |-> env.body,
                ciphertexts |-> env.ciphertexts, head |-> env.head, signature |-> env.signature]
  OBVIOUS
<1>3. Digest(agora, env) = Digest(agora, blank)
  BY <1>2 DEF Digest
<1> HIDE DEF env, blank
<1> QED
  BY <1>1, <1>2, <1>3 DEF EnvelopeShape, eph, body, cts

LEMMA DigestInjective ==
  ASSUME NEW a, NEW b, NEW x, NEW y, Digest(a, x) = Digest(b, y)
  PROVE  /\ a = b /\ x.epoch = y.epoch /\ x.ephemeral = y.ephemeral
         /\ x.body = y.body /\ x.ciphertexts = y.ciphertexts /\ x.head = y.head
BY DEF Digest

LEMMA VerifiesIsSigned ==
  ASSUME NEW agora, NEW env
  PROVE  EnvelopeVerifies(StatementKey, agora, env)
           <=> env.signature = Sign(Seed, Digest(agora, env))
BY DEF EnvelopeVerifies, StatementKey, SignatureVerifies, PublicKey

LEMMA SignInjective ==
  ASSUME NEW seed, NEW x, NEW y, Sign(seed, x) = Sign(seed, y)
  PROVE  x = y
BY DEF Sign

(* Whatever relays put in place of a field, only what was published for    *)
(* this agora verifies.                                                    *)
LEMMA OnlyPublishedVerifies ==
  ASSUME NEW agora, NEW e, NEW b, NEW p, NEW another, NEW field \in Fields,
         EnvelopeVerifies(StatementKey, Agora, Relayed(EnvelopeOf(agora, e, b, p), another, field))
  PROVE  /\ agora = Agora
         /\ Relayed(EnvelopeOf(agora, e, b, p), another, field) = EnvelopeOf(agora, e, b, p)
<1> DEFINE one == EnvelopeOf(agora, e, b, p)
           env == Relayed(one, another, field)
<1>1. EnvelopeShape(agora, e, b, p, one)
  BY EnvelopeFields
<1> HIDE DEF one
<1>2. /\ one.signature = Sign(Seed, Digest(agora, one))
      /\ one = [epoch |-> one.epoch, ephemeral |-> one.ephemeral, body |-> one.body,
                ciphertexts |-> one.ciphertexts, head |-> one.head, signature |-> one.signature]
  BY <1>1 DEF EnvelopeShape
<1>3. env = [one EXCEPT ![field] = another[field]] /\ field \in {"epoch", "body", "ciphertexts", "head"}
  BY DEF Relayed, Fields
<1>4. env.signature = one.signature
  BY <1>2, <1>3
<1>5. env.signature = Sign(Seed, Digest(Agora, env))
  BY VerifiesIsSigned DEF one
<1> HIDE DEF env
<1>6. Digest(Agora, env) = Digest(agora, one)
  BY <1>2, <1>4, <1>5, SignInjective
<1>7. /\ Agora = agora /\ env.epoch = one.epoch /\ env.body = one.body
      /\ env.ciphertexts = one.ciphertexts /\ env.head = one.head
  BY <1>6, DigestInjective
<1>8. env = one
  <2>1. CASE field = "epoch"
    BY <1>2, <1>3, <1>7, <2>1
  <2>2. CASE field = "body"
    BY <1>2, <1>3, <1>7, <2>2
  <2>3. CASE field = "ciphertexts"
    BY <1>2, <1>3, <1>7, <2>3
  <2>4. CASE field = "head"
    BY <1>2, <1>3, <1>7, <2>4
  <2> QED
    BY <1>3, <2>1, <2>2, <2>3, <2>4
<1> QED
  BY <1>7, <1>8 DEF env, one

(* A tag a member recognises was made for its own inbox key.               *)
LEMMA TagIsOwn ==
  ASSUME NEW a, NEW x, NEW m, NEW k, NEW b, NEW y, NEW n, NEW l,
         LookupTag(a, x, PublicKey(InboxSecret(m)), k) = LookupTag(b, y, PublicKey(InboxSecret(n)), l)
  PROVE  m = n
<1>1. SealContext(x, PublicKey(InboxSecret(m)), k) = SealContext(y, PublicKey(InboxSecret(n)), l)
  BY DEF LookupTag
<1>2. PublicKey(InboxSecret(m)) = PublicKey(InboxSecret(n))
  BY <1>1 DEF SealContext
<1> QED
  BY <1>2 DEF PublicKey, InboxSecret

(* What a member opens is its own ciphertext, and it carries the body key. *)
LEMMA OwnIsServed ==
  ASSUME NEW m, NEW e, NEW b, NEW p,
         OwnCiphertext(m, Agora, EnvelopeOf(Agora, e, b, p)) # << >>
  PROVE  /\ m \in Served(past[p][e + 1])
         /\ OwnCiphertext(m, Agora, EnvelopeOf(Agora, e, b, p))[1].body_key = BodyKey(Agora, e)
<1> DEFINE env     == EnvelopeOf(Agora, e, b, p)
           inbox   == PublicKey(InboxSecret(m))
           agreed  == Agree(InboxSecret(m), env.ephemeral)
           tagged  == {ct \in env.ciphertexts :
                         ct.tag = LookupTag(agreed, env.ephemeral, inbox, ClassOf[m])}
           ct      == CHOOSE ct \in tagged : TRUE
           opened  == OpenSealed(SealKey(agreed, env.ephemeral, inbox, ClassOf[m]), Agora, env.epoch, ct.bytes)
<1>a. EnvelopeShape(Agora, e, b, p, env)
  BY EnvelopeFields
<1> HIDE DEF env
<1>1. env.ciphertexts = {CiphertextFor(n, Agora, e, past[p][e + 1]) : n \in Served(past[p][e + 1])}
  BY <1>a, Zenon DEF EnvelopeShape
<1>2. tagged # {} /\ OwnCiphertext(m, Agora, env) = opened
  BY DEF OwnCiphertext, env
<1>3. ct \in env.ciphertexts /\ ct.tag = LookupTag(agreed, env.ephemeral, inbox, ClassOf[m])
  BY <1>2
<1> HIDE DEF ct, agreed
<1>4. PICK n \in Served(past[p][e + 1]) : ct = CiphertextFor(n, Agora, e, past[p][e + 1])
  BY <1>1, <1>3
<1> DEFINE ephemeral == PublicKey(EphemeralSecret(Agora, e))
           shared    == Agree(EphemeralSecret(Agora, e), PublicKey(InboxSecret(n)))
<1>5. /\ ct.tag = LookupTag(shared, ephemeral, PublicKey(InboxSecret(n)), ClassOf[n])
      /\ ct.bytes.plain.body_key = BodyKey(Agora, e)
  BY <1>4 DEF CiphertextFor, Seal
<1> HIDE DEF ephemeral, shared
<1>6. m = n
  <2>1. LookupTag(agreed, env.ephemeral, PublicKey(InboxSecret(m)), ClassOf[m])
          = LookupTag(shared, ephemeral, PublicKey(InboxSecret(n)), ClassOf[n])
    BY <1>3, <1>5
  <2> QED
    BY <2>1, TagIsOwn
<1>7. opened # << >> /\ opened[1] = ct.bytes.plain
  <2>1. opened # << >>
    BY <1>2 DEF env
  <2> QED
    BY <2>1 DEF OpenSealed
<1> QED
  BY <1>2, <1>4, <1>5, <1>6, <1>7 DEF env

LEMMA OpenedIsBody ==
  ASSUME NEW m, NEW agora, NEW env, Opened(m, agora, env) # << >>
  PROVE  LET own == OwnCiphertext(m, agora, env)
         IN  own # << >> /\ Opened(m, agora, env) = OpenBody(own[1].body_key, agora, env.epoch, env.body)
<1> DEFINE own  == OwnCiphertext(m, agora, env)
           view == IF own = << >> THEN << >>
                   ELSE OpenBody(own[1].body_key, agora, env.epoch, env.body)
<1>1. view # << >> /\ Opened(m, agora, env) = view
  BY Zenon DEF Opened
<1> QED
  BY <1>1, Zenon

(* Two readers of one body see one view, whatever keys they were given.    *)
LEMMA OneBodyOneView ==
  ASSUME NEW k, NEW l, NEW agora, NEW e, NEW sealed,
         OpenBody(k, agora, e, sealed) # << >>, OpenBody(l, agora, e, sealed) # << >>
  PROVE  OpenBody(k, agora, e, sealed) = OpenBody(l, agora, e, sealed)
<1>1. ASSUME NEW key, OpenBody(key, agora, e, sealed) # << >>
      PROVE  OpenBody(key, agora, e, sealed) = ParseBody(e, sealed.plain)
  <2>1. OpenSealed(key, agora, e, sealed) # << >>
    BY <1>1, Zenon DEF OpenBody
  <2>2. OpenSealed(key, agora, e, sealed)[1] = sealed.plain
    BY <2>1 DEF OpenSealed
  <2> QED
    BY <2>1, <2>2, Zenon DEF OpenBody
<1> QED
  BY <1>1

(* A member makes of a published envelope exactly what the epoch was fixed *)
(* as, and only if it was to be served.                                    *)
LEMMA OpenedIsFixed ==
  ASSUME NEW m, NEW e, NEW b, NEW p,
         IsFiniteSet(past[b][e + 1].revoked), IsFiniteSet(past[b][e + 1].spent),
         Opened(m, Agora, EnvelopeOf(Agora, e, b, p)) # << >>
  PROVE  /\ m \in Served(past[p][e + 1])
         /\ Opened(m, Agora, EnvelopeOf(Agora, e, b, p)) = <<Body(Agora, e, past[b][e + 1])>>
<1> DEFINE env == EnvelopeOf(Agora, e, b, p)
           own == OwnCiphertext(m, Agora, env)
<1>1. own # << >> /\ Opened(m, Agora, env) = OpenBody(own[1].body_key, Agora, env.epoch, env.body)
  BY OpenedIsBody
<1>2. m \in Served(past[p][e + 1]) /\ own[1].body_key = BodyKey(Agora, e)
  BY <1>1, OwnIsServed
<1>3. /\ env.epoch = e
      /\ env.body = Seal(BodyKey(Agora, e), AssociatedData(Agora, e), Encode(Body(Agora, e, past[b][e + 1])))
  BY EnvelopeFields DEF EnvelopeShape
<1> HIDE DEF env, own
<1>4. Opened(m, Agora, env) = <<Body(Agora, e, past[b][e + 1])>>
  BY <1>1, <1>2, <1>3, BodyOpens
<1> QED
  BY <1>2, <1>4 DEF env

-------------------------------------------------------------------------------
(* The inductive invariant.                                                *)

Fixed == [landed : Seq(Members), revoked : SUBSET Members,
          spent : SUBSET Members, live : SUBSET Members]

(* What is fixed stays, finite and with exclusions that only grow, and the *)
(* branches of a fork are equally long.                                    *)
HistoryOK ==
  /\ branches \in {{Main}, {Main, Fork}} /\ frozen \in BOOLEAN
  /\ past \in [branches -> Seq(Fixed)]
  /\ \A b \in branches : Len(past[b]) = Len(past[Main])
  /\ Len(past[Main]) \in Nat \ {0}
  /\ \A b \in branches : \A i \in 1..Len(past[b]) :
       /\ IsFiniteSet(past[b][i].revoked) /\ IsFiniteSet(past[b][i].spent)
       /\ \A j \in 1..Len(past[b]) : i <= j => past[b][i].revoked \subseteq past[b][j].revoked

(* What a member holds was published for this agora and opened by it, in   *)
(* increasing epochs.                                                      *)
Accepted(m, h) ==
  /\ h.env.epoch \in 0..Epoch
  /\ \E b, p \in branches : h.env = EnvelopeOf(Agora, h.env.epoch, b, p)
  /\ Opened(m, Agora, h.env) # << >>
  /\ h.view = Opened(m, Agora, h.env)[1]

Increasing(s) == \A i, j \in 1..Len(s) : i < j => s[i].env.epoch < s[j].env.epoch

HoldingsOK ==
  /\ holds = [m \in Members |-> holds[m]]
  /\ \A m \in Members :
       /\ IsSequence(holds[m])
       /\ \A i \in 1..Len(holds[m]) : Accepted(m, holds[m][i])
       /\ Increasing(holds[m])

IInv == HistoryOK /\ HoldingsOK

-------------------------------------------------------------------------------
(* Histories.                                                              *)

LEMMA AfterOK ==
  ASSUME NEW x \in Fixed, IsFiniteSet(x.revoked), IsFiniteSet(x.spent), NEW y \in After(x)
  PROVE  /\ y \in Fixed /\ IsFiniteSet(y.revoked) /\ IsFiniteSet(y.spent)
         /\ x.revoked \subseteq y.revoked
<1>1. /\ x = [landed |-> x.landed, revoked |-> x.revoked, spent |-> x.spent, live |-> x.live]
      /\ x.landed \in Seq(Members) /\ x.revoked \subseteq Members
      /\ x.spent \subseteq Members /\ x.live \subseteq Members
  BY DEF Fixed
<1>2. Range(x.landed) \subseteq Members
  BY <1>1, SequenceOver
<1> DEFINE steady == [x EXCEPT !.live = Range(x.landed) \ x.spent]
<1>3. /\ steady.landed = x.landed /\ steady.revoked = x.revoked /\ steady.spent = x.spent
      /\ steady.live = Range(x.landed) \ x.spent
      /\ steady = [landed |-> steady.landed, revoked |-> steady.revoked,
                   spent |-> steady.spent, live |-> steady.live]
  <2>1. steady = [landed |-> x.landed, revoked |-> x.revoked, spent |-> x.spent,
                  live |-> Range(x.landed) \ x.spent]
    <3> DEFINE a == x.landed
               b == x.revoked
               c == x.spent
               d == x.live
               l == Range(x.landed) \ x.spent
    <3>1. x = [landed |-> a, revoked |-> b, spent |-> c, live |-> d]
      BY <1>1
    <3> HIDE DEF a, b, c, d, l
    <3>2. [x EXCEPT !.live = l] = [landed |-> a, revoked |-> b, spent |-> c, live |-> l]
      BY <3>1
    <3> QED
      BY <3>2 DEF a, b, c, d, l
  <2> HIDE DEF steady
  <2> QED
    BY <2>1
<1>4. steady.live \subseteq Members
  BY <1>2, <1>3
<1> HIDE DEF steady
<1>5. CASE y = steady
  BY <1>1, <1>3, <1>4, <1>5 DEF Fixed
<1>6. ASSUME NEW m \in Members \ Range(x.landed),
             y = [steady EXCEPT !.landed = Append(@, m), !.live = @ \cup {m}]
      PROVE  y \in Fixed /\ y.revoked = x.revoked /\ y.spent = x.spent
  <2>1. Append(x.landed, m) \in Seq(Members)
    BY <1>1, AppendProperties
  <2>2. /\ y.landed = Append(x.landed, m) /\ y.revoked = x.revoked /\ y.spent = x.spent
        /\ y.live = steady.live \cup {m}
        /\ y = [landed |-> y.landed, revoked |-> y.revoked, spent |-> y.spent, live |-> y.live]
    BY <1>3, <1>6
  <2> QED
    BY <1>1, <1>4, <2>1, <2>2 DEF Fixed
<1>7. ASSUME NEW m \in Range(x.landed), y = [steady EXCEPT !.revoked = @ \cup {m}]
      PROVE  y \in Fixed /\ y.revoked = x.revoked \cup {m} /\ y.spent = x.spent
  <2>1. /\ y.landed = x.landed /\ y.revoked = x.revoked \cup {m} /\ y.spent = x.spent
        /\ y.live = steady.live
        /\ y = [landed |-> y.landed, revoked |-> y.revoked, spent |-> y.spent, live |-> y.live]
    BY <1>3, <1>7
  <2> QED
    BY <1>1, <1>2, <1>4, <2>1 DEF Fixed
<1>8. ASSUME NEW m \in Range(x.landed) \ x.revoked,
             y = [steady EXCEPT !.spent = @ \cup {m}, !.live = @ \ {m}]
      PROVE  y \in Fixed /\ y.revoked = x.revoked /\ y.spent = x.spent \cup {m}
  <2>1. /\ y.landed = x.landed /\ y.revoked = x.revoked /\ y.spent = x.spent \cup {m}
        /\ y.live = steady.live \ {m}
        /\ y = [landed |-> y.landed, revoked |-> y.revoked, spent |-> y.spent, live |-> y.live]
    BY <1>3, <1>8
  <2> QED
    BY <1>1, <1>2, <1>4, <2>1 DEF Fixed
<1>9. ASSUME NEW m \in Range(x.landed), y = [steady EXCEPT !.live = @ \ {m}]
      PROVE  y \in Fixed /\ y.revoked = x.revoked /\ y.spent = x.spent
  <2>1. /\ y.landed = x.landed /\ y.revoked = x.revoked /\ y.spent = x.spent
        /\ y.live = steady.live \ {m}
        /\ y = [landed |-> y.landed, revoked |-> y.revoked, spent |-> y.spent, live |-> y.live]
    BY <1>3, <1>9
  <2> QED
    BY <1>1, <1>4, <2>1 DEF Fixed
<1>10. \/ y = steady
       \/ \E m \in Members \ Range(x.landed) : y = [steady EXCEPT !.landed = Append(@, m), !.live = @ \cup {m}]
       \/ \E m \in Range(x.landed) : y = [steady EXCEPT !.revoked = @ \cup {m}]
       \/ \E m \in Range(x.landed) \ x.revoked : y = [steady EXCEPT !.spent = @ \cup {m}, !.live = @ \ {m}]
       \/ \E m \in Range(x.landed) : y = [steady EXCEPT !.live = @ \ {m}]
  BY Zenon DEF After, steady
<1>11. y \in Fixed /\ \E r, s : y.revoked = x.revoked \cup r /\ y.spent = x.spent \cup s
                                  /\ (r = {} \/ \E m : r = {m}) /\ (s = {} \/ \E m : s = {m})
  <2>1. CASE y = steady
    <3>1. y.revoked = x.revoked \cup {} /\ y.spent = x.spent \cup {}
      BY <1>3, <2>1
    <3> QED
      BY <1>1, <1>3, <1>4, <2>1, <3>1 DEF Fixed
  <2>2. ASSUME y.revoked = x.revoked, y.spent = x.spent
        PROVE  y.revoked = x.revoked \cup {} /\ y.spent = x.spent \cup {}
    BY <2>2
  <2>3. ASSUME NEW m PROVE x.spent = x.spent \cup {} /\ x.revoked = x.revoked \cup {}
    OBVIOUS
  <2>4. CASE \E m \in Members \ Range(x.landed) :
               y = [steady EXCEPT !.landed = Append(@, m), !.live = @ \cup {m}]
    BY <1>6, <2>2, <2>4
  <2>5. CASE \E m \in Range(x.landed) : y = [steady EXCEPT !.revoked = @ \cup {m}]
    BY <1>7, <2>3, <2>5
  <2>6. CASE \E m \in Range(x.landed) \ x.revoked :
               y = [steady EXCEPT !.spent = @ \cup {m}, !.live = @ \ {m}]
    BY <1>8, <2>3, <2>6
  <2>7. CASE \E m \in Range(x.landed) : y = [steady EXCEPT !.live = @ \ {m}]
    BY <1>9, <2>2, <2>7
  <2> QED
    BY <1>10, <2>1, <2>4, <2>5, <2>6, <2>7
<1>12. ASSUME NEW S, IsFiniteSet(S), NEW r, r = {} \/ \E m : r = {m}
       PROVE  IsFiniteSet(S \cup r)
  BY <1>12, FS_EmptySet, FS_Singleton, FS_Union
<1>13. PICK r, s : /\ y.revoked = x.revoked \cup r /\ y.spent = x.spent \cup s
                   /\ (r = {} \/ \E m : r = {m}) /\ (s = {} \/ \E m : s = {m})
  BY <1>11
<1>14. IsFiniteSet(x.revoked \cup r) /\ IsFiniteSet(x.spent \cup s)
  BY <1>12, <1>13
<1>15. IsFiniteSet(y.revoked) /\ IsFiniteSet(y.spent)
  BY <1>13, <1>14
<1> QED
  BY <1>11, <1>13, <1>15

(* A boundary appends to every branch and changes nothing before.          *)
LEMMA AdvanceShape ==
  ASSUME HistoryOK, AdvanceEpoch
  PROVE  /\ branches' = branches /\ frozen' = frozen /\ holds' = holds
         /\ past' \in [branches -> Seq(Fixed)]
         /\ \A b \in branches :
              /\ Len(past'[b]) = Len(past[b]) + 1
              /\ \A i \in 1..Len(past[b]) : past'[b][i] = past[b][i]
              /\ past'[b][Len(past[b]) + 1] \in After(past[b][Len(past[b])])
<1>1. branches' = branches /\ frozen' = frozen /\ holds' = holds
  BY DEF AdvanceEpoch
<1>2. /\ past \in [branches -> Seq(Fixed)]
      /\ \A b \in branches : past[b] \in Seq(Fixed) /\ Len(past[b]) \in Nat \ {0}
  BY DEF HistoryOK
<1>3. /\ past' = [b \in branches |-> past'[b]]
      /\ \A b \in branches : \E y \in After(Last(past[b])) : past'[b] = Append(past[b], y)
  <2>1. CASE branches = {Main}
    <3>1. PICK y \in After(Last(past[Main])) : past' = [past EXCEPT ![Main] = Append(@, y)]
      BY <2>1 DEF AdvanceEpoch
    <3> QED
      BY <1>2, <2>1, <3>1
  <2>2. CASE branches = {Main, Fork} /\ branches # {Main}
    <3>1. PICK y \in After(Last(past[Main])), z \in After(Last(past[Fork])) :
            past' = [past EXCEPT ![Main] = Append(@, y), ![Fork] = Append(@, z)]
      BY <2>2 DEF AdvanceEpoch
    <3>2. Main # Fork
      BY DEF Main, Fork
    <3>3. past'[Main] = Append(past[Main], y) /\ past'[Fork] = Append(past[Fork], z)
      BY <1>2, <2>2, <3>1, <3>2
    <3> QED
      BY <1>2, <2>2, <3>1, <3>3
  <2> QED
    BY <2>1, <2>2 DEF HistoryOK
<1>4. ASSUME NEW b \in branches
      PROVE  /\ past'[b] \in Seq(Fixed)
             /\ Len(past'[b]) = Len(past[b]) + 1
             /\ \A i \in 1..Len(past[b]) : past'[b][i] = past[b][i]
             /\ past'[b][Len(past[b]) + 1] \in After(past[b][Len(past[b])])
  <2>1. PICK y \in After(Last(past[b])) : past'[b] = Append(past[b], y)
    BY <1>3
  <2> DEFINE s == past[b]
             x == s[Len(s)]
  <2>2. s \in Seq(Fixed) /\ Len(s) \in Nat \ {0}
    BY <1>2
  <2>3. x \in Fixed /\ y \in After(x)
    <3>1. Len(s) \in 1..Len(s)
      BY <2>2
    <3> QED
      BY <2>1, <2>2, <3>1, ElementOfSeq DEF Last
  <2>4. IsFiniteSet(x.revoked) /\ IsFiniteSet(x.spent)
    <3>1. Len(s) \in 1..Len(s)
      BY <2>2
    <3> QED
      BY <3>1 DEF HistoryOK
  <2>5. past'[b] = Append(s, y)
    BY <2>1
  <2> HIDE DEF s, x
  <2>6. y \in Fixed
    BY <2>3, <2>4, AfterOK
  <2>7. /\ Append(s, y) \in Seq(Fixed) /\ Len(Append(s, y)) = Len(s) + 1
        /\ \A i \in 1..Len(s) : Append(s, y)[i] = s[i]
        /\ Append(s, y)[Len(s) + 1] = y
    BY <2>2, <2>6, AppendProperties
  <2> QED
    BY <2>3, <2>5, <2>7 DEF s, x
<1> QED
  BY <1>1, <1>3, <1>4

LEMMA HistoryInit ==
  ASSUME Init
  PROVE  HistoryOK
<1> DEFINE x == [landed |-> Founding, revoked |-> {}, spent |-> {}, live |-> Range(Founding)]
<1>1. x \in Fixed /\ IsFiniteSet(x.revoked) /\ IsFiniteSet(x.spent)
  <2>1. Range(Founding) \subseteq Members /\ Founding \in Seq(Members)
    BY FoundingAssumption, SequenceOver
  <2> QED
    BY <2>1, FS_EmptySet DEF Fixed
<1>2. past = [b \in branches |-> <<x>>]
  BY DEF Init
<1> HIDE DEF x
<1>3. <<x>> \in Seq(Fixed) /\ Len(<<x>>) = 1 /\ <<x>>[1] = x
  BY <1>1
<1>4. Main \in branches /\ branches \in {{Main}, {Main, Fork}} /\ frozen \in BOOLEAN
  BY DEF Init
<1>5. past \in [branches -> Seq(Fixed)]
  BY <1>2, <1>3
<1>6. \A b \in branches : past[b] = <<x>> /\ Len(past[b]) = 1 /\ past[b][1] = x
  BY <1>2, <1>3
<1>7. \A b \in branches : \A i, j \in 1..Len(past[b]) : past[b][i] = x /\ past[b][j] = x
  BY <1>6
<1> QED
  BY <1>1, <1>4, <1>5, <1>6, <1>7 DEF HistoryOK

LEMMA HistoryAdvance ==
  ASSUME HistoryOK, AdvanceEpoch
  PROVE  HistoryOK'
<1>1. /\ branches' = branches /\ frozen' = frozen
      /\ past' \in [branches -> Seq(Fixed)]
      /\ \A b \in branches :
           /\ Len(past'[b]) = Len(past[b]) + 1
           /\ \A i \in 1..Len(past[b]) : past'[b][i] = past[b][i]
           /\ past'[b][Len(past[b]) + 1] \in After(past[b][Len(past[b])])
  BY AdvanceShape
<1>2. Main \in branches
  BY DEF HistoryOK
<1>3. ASSUME NEW b \in branches
      PROVE  Len(past[b]) \in Nat \ {0} /\ Len(past'[b]) = Len(past'[Main])
  BY <1>1, <1>2 DEF HistoryOK
<1>4. ASSUME NEW b \in branches, NEW i \in 1..Len(past'[b])
      PROVE  /\ IsFiniteSet(past'[b][i].revoked) /\ IsFiniteSet(past'[b][i].spent)
             /\ \A j \in 1..Len(past'[b]) : i <= j => past'[b][i].revoked \subseteq past'[b][j].revoked
  <2> DEFINE n == Len(past[b])
             x == past[b][n]
             y == past'[b][n + 1]
  <2>1. n \in Nat \ {0} /\ Len(past'[b]) = n + 1 /\ n \in 1..n
    BY <1>1, <1>3
  <2>2. /\ \A k \in 1..n : /\ past'[b][k] = past[b][k]
                           /\ IsFiniteSet(past[b][k].revoked) /\ IsFiniteSet(past[b][k].spent)
                           /\ past[b][k].revoked \subseteq x.revoked
        /\ \A k, j \in 1..n : k <= j => past[b][k].revoked \subseteq past[b][j].revoked
    <3>1. \A k \in 1..n : past'[b][k] = past[b][k]
      BY <1>1
    <3>2. \A k \in 1..n : IsFiniteSet(past[b][k].revoked) /\ IsFiniteSet(past[b][k].spent)
      BY DEF HistoryOK
    <3>3. \A k, j \in 1..n : k <= j => past[b][k].revoked \subseteq past[b][j].revoked
      BY DEF HistoryOK
    <3>4. ASSUME NEW k \in 1..n PROVE past[b][k].revoked \subseteq x.revoked
      <4>1. k <= n
        BY <2>1
      <4> QED
        BY <2>1, <3>3, <4>1
    <3> QED
      BY <3>1, <3>2, <3>3, <3>4
  <2>3. x \in Fixed
    <3>1. past[b] \in Seq(Fixed)
      BY DEF HistoryOK
    <3> QED
      BY <2>1, <3>1, ElementOfSeq
  <2>4. IsFiniteSet(y.revoked) /\ IsFiniteSet(y.spent) /\ x.revoked \subseteq y.revoked
    <3>1. IsFiniteSet(x.revoked) /\ IsFiniteSet(x.spent) /\ y \in After(x)
      BY <1>1, <2>1, <2>2
    <3> HIDE DEF x, y
    <3> QED
      BY <2>3, <3>1, AfterOK
  <2> HIDE DEF x
  <2>5. CASE i = n + 1
    <3>1. \A j \in 1..Len(past'[b]) : i <= j => j = n + 1
      BY <2>1, <2>5
    <3> QED
      BY <2>4, <2>5, <3>1
  <2>6. CASE i # n + 1
    <3>1. i \in 1..n
      BY <2>1, <2>6
    <3>2. ASSUME NEW j \in 1..Len(past'[b]), i <= j
          PROVE  past'[b][i].revoked \subseteq past'[b][j].revoked
      <4>1. CASE j = n + 1
        <5>1. past'[b][i].revoked \subseteq x.revoked
          BY <2>2, <3>1
        <5> QED
          BY <2>4, <4>1, <5>1
      <4>2. CASE j # n + 1
        <5>1. j \in 1..n
          BY <2>1, <4>2
        <5> QED
          BY <2>2, <3>1, <3>2, <5>1
      <4> QED
        BY <4>1, <4>2
    <3> QED
      BY <2>2, <3>1, <3>2
  <2> QED
    BY <2>5, <2>6
<1>5. Len(past'[Main]) \in Nat \ {0}
  BY <1>1, <1>2, <1>3
<1>6. branches \in {{Main}, {Main, Fork}} /\ frozen \in BOOLEAN
  BY DEF HistoryOK
<1> QED
  BY <1>1, <1>3, <1>4, <1>5, <1>6 DEF HistoryOK

LEMMA HistoryStep ==
  ASSUME HistoryOK, [Next]_vars
  PROVE  HistoryOK'
<1>1. CASE AdvanceEpoch
  BY <1>1, HistoryAdvance
<1>2. CASE branches' = branches /\ past' = past /\ frozen' \in BOOLEAN
  BY <1>2 DEF HistoryOK
<1>3. CASE Dissolve
  BY <1>2, <1>3 DEF Dissolve
<1>4. ASSUME NEW m, NEW env, Receive(m, env) PROVE HistoryOK'
  <2>1. branches' = branches /\ past' = past /\ frozen' = frozen
    BY <1>4 DEF Receive
  <2> QED
    BY <2>1 DEF HistoryOK
<1>5. CASE UNCHANGED vars
  BY <1>5 DEF vars, HistoryOK
<1> QED
  BY <1>1, <1>3, <1>4, <1>5 DEF Next

-------------------------------------------------------------------------------
(* Holdings.                                                               *)

(* What was published for an epoch is not changed by later ones.           *)
LEMMA EnvelopeStays ==
  ASSUME HistoryOK, AdvanceEpoch, NEW e \in 0..Epoch, NEW b \in branches, NEW p \in branches
  PROVE  EnvelopeOf(Agora, e, b, p)' = EnvelopeOf(Agora, e, b, p)
<1>1. Main \in branches /\ Len(past[Main]) \in Nat \ {0}
  BY DEF HistoryOK
<1>2. Len(past[b]) = Len(past[Main]) /\ Len(past[p]) = Len(past[Main])
  BY DEF HistoryOK
<1>3. e + 1 \in 1..Len(past[Main]) /\ \A i \in 1..e + 1 : i \in 1..Len(past[Main])
  BY <1>1 DEF Epoch
<1>4. \A c \in branches : \A i \in 1..Len(past[c]) : past'[c][i] = past[c][i]
  BY AdvanceShape
<1>5. past'[b][e + 1] = past[b][e + 1] /\ past'[p][e + 1] = past[p][e + 1]
  BY <1>2, <1>3, <1>4
<1>6. \A i \in 1..e + 1 : past'[b][i] = past[b][i]
  BY <1>2, <1>3, <1>4
<1>7. Entries(b, e)' = Entries(b, e)
  <2>1. [i \in 1..e + 1 |-> EntriesOf(i - 1, past'[b][i])] = [i \in 1..e + 1 |-> EntriesOf(i - 1, past[b][i])]
    BY <1>6
  <2> QED
    BY <2>1, Zenon DEF Entries
<1> QED
  BY <1>5, <1>7, Zenon DEF EnvelopeOf

LEMMA EnvelopeUnchanged ==
  ASSUME UNCHANGED past, NEW e, NEW b, NEW p
  PROVE  EnvelopeOf(Agora, e, b, p)' = EnvelopeOf(Agora, e, b, p)
<1>1. past'[b][e + 1] = past[b][e + 1] /\ past'[p][e + 1] = past[p][e + 1]
  OBVIOUS
<1>2. Entries(b, e)' = Entries(b, e)
  <2>1. [i \in 1..e + 1 |-> EntriesOf(i - 1, past'[b][i])] = [i \in 1..e + 1 |-> EntriesOf(i - 1, past[b][i])]
    OBVIOUS
  <2> QED
    BY <2>1, Zenon DEF Entries
<1> QED
  BY <1>1, <1>2, Zenon DEF EnvelopeOf

LEMMA RelayedIsPublished ==
  ASSUME NEW one \in Published(Agora) \cup Published(Other), NEW another, NEW field \in Fields,
         EnvelopeVerifies(StatementKey, Agora, Relayed(one, another, field))
  PROVE  /\ Relayed(one, another, field).epoch \in 0..Epoch
         /\ \E b, p \in branches :
              Relayed(one, another, field) = EnvelopeOf(Agora, Relayed(one, another, field).epoch, b, p)
<1>1. PICK agora \in {Agora, Other}, e \in 0..Epoch, b \in branches, p \in branches :
        one = EnvelopeOf(agora, e, b, p)
  BY DEF Published
<1>2. agora = Agora /\ Relayed(one, another, field) = EnvelopeOf(agora, e, b, p)
  BY <1>1, OnlyPublishedVerifies
<1>3. EnvelopeOf(agora, e, b, p).epoch = e
  BY EnvelopeFields DEF EnvelopeShape
<1> QED
  BY <1>2, <1>3

LEMMA HoldingsStay ==
  ASSUME HistoryOK, HoldingsOK, holds' = holds, AdvanceEpoch \/ UNCHANGED <<branches, past>>
  PROVE  HoldingsOK'
<1>1. ASSUME NEW m \in Members, NEW h, Accepted(m, h) PROVE Accepted(m, h)'
  <2>1. CASE UNCHANGED <<branches, past>>
    <3>1. \A e, b, p : EnvelopeOf(Agora, e, b, p)' = EnvelopeOf(Agora, e, b, p)
      BY <2>1, EnvelopeUnchanged
    <3>2. Epoch' = Epoch
      BY <2>1 DEF Epoch
    <3> QED
      BY <1>1, <2>1, <3>1, <3>2 DEF Accepted
  <2>2. CASE AdvanceEpoch
    <3>1. branches' = branches /\ Main \in branches /\ Len(past'[Main]) = Len(past[Main]) + 1
          /\ Len(past[Main]) \in Nat \ {0}
      BY <2>2, AdvanceShape DEF HistoryOK
    <3>2. h.env.epoch \in 0..Epoch /\ h.env.epoch \in 0..Epoch'
      BY <1>1, <3>1 DEF Accepted, Epoch
    <3>3. PICK b \in branches, p \in branches : h.env = EnvelopeOf(Agora, h.env.epoch, b, p)
      BY <1>1 DEF Accepted
    <3>4. EnvelopeOf(Agora, h.env.epoch, b, p)' = EnvelopeOf(Agora, h.env.epoch, b, p)
      BY <2>2, <3>2, EnvelopeStays
    <3>5. h.env = EnvelopeOf(Agora, h.env.epoch, b, p)'
      BY <3>3, <3>4
    <3> QED
      BY <1>1, <3>1, <3>2, <3>5 DEF Accepted
  <2> QED
    BY <2>1, <2>2
<1> QED
  BY <1>1 DEF HoldingsOK

LEMMA HoldingsReceive ==
  ASSUME HistoryOK, HoldingsOK, NEW m \in Members,
         NEW one \in Published(Agora) \cup Published(Other), NEW another, NEW field \in Fields,
         Receive(m, Relayed(one, another, field))
  PROVE  HoldingsOK'
<1> DEFINE env  == Relayed(one, another, field)
           view == Opened(m, Agora, env)
           new  == [env |-> env, view |-> view[1]]
           old  == holds[m]
<1>1. /\ EnvelopeVerifies(StatementKey, Agora, env)
      /\ \A e \in Current(m) : env.epoch > e
      /\ view # << >>
      /\ holds' = [holds EXCEPT ![m] = Append(@, new)]
      /\ UNCHANGED <<branches, past>>
  BY DEF Receive, Accepts
<1>2. env.epoch \in 0..Epoch /\ \E b, p \in branches : env = EnvelopeOf(Agora, env.epoch, b, p)
  BY <1>1, RelayedIsPublished
<1> HIDE DEF env
<1>3. new.env = env /\ new.view = view[1]
  OBVIOUS
<1>4. Accepted(m, new)
  BY <1>1, <1>2, <1>3 DEF Accepted
<1> HIDE DEF new, view
<1>5. IsSequence(old) /\ Increasing(old) /\ \A i \in 1..Len(old) : Accepted(m, old[i])
  BY DEF HoldingsOK
<1>6. /\ holds' = [n \in Members |-> holds'[n]]
      /\ holds'[m] = Append(old, new)
      /\ \A n \in Members : n # m => holds'[n] = holds[n]
  BY <1>1 DEF HoldingsOK
<1>7. ASSUME NEW n, NEW h, Accepted(n, h) PROVE Accepted(n, h)'
  <2>1. \A e, b, p : EnvelopeOf(Agora, e, b, p)' = EnvelopeOf(Agora, e, b, p)
    BY <1>1, EnvelopeUnchanged
  <2>2. Epoch' = Epoch
    BY <1>1 DEF Epoch
  <2> QED
    BY <1>1, <1>7, <2>1, <2>2 DEF Accepted
<1>8. Len(old) \in Nat /\ (old # << >> => Len(old) > 0)
  BY <1>5, SequenceShape
<1>9. ASSUME NEW i \in 1..Len(old) PROVE old[i].env.epoch < new.env.epoch
  <2>1. Len(old) \in 1..Len(old) /\ old # << >>
    <3>1. old = << >> => Len(old) = 0
      BY EmptySeq
    <3> QED
      BY <1>8, <3>1
  <2>2. old[Len(old)].env.epoch < new.env.epoch
    <3>1. Current(m) = {old[Len(old)].env.epoch}
      BY <2>1 DEF Current, Last
    <3>2. old[Len(old)].env.epoch \in Int /\ env.epoch \in Int
      BY <1>2, <1>5, <2>1 DEF Accepted
    <3> QED
      BY <1>1, <1>3, <3>1, <3>2
  <2>3. old[i].env.epoch \in Int /\ old[Len(old)].env.epoch \in Int /\ new.env.epoch \in Int
    BY <1>2, <1>3, <1>5, <2>1 DEF Accepted
  <2>4. i = Len(old) \/ i < Len(old)
    BY <1>8
  <2>5. i < Len(old) => old[i].env.epoch < old[Len(old)].env.epoch
    BY <1>5, <2>1 DEF Increasing
  <2> QED
    BY <2>2, <2>3, <2>4, <2>5
<1> HIDE DEF old
<1>10. /\ IsSequence(Append(old, new)) /\ Len(Append(old, new)) = Len(old) + 1
       /\ \A i \in 1..Len(old) : Append(old, new)[i] = old[i]
       /\ Append(old, new)[Len(old) + 1] = new
  BY <1>5, AppendShape
<1>11. ASSUME NEW i \in 1..Len(Append(old, new)) PROVE Accepted(m, Append(old, new)[i])
  <2>1. i \in 1..Len(old) \/ i = Len(old) + 1
    BY <1>8, <1>10
  <2> QED
    BY <1>4, <1>5, <1>10, <2>1
<1>12. Increasing(Append(old, new))
  <2> SUFFICES ASSUME NEW i \in 1..Len(Append(old, new)), NEW j \in 1..Len(Append(old, new)), i < j
               PROVE  Append(old, new)[i].env.epoch < Append(old, new)[j].env.epoch
    BY DEF Increasing
  <2>1. i \in 1..Len(old) /\ (j \in 1..Len(old) \/ j = Len(old) + 1)
    BY <1>8, <1>10
  <2>2. CASE j \in 1..Len(old)
    BY <1>5, <1>10, <2>1, <2>2 DEF Increasing
  <2>3. CASE j = Len(old) + 1
    BY <1>9, <1>10, <2>1, <2>3
  <2> QED
    BY <2>1, <2>2, <2>3
<1>13. ASSUME NEW n \in Members
       PROVE  (/\ IsSequence(holds[n])
               /\ \A i \in 1..Len(holds[n]) : Accepted(n, holds[n][i])
               /\ Increasing(holds[n]))'
  <2>1. /\ IsSequence(holds'[n]) /\ Increasing(holds'[n])
        /\ \A i \in 1..Len(holds'[n]) : Accepted(n, holds'[n][i])
    <3>1. CASE n = m
      BY <1>6, <1>10, <1>11, <1>12, <3>1
    <3>2. CASE n # m
      <4>1. holds'[n] = holds[n]
        BY <1>6, <3>2
      <4> QED
        BY <4>1 DEF HoldingsOK
    <3> QED
      BY <3>1, <3>2
  <2> QED
    BY <1>7, <2>1
<1> QED
  BY <1>6, <1>13 DEF HoldingsOK

LEMMA InvariantHolds == Spec => []IInv
<1>1. Init => IInv
  <2> SUFFICES ASSUME Init PROVE IInv
    OBVIOUS
  <2>1. holds = [m \in Members |-> << >>]
    BY DEF Init
  <2>2. \A m \in Members : holds[m] = << >> /\ IsSequence(holds[m]) /\ Len(holds[m]) = 0
    BY <2>1, SmallSequences
  <2>3. HoldingsOK
    BY <2>1, <2>2 DEF HoldingsOK, Increasing
  <2> QED
    BY <2>3, HistoryInit DEF IInv
<1>2. IInv /\ [Next]_vars => IInv'
  <2> SUFFICES ASSUME IInv, [Next]_vars PROVE IInv'
    OBVIOUS
  <2>1. HistoryOK /\ HoldingsOK
    BY DEF IInv
  <2>2. HistoryOK'
    BY <2>1, HistoryStep
  <2>3. HoldingsOK'
    <3>1. CASE AdvanceEpoch
      <4>1. holds' = holds
        BY <3>1 DEF AdvanceEpoch
      <4> QED
        BY <2>1, <3>1, <4>1, HoldingsStay
    <3>2. CASE Dissolve \/ UNCHANGED vars
      <4>1. holds' = holds /\ UNCHANGED <<branches, past>>
        BY <3>2 DEF Dissolve, vars
      <4> QED
        BY <2>1, <4>1, HoldingsStay
    <3>3. ASSUME NEW one \in Published(Agora) \cup Published(Other),
                 NEW another \in Published(Agora) \cup Published(Other),
                 NEW field \in Fields, NEW m \in Members,
                 Receive(m, Relayed(one, another, field))
          PROVE  HoldingsOK'
      BY <2>1, <3>3, HoldingsReceive
    <3> QED
      BY <3>1, <3>2, <3>3 DEF Next
  <2> QED
    BY <2>2, <2>3 DEF IInv
<1> QED
  BY <1>1, <1>2, PTL DEF Spec

-------------------------------------------------------------------------------
(* Members' envelopes.                                                     *)

(* Members who see an epoch differently hold two envelopes that prove the  *)
(* fork: the view is read from the body, and the signed digest covers it.  *)
LEMMA EnvelopesFork ==
  ASSUME IInv
  PROVE  EnvelopesForkProvably
<1> SUFFICES ASSUME NEW m \in Members, NEW n \in Members, NEW h \in Held(m), NEW k \in Held(n),
                    h.env.epoch = k.env.epoch, h.view # k.view
             PROVE  EnvelopeEquivocation(StatementKey, Agora, h.env, k.env)
  BY DEF EnvelopesForkProvably
<1>1. ASSUME NEW o \in Members, NEW g \in Held(o)
      PROVE  Accepted(o, g)
  <2>1. IsSequence(holds[o]) /\ \A i \in 1..Len(holds[o]) : Accepted(o, holds[o][i])
    BY DEF IInv, HoldingsOK
  <2>2. Range(holds[o]) = {holds[o][i] : i \in 1..Len(holds[o])}
    BY <2>1, SequenceShape
  <2> QED
    BY <2>1, <2>2 DEF Held
<1>2. ASSUME NEW o \in Members, NEW g, Accepted(o, g)
      PROVE  /\ EnvelopeVerifies(StatementKey, Agora, g.env)
             /\ \E key : /\ OpenBody(key, Agora, g.env.epoch, g.env.body) # << >>
                         /\ g.view = OpenBody(key, Agora, g.env.epoch, g.env.body)[1]
  <2>1. PICK b \in branches, p \in branches : g.env = EnvelopeOf(Agora, g.env.epoch, b, p)
    BY <1>2 DEF Accepted
  <2>2. EnvelopeShape(Agora, g.env.epoch, b, p, g.env)
    BY <2>1, EnvelopeFields
  <2>3. EnvelopeVerifies(StatementKey, Agora, g.env)
    BY <2>2, VerifiesIsSigned DEF EnvelopeShape
  <2>4. Opened(o, Agora, g.env) # << >> /\ g.view = Opened(o, Agora, g.env)[1]
    BY <1>2 DEF Accepted
  <2>5. Opened(o, Agora, g.env)
          = OpenBody(OwnCiphertext(o, Agora, g.env)[1].body_key, Agora, g.env.epoch, g.env.body)
    BY <2>4, OpenedIsBody
  <2> QED
    BY <2>3, <2>4, <2>5
<1>3. Accepted(m, h) /\ Accepted(n, k)
  BY <1>1
<1>4. EnvelopeVerifies(StatementKey, Agora, h.env) /\ EnvelopeVerifies(StatementKey, Agora, k.env)
  BY <1>2, <1>3
<1>5. Digest(Agora, h.env) # Digest(Agora, k.env)
  <2> SUFFICES ASSUME Digest(Agora, h.env) = Digest(Agora, k.env) PROVE FALSE
    OBVIOUS
  <2>1. h.env.epoch = k.env.epoch /\ h.env.body = k.env.body
    BY DigestInjective
  <2>2. PICK x : /\ OpenBody(x, Agora, h.env.epoch, h.env.body) # << >>
                 /\ h.view = OpenBody(x, Agora, h.env.epoch, h.env.body)[1]
    BY <1>2, <1>3
  <2>3. PICK y : /\ OpenBody(y, Agora, k.env.epoch, k.env.body) # << >>
                 /\ k.view = OpenBody(y, Agora, k.env.epoch, k.env.body)[1]
    BY <1>2, <1>3
  <2> QED
    BY <2>1, <2>2, <2>3, OneBodyOneView
<1> QED
  BY <1>4, <1>5 DEF EnvelopeEquivocation

-------------------------------------------------------------------------------
(* Auditors' heads.                                                        *)

LEMMA LogIsSequence ==
  ASSUME IInv, NEW b \in branches, NEW e \in 0..Epoch
  PROVE  /\ IsSequence(Entries(b, e)) /\ IsSequence(Log(b))
         /\ \A i, j \in 1..Len(Entries(b, e)) :
              /\ i < j => Entries(b, e)[i].epoch <= Entries(b, e)[j].epoch
              /\ Entries(b, e)[i].epoch \in 0..e /\ Entries(b, e)[i].kind # "Frozen"
<1>1. Epoch \in Nat
  BY DEF IInv, HistoryOK, Epoch
<1>2. ASSUME NEW f \in Nat
      PROVE  /\ IsSequence(Entries(b, f))
             /\ \A i, j \in 1..Len(Entries(b, f)) :
                  /\ i < j => Entries(b, f)[i].epoch <= Entries(b, f)[j].epoch
                  /\ Entries(b, f)[i].epoch \in 0..f /\ Entries(b, f)[i].kind # "Frozen"
  <2> DEFINE seqs == [i \in 1..f + 1 |-> EntriesOf(i - 1, past[b][i])]
             flat == FlattenSeq(seqs)
  <2>1. IsSequence(seqs) /\ Len(seqs) = f + 1
    <3>1. seqs = [i \in 1..f + 1 |-> seqs[i]] /\ f + 1 \in Nat
      OBVIOUS
    <3> HIDE DEF seqs
    <3> QED
      BY <3>1, FunctionIsSequence
  <2>2. ASSUME NEW i \in 1..f + 1
        PROVE  /\ IsSequence(seqs[i])
               /\ \A x \in Range(seqs[i]) : x.epoch = i - 1 /\ x.kind # "Frozen"
    <3> DEFINE roots == [j \in DOMAIN Classes |->
                           [kind |-> "ClassRoot", epoch |-> i - 1,
                            of |-> <<Classes[j], Leaves(past[b][i], Classes[j])>>]]
               last  == [kind |-> "ExclusionRoots", epoch |-> i - 1,
                         of |-> <<past[b][i].revoked, past[b][i].spent>>]
    <3>1. seqs[i] = roots \o <<last>>
      BY DEF EntriesOf
    <3>2. IsSequence(roots) /\ \A x \in Range(roots) : x.epoch = i - 1 /\ x.kind = "ClassRoot"
      <4>1. DOMAIN Classes = 1..Len(Classes) /\ Len(Classes) \in Nat
        BY ClassesAssumption, LenProperties
      <4>2. roots = [j \in 1..Len(Classes) |-> roots[j]]
        BY <4>1
      <4>3. \A x \in Range(roots) : x.epoch = i - 1 /\ x.kind = "ClassRoot"
        BY DEF Range
      <4> HIDE DEF roots
      <4>4. IsSequence(roots)
        BY <4>1, <4>2, FunctionIsSequence
      <4> QED
        BY <4>3, <4>4
    <3>3. IsSequence(<<last>>) /\ \A x \in Range(<<last>>) : x.epoch = i - 1 /\ x.kind = "ExclusionRoots"
      <4>1. last.epoch = i - 1 /\ last.kind = "ExclusionRoots"
        OBVIOUS
      <4> HIDE DEF last
      <4>2. \A x \in Range(<<last>>) : x = last
        BY DEF Range
      <4>3. IsSequence(<<last>>)
        BY SmallSequences
      <4> QED
        BY <4>1, <4>2, <4>3
    <3> HIDE DEF roots, last
    <3>4. IsSequence(roots \o <<last>>) /\ Range(roots \o <<last>>) = Range(roots) \cup Range(<<last>>)
      BY <3>2, <3>3, ConcatShape
    <3> QED
      BY <3>1, <3>2, <3>3, <3>4
  <2>3. \A i \in 1..Len(seqs) : IsSequence(seqs[i])
    BY <2>1, <2>2
  <2>4. Entries(b, f) = flat
    BY DEF Entries
  <2> HIDE DEF seqs
  <2>5. PICK block :
          \A j \in 1..Len(flat) : /\ block[j] \in 1..Len(seqs)
                                  /\ flat[j] \in Range(seqs[block[j]])
                                  /\ \A k \in 1..Len(flat) : j < k => block[j] <= block[k]
    BY <2>1, <2>3, FlattenInOrder
  <2>6. IsSequence(flat)
    BY <2>1, <2>3, FlattenInOrder
  <2> HIDE DEF flat
  <2>7. ASSUME NEW j \in 1..Len(flat)
        PROVE  block[j] \in 1..f + 1 /\ flat[j].epoch = block[j] - 1 /\ flat[j].kind # "Frozen"
    <3>1. block[j] \in 1..f + 1 /\ flat[j] \in Range(seqs[block[j]])
      BY <2>1, <2>5
    <3> QED
      BY <2>2, <3>1
  <2>8. ASSUME NEW i \in 1..Len(flat), NEW j \in 1..Len(flat), i < j
        PROVE  flat[i].epoch <= flat[j].epoch
    <3>1. block[i] <= block[j]
      BY <2>5, <2>8
    <3> QED
      BY <2>7, <3>1
  <2>9. \A i \in 1..Len(flat) : flat[i].epoch \in 0..f
    BY <2>7
  <2> QED
    BY <2>4, <2>6, <2>7, <2>8, <2>9
<1>3. IsSequence(Log(b))
  <2> DEFINE end == IF frozen THEN <<[kind |-> "Frozen", epoch |-> Epoch, of |-> << >>]>> ELSE << >>
             all == Entries(b, Epoch)
  <2>1. IsSequence(all) /\ IsSequence(end)
    BY <1>1, <1>2, SmallSequences
  <2>2. Log(b) = all \o end
    BY DEF Log
  <2> HIDE DEF all, end
  <2> QED
    BY <2>1, <2>2, ConcatShape
<1> QED
  BY <1>1, <1>2, <1>3

(* The heads of a log are numbered by their entries.                       *)
LEMMA HeadOfEntry ==
  ASSUME NEW entries, IsSequence(entries), NEW head \in Range(Heads(entries))
  PROVE  /\ head.sequence + 1 \in DOMAIN entries /\ head.sequence \in Nat
         /\ head.head = Chain(entries)[head.sequence + 1]
         /\ HeadVerifies(head, LogKey)
<1> DEFINE chain == Chain(entries)
           heads == [i \in DOMAIN entries |->
                       [sequence |-> i - 1, head |-> chain[i],
                        signature |-> Sign(LogSeed, HeadMessage(i - 1, chain[i]))]]
<1>1. Heads(entries) = heads
  BY Zenon DEF Heads
<1> HIDE DEF chain
<1>2. PICK i \in DOMAIN entries : head = heads[i]
  BY <1>1 DEF Range
<1>3. DOMAIN entries = 1..Len(entries) /\ Len(entries) \in Nat
  BY SequenceShape
<1>4. /\ head.sequence = i - 1 /\ head.head = chain[i]
      /\ head.signature = Sign(LogSeed, HeadMessage(i - 1, chain[i]))
  BY <1>2
<1>5. head.sequence + 1 = i /\ head.sequence \in Nat
  BY <1>3, <1>4
<1>6. HeadVerifies(head, LogKey)
  BY <1>4 DEF HeadVerifies, SignatureVerifies, LogKey, PublicKey
<1> QED
  BY <1>4, <1>5, <1>6 DEF chain

(* Two logs that verify under heads of one number agree up to it, unless   *)
(* the heads themselves are the proof of the fork.                         *)
LEMMA LogsFork ==
  ASSUME IInv
  PROVE  LogsForkProvably
<1> DEFINE heads == UNION {Range(Heads(Log(b))) : b \in branches}
<1>1. ASSUME NEW b \in branches, NEW log \in Doctored(Log(b)) PROVE IsSequence(log)
  <2> DEFINE whole == Log(b)
  <2>1. Epoch \in Nat
    BY DEF IInv, HistoryOK, Epoch
  <2>2. IsSequence(whole)
    <3>1. 0 \in 0..Epoch
      BY <2>1
    <3> QED
      BY <3>1, LogIsSequence
  <2> HIDE DEF whole
  <2>3. log \in {whole} \cup {RemoveAt(whole, i) : i \in DOMAIN whole} \cup {Reverse(whole)}
    BY DEF Doctored, whole
  <2>4. DOMAIN whole = 1..Len(whole) /\ Len(whole) \in Nat /\ \A i \in 1..Len(whole) : whole[i] \in Range(whole)
    BY <2>2, SequenceShape
  <2>5. ASSUME NEW i \in DOMAIN whole PROVE IsSequence(RemoveAt(whole, i))
    <3>1. i - 1 \in Int /\ i + 1 \in Int /\ Len(whole) \in Int /\ 1 \in Int
      BY <2>4
    <3>2. IsSequence(SubSeq(whole, 1, i - 1))
      <4>1. \A k \in 1..i - 1 : whole[k] \in Range(whole)
        BY <2>4
      <4>2. SubSeq(whole, 1, i - 1) \in Seq(Range(whole))
        BY <3>1, <4>1, SubSeqProperties
      <4> QED
        BY <4>2, SequenceOver
    <3>3. IsSequence(SubSeq(whole, i + 1, Len(whole)))
      <4>1. \A k \in i + 1..Len(whole) : whole[k] \in Range(whole)
        BY <2>4
      <4>2. SubSeq(whole, i + 1, Len(whole)) \in Seq(Range(whole))
        BY <3>1, <4>1, SubSeqProperties
      <4> QED
        BY <4>2, SequenceOver
    <3> QED
      BY <3>2, <3>3, ConcatShape DEF RemoveAt
  <2>6. IsSequence(Reverse(whole))
    <3> DEFINE back == Reverse(whole)
    <3>1. back = [i \in 1..Len(whole) |-> whole[(Len(whole) - i) + 1]]
      BY DEF Reverse
    <3> HIDE DEF back
    <3>2. back = [i \in 1..Len(whole) |-> back[i]]
      BY <3>1
    <3>3. IsSequence(back)
      BY <2>4, <3>2, FunctionIsSequence
    <3> QED
      BY <3>3 DEF back
  <2> QED
    BY <2>2, <2>3, <2>5, <2>6
<1>2. ASSUME NEW s, NEW t, IsSequence(s), IsSequence(t), NEW h, NEW k, h.sequence \in Nat,
             VerifyLog(s, {h}, LogKey), VerifyLog(t, {k}, LogKey), h.sequence = k.sequence
      PROVE  \/ SubSeq(s, 1, h.sequence + 1) = SubSeq(t, 1, k.sequence + 1)
             \/ Equivocation(h, k, LogKey)
  <2> DEFINE n == h.sequence + 1
  <2>1. /\ n \in DOMAIN s /\ Chain(s)[n] = h.head /\ HeadVerifies(h, LogKey)
        /\ n \in DOMAIN t /\ Chain(t)[n] = k.head /\ HeadVerifies(k, LogKey)
    BY <1>2 DEF VerifyLog
  <2>2. /\ DOMAIN s = 1..Len(s) /\ Len(s) \in Nat
        /\ DOMAIN t = 1..Len(t) /\ Len(t) \in Nat
    BY <1>2, SequenceShape
  <2>3. CASE h.head # k.head
    BY <1>2, <2>1, <2>3 DEF Equivocation
  <2>4. CASE h.head = k.head
    <3>1. n \in 1..Len(s) /\ n \in 1..Len(t) /\ Chain(s)[n] = Chain(t)[n]
      BY <2>1, <2>2, <2>4
    <3>2. n \in 0..Len(s) /\ n \in 0..Len(t) /\ n \in Nat
      BY <2>2, <3>1
    <3> HIDE DEF n
    <3>3. \A i \in 1..n : s[i] = t[i]
      BY <1>2, <3>1, ChainBindsPrefix
    <3> DEFINE u == SubSeq(s, 1, n)
               v == SubSeq(t, 1, n)
    <3>4. IsSequence(u) /\ Len(u) = n /\ \A i \in 1..n : u[i] = s[i]
      BY <1>2, <3>2, PrefixShape
    <3>5. IsSequence(v) /\ Len(v) = n /\ \A i \in 1..n : v[i] = t[i]
      BY <1>2, <3>2, PrefixShape
    <3> HIDE DEF u, v
    <3>6. u = v
      BY <3>3, <3>4, <3>5, SameElements
    <3> QED
      BY <1>2, <3>6 DEF n, u, v
  <2> QED
    BY <2>3, <2>4
<1>3. ASSUME NEW h \in heads PROVE h.sequence \in Nat
  <2>1. PICK b \in branches : h \in Range(Heads(Log(b)))
    OBVIOUS
  <2>2. IsSequence(Log(b))
    BY <1>1 DEF Doctored
  <2> QED
    BY <2>1, <2>2, HeadOfEntry
<1> DEFINE logs     == UNION {Doctored(Log(b)) : b \in branches}
           verified == UNION {{[log |-> log, head |-> h] : h \in {k \in heads : VerifyLog(log, {k}, LogKey)}}
                                : log \in logs}
<1>4. ASSUME NEW v \in verified
      PROVE  /\ IsSequence(v.log) /\ v.head \in heads
             /\ VerifyLog(v.log, {v.head}, LogKey)
  <2>1. PICK log \in logs, h \in heads : v = [log |-> log, head |-> h] /\ VerifyLog(log, {h}, LogKey)
    OBVIOUS
  <2>2. IsSequence(log)
    BY <1>1
  <2> QED
    BY <2>1, <2>2
<1>5. ASSUME NEW v \in verified, NEW w \in verified, v.head.sequence = w.head.sequence
      PROVE  \/ SubSeq(v.log, 1, v.head.sequence + 1) = SubSeq(w.log, 1, w.head.sequence + 1)
             \/ Equivocation(v.head, w.head, LogKey)
  <2>1. /\ IsSequence(v.log) /\ v.head \in heads /\ VerifyLog(v.log, {v.head}, LogKey)
        /\ IsSequence(w.log) /\ w.head \in heads /\ VerifyLog(w.log, {w.head}, LogKey)
    BY <1>4
  <2>2. v.head.sequence \in Nat
    BY <1>3, <2>1
  <2> HIDE DEF heads, verified
  <2> QED
    BY <1>2, <1>5, <2>1, <2>2
<1> QED
  BY <1>5, Zenon DEF LogsForkProvably

-------------------------------------------------------------------------------
(* An honest operator.                                                     *)

(* What a member holds of it is the envelope of that epoch, opened to what *)
(* the epoch was fixed as.                                                 *)
LEMMA HeldIsFixed ==
  ASSUME IInv, Honest, NEW m \in Members, NEW i \in 1..Len(holds[m])
  PROVE  LET h == holds[m][i]
             e == h.env.epoch
         IN  /\ e \in 0..Epoch /\ e + 1 \in 1..Len(past[Main])
             /\ h.env = EnvelopeOf(Agora, e, Main, Main)
             /\ h.view = Body(Agora, e, past[Main][e + 1])
             /\ m \in Served(past[Main][e + 1])
             /\ IsFiniteSet(past[Main][e + 1].revoked)
<1> DEFINE h == holds[m][i]
           e == h.env.epoch
<1>1. Accepted(m, h)
  BY DEF IInv, HoldingsOK
<1> HIDE DEF h
<1>2. /\ e \in 0..Epoch /\ h.env = EnvelopeOf(Agora, e, Main, Main)
      /\ Opened(m, Agora, h.env) # << >> /\ h.view = Opened(m, Agora, h.env)[1]
  BY <1>1 DEF Accepted, Honest
<1> HIDE DEF e
<1>3. Main \in branches /\ Len(past[Main]) \in Nat \ {0}
  BY DEF IInv, HistoryOK
<1>4. e + 1 \in 1..Len(past[Main])
  BY <1>2, <1>3 DEF Epoch
<1>5. IsFiniteSet(past[Main][e + 1].revoked) /\ IsFiniteSet(past[Main][e + 1].spent)
  BY <1>3, <1>4 DEF IInv, HistoryOK
<1>6. Opened(m, Agora, EnvelopeOf(Agora, e, Main, Main)) # << >>
  BY <1>2
<1>7. /\ m \in Served(past[Main][e + 1])
      /\ Opened(m, Agora, EnvelopeOf(Agora, e, Main, Main)) = <<Body(Agora, e, past[Main][e + 1])>>
  BY <1>5, <1>6, OpenedIsFixed
<1>8. h.view = Body(Agora, e, past[Main][e + 1])
  BY <1>2, <1>7
<1> QED
  BY <1>2, <1>4, <1>5, <1>7, <1>8 DEF e, h

LEMMA Equipped ==
  ASSUME IInv
  PROVE  EquippedAsPublished
<1> SUFFICES ASSUME Honest, NEW m \in Members
             PROVE  /\ \A h \in Held(m) :
                         LET past_e == past[Main][h.env.epoch + 1]
                         IN /\ h.env = EnvelopeOf(Agora, h.env.epoch, Main, Main)
                            /\ h.view = Body(Agora, h.env.epoch, past_e)
                            /\ m \in past_e.live \ past_e.revoked
                    /\ \A e \in 0..Epoch :
                         LET keys == [i \in DOMAIN holds[m] |-> holds[m][i].view.tag_key]
                         IN Resolve(keys, "message", RoutingTag(TagKey(Agora, e), "message")) # << >>
                              => m \notin past[Main][e + 1].revoked
  BY Zenon DEF EquippedAsPublished
<1>1. IsSequence(holds[m])
  BY DEF IInv, HoldingsOK
<1>2. Range(holds[m]) = {holds[m][i] : i \in 1..Len(holds[m])} /\ DOMAIN holds[m] = 1..Len(holds[m])
  BY <1>1, SequenceShape
<1>3. ASSUME NEW h \in Held(m)
      PROVE  /\ h.env = EnvelopeOf(Agora, h.env.epoch, Main, Main)
             /\ h.view = Body(Agora, h.env.epoch, past[Main][h.env.epoch + 1])
             /\ m \in past[Main][h.env.epoch + 1].live \ past[Main][h.env.epoch + 1].revoked
  <2>1. PICK i \in 1..Len(holds[m]) : h = holds[m][i]
    BY <1>2 DEF Held
  <2>2. /\ h.env = EnvelopeOf(Agora, h.env.epoch, Main, Main)
        /\ h.view = Body(Agora, h.env.epoch, past[Main][h.env.epoch + 1])
        /\ m \in Served(past[Main][h.env.epoch + 1])
    BY <2>1, HeldIsFixed
  <2> QED
    BY <2>2 DEF Served
<1>4. ASSUME NEW e \in 0..Epoch,
             Resolve([i \in DOMAIN holds[m] |-> holds[m][i].view.tag_key], "message",
                     RoutingTag(TagKey(Agora, e), "message")) # << >>
      PROVE  m \notin past[Main][e + 1].revoked
  <2> DEFINE keys == [i \in DOMAIN holds[m] |-> holds[m][i].view.tag_key]
  <2>1. \E i \in DOMAIN keys : RoutingTag(keys[i], "message") = RoutingTag(TagKey(Agora, e), "message")
    BY <1>4 DEF Resolve
  <2>2. PICK i \in 1..Len(holds[m]) : holds[m][i].view.tag_key = TagKey(Agora, e)
    BY <1>2, <2>1 DEF RoutingTag
  <2> DEFINE f == holds[m][i].env.epoch
  <2>3. /\ holds[m][i].view = Body(Agora, f, past[Main][f + 1])
        /\ m \in Served(past[Main][f + 1])
    BY HeldIsFixed
  <2>4. TagKey(Agora, f) = TagKey(Agora, e)
    <3>1. ASSUME NEW view, NEW g, NEW p, view = Body(Agora, g, p)
          PROVE  view.tag_key = TagKey(Agora, g)
      BY <3>1 DEF Body
    <3> QED
      BY <2>2, <2>3, <3>1
  <2>5. f = e
    BY <2>4 DEF TagKey
  <2> QED
    BY <2>3, <2>5 DEF Served
<1> QED
  BY <1>3, <1>4, Zenon

LEMMA Advances ==
  ASSUME IInv
  PROVE  ViewsOnlyAdvance
<1> SUFFICES ASSUME NEW m \in Members, NEW i \in DOMAIN holds[m], NEW j \in DOMAIN holds[m], i < j
             PROVE  /\ holds[m][i].env.epoch < holds[m][j].env.epoch
                    /\ Honest => Range(holds[m][i].view.revoked) \subseteq Range(holds[m][j].view.revoked)
  BY DEF ViewsOnlyAdvance
<1>1. IsSequence(holds[m]) /\ Increasing(holds[m])
  BY DEF IInv, HoldingsOK
<1>2. i \in 1..Len(holds[m]) /\ j \in 1..Len(holds[m])
  BY <1>1, SequenceShape
<1>e. PICK e, f : e = holds[m][i].env.epoch /\ f = holds[m][j].env.epoch
  OBVIOUS
<1>3. e < f
  BY <1>1, <1>2, <1>e DEF Increasing
<1>4. ASSUME Honest
      PROVE  Range(holds[m][i].view.revoked) \subseteq Range(holds[m][j].view.revoked)
  <2>e. PICK x, y : x = past[Main][e + 1].revoked /\ y = past[Main][f + 1].revoked
    OBVIOUS
  <2>1. /\ e + 1 \in 1..Len(past[Main]) /\ e \in 0..Epoch
        /\ holds[m][i].view = Body(Agora, e, past[Main][e + 1]) /\ IsFiniteSet(x)
    BY <1>2, <1>4, <1>e, <2>e, HeldIsFixed
  <2>2. /\ f + 1 \in 1..Len(past[Main]) /\ f \in 0..Epoch
        /\ holds[m][j].view = Body(Agora, f, past[Main][f + 1]) /\ IsFiniteSet(y)
    BY <1>2, <1>4, <1>e, <2>e, HeldIsFixed
  <2>3. Epoch \in Nat /\ Main \in branches
    BY DEF IInv, HistoryOK, Epoch
  <2>4. e + 1 <= f + 1
    BY <1>3, <2>1, <2>2, <2>3
  <2>5. x \subseteq y
    <3>1. \A k, l \in 1..Len(past[Main]) :
            k <= l => past[Main][k].revoked \subseteq past[Main][l].revoked
      BY <2>3 DEF IInv, HistoryOK
    <3> QED
      BY <2>e, <2>1, <2>2, <2>4, <3>1
  <2>6. holds[m][i].view.revoked = SetToSeq(x) /\ holds[m][j].view.revoked = SetToSeq(y)
    <3>1. ASSUME NEW view, NEW g, NEW p, view = Body(Agora, g, p)
          PROVE  view.revoked = SetToSeq(p.revoked)
      BY <3>1 DEF Body
    <3>2. /\ holds[m][i].view = Body(Agora, e, past[Main][e + 1])
          /\ holds[m][j].view = Body(Agora, f, past[Main][f + 1])
      BY <2>1, <2>2
    <3> QED
      BY <2>e, <3>1, <3>2
  <2>7. Range(SetToSeq(x)) = x /\ Range(SetToSeq(y)) = y
    BY <2>1, <2>2, SetToSeqShape
  <2> QED
    BY <2>5, <2>6, <2>7
<1> QED
  BY <1>e, <1>3, <1>4

LEMMA NeverAccused ==
  ASSUME IInv
  PROVE  HonestNeverAccused
<1> SUFFICES ASSUME Honest
             PROVE  /\ LET all == Published(Agora) \cup Published(Other)
                       IN \A one, another, served \in all : \A field \in Fields :
                            ~EnvelopeEquivocation(StatementKey, Agora, Relayed(one, another, field), served)
                    /\ LET log == Log(Main) IN
                       /\ \A a, b \in Range(Heads(log)) : ~Equivocation(a, b, LogKey)
                       /\ \A n \in 0..Len(log) :
                            /\ Conforms(SubSeq(log, 1, n))
                            /\ VerifyLog(SubSeq(log, 1, n), Range(Heads(SubSeq(log, 1, n))), LogKey)
  BY Zenon DEF HonestNeverAccused
<1> DEFINE all == Published(Agora) \cup Published(Other)
           log == Log(Main)
<1>1. ASSUME NEW one \in all, NEW another \in all, NEW served \in all, NEW field \in Fields,
             EnvelopeEquivocation(StatementKey, Agora, Relayed(one, another, field), served)
      PROVE  FALSE
  <2> DEFINE env == Relayed(one, another, field)
             e   == env.epoch
  <2>1. /\ env.epoch = served.epoch /\ Digest(Agora, env) # Digest(Agora, served)
        /\ EnvelopeVerifies(StatementKey, Agora, env) /\ EnvelopeVerifies(StatementKey, Agora, served)
    BY <1>1 DEF EnvelopeEquivocation
  <2>2. env = EnvelopeOf(Agora, env.epoch, Main, Main)
    BY <2>1, RelayedIsPublished DEF Honest
  <2>3. PICK agora \in {Agora, Other}, f \in 0..Epoch : served = EnvelopeOf(agora, f, Main, Main)
    BY DEF Published, Honest
  <2>4. EnvelopeShape(agora, f, Main, Main, served)
    BY <2>3, EnvelopeFields
  <2>5. served.epoch = f /\ served.signature = Sign(Seed, Digest(agora, served))
    BY <2>4 DEF EnvelopeShape
  <2>6. served.signature = Sign(Seed, Digest(Agora, served))
    BY <2>1, VerifiesIsSigned
  <2>7. Digest(Agora, served) = Digest(agora, served)
    BY <2>5, <2>6, SignInjective
  <2>8. agora = Agora
    BY <2>7, DigestInjective
  <2> HIDE DEF env
  <2> QED
    BY <2>1, <2>2, <2>3, <2>5, <2>8
<1>2. Epoch \in Nat /\ Main \in branches
  BY DEF IInv, HistoryOK, Epoch
<1>3. IsSequence(log)
  <2>1. 0 \in 0..Epoch
    BY <1>2
  <2> QED
    BY <1>2, <2>1, LogIsSequence
<1>4. \A i, j \in 1..Len(log) : i < j => log[i].epoch <= log[j].epoch /\ log[i].kind # "Frozen"
  <2> DEFINE body == Entries(Main, Epoch)
             last == [kind |-> "Frozen", epoch |-> Epoch, of |-> << >>]
             end  == IF frozen THEN <<last>> ELSE << >>
  <2>1. /\ IsSequence(body)
        /\ \A i, j \in 1..Len(body) :
             /\ i < j => body[i].epoch <= body[j].epoch
             /\ body[i].epoch \in 0..Epoch /\ body[i].kind # "Frozen"
    <3>1. Epoch \in 0..Epoch
      BY <1>2
    <3> QED
      BY <1>2, <3>1, LogIsSequence
  <2>2. log = body \o end
    BY DEF Log
  <2>3. IsSequence(end) /\ (Len(end) = 0 \/ (Len(end) = 1 /\ end[1].epoch = Epoch))
    <3>1. CASE frozen
      BY <3>1, SmallSequences
    <3>2. CASE ~frozen
      BY <3>2, SmallSequences
    <3> QED
      BY <3>1, <3>2
  <2> HIDE DEF body, end, log
  <2>4. /\ Len(log) = Len(body) + Len(end)
        /\ \A i \in 1..Len(body) : log[i] = body[i]
        /\ \A i \in 1..Len(end) : log[Len(body) + i] = end[i]
    <3>1. IsSequence(body) /\ IsSequence(end)
      BY <2>1, <2>3
    <3> QED
      BY <2>2, <3>1, ConcatShape
  <2>5. Len(body) \in Nat
    BY <2>1, SequenceShape
  <2> SUFFICES ASSUME NEW i \in 1..Len(log), NEW j \in 1..Len(log), i < j
               PROVE  log[i].epoch <= log[j].epoch /\ log[i].kind # "Frozen"
    OBVIOUS
  <2>6. i \in 1..Len(body) /\ (j \in 1..Len(body) \/ (j = Len(body) + 1 /\ Len(end) = 1))
    BY <2>3, <2>4, <2>5
  <2>7. CASE j \in 1..Len(body)
    BY <2>1, <2>4, <2>6, <2>7
  <2>8. CASE j = Len(body) + 1 /\ Len(end) = 1
    <3>1. log[j].epoch = Epoch
      BY <2>3, <2>4, <2>8
    <3>2. log[i].epoch \in 0..Epoch /\ log[i].kind # "Frozen"
      BY <2>1, <2>4, <2>6
    <3> QED
      BY <1>2, <3>1, <3>2
  <2> QED
    BY <2>6, <2>7, <2>8
<1> HIDE DEF log
<1>5. ASSUME NEW n \in 0..Len(log) PROVE Conforms(SubSeq(log, 1, n))
  <2> DEFINE cut == SubSeq(log, 1, n)
  <2>1. IsSequence(cut) /\ Len(cut) = n /\ \A i \in 1..n : cut[i] = log[i]
    BY <1>3, PrefixShape
  <2>2. Len(log) \in Nat /\ DOMAIN cut = 1..n
    BY <1>3, <2>1, SequenceShape
  <2> HIDE DEF cut
  <2>3. ASSUME NEW i \in DOMAIN cut, NEW j \in DOMAIN cut, i < j
        PROVE  cut[i].epoch <= cut[j].epoch /\ cut[i].kind # "Frozen"
    <3>1. i \in 1..Len(log) /\ j \in 1..Len(log) /\ cut[i] = log[i] /\ cut[j] = log[j]
      BY <2>1, <2>2
    <3> QED
      BY <1>4, <2>3, <3>1
  <2>4. Conforms(cut)
    BY <2>3 DEF Conforms
  <2> QED
    BY <2>4 DEF cut
<1>6. ASSUME NEW n \in 0..Len(log)
      PROVE  VerifyLog(SubSeq(log, 1, n), Range(Heads(SubSeq(log, 1, n))), LogKey)
  <2> DEFINE cut == SubSeq(log, 1, n)
  <2>1. IsSequence(cut)
    BY <1>3, PrefixShape
  <2> HIDE DEF cut
  <2>2. ASSUME NEW head \in Range(Heads(cut))
        PROVE  /\ head.sequence + 1 \in DOMAIN cut
               /\ Chain(cut)[head.sequence + 1] = head.head
               /\ HeadVerifies(head, LogKey)
    BY <2>1, HeadOfEntry
  <2>3. VerifyLog(cut, Range(Heads(cut)), LogKey)
    BY <2>2 DEF VerifyLog
  <2> QED
    BY <2>3 DEF cut
<1>7. ASSUME NEW a \in Range(Heads(log)), NEW b \in Range(Heads(log)), Equivocation(a, b, LogKey)
      PROVE  FALSE
  <2>1. a.head = Chain(log)[a.sequence + 1] /\ b.head = Chain(log)[b.sequence + 1]
    BY <1>3, HeadOfEntry
  <2> QED
    BY <1>7, <2>1 DEF Equivocation
<1> QED
  BY <1>1, <1>5, <1>6, <1>7, Zenon DEF log

-------------------------------------------------------------------------------
(* Theorems.                                                               *)

(* Whatever a forking operator signs and however relays recombine it,      *)
(* members who see an epoch differently hold the signed proof of it        *)
(* (bulletin.rs envelope_equivocation), and so do auditors whose verified  *)
(* logs differ (operator/log.rs equivocation).                             *)
THEOREM ForksAreAlwaysProvable == Spec => []ForksAreProvable
<1>1. IInv => ForksAreProvable
  BY EnvelopesFork, LogsFork DEF ForksAreProvable
<1> QED
  BY <1>1, InvariantHolds, PTL

(* An honest operator's member is equipped only from the envelope          *)
(* published for its own agora, with exactly what that epoch was fixed as, *)
(* and only where it was to be served (bulletin.rs accept_envelope,        *)
(* open_own_ciphertext, BodyView::open).                                   *)
THEOREM EquippedOnlyAsPublished == Spec => []EquippedAsPublished
<1>1. IInv => EquippedAsPublished
  BY Equipped
<1> QED
  BY <1>1, InvariantHolds, PTL

(* No repeated or delayed envelope takes a member back in time, or brings  *)
(* back what was excluded (bulletin.rs accept_envelope).                   *)
THEOREM ViewsAlwaysAdvance == Spec => []ViewsOnlyAdvance
<1>1. IInv => ViewsOnlyAdvance
  BY Advances
<1> QED
  BY <1>1, InvariantHolds, PTL

(* Nothing an honest operator signs, and nothing made of it, accuses it:   *)
(* not its envelopes, not its heads, not any cut of its log (bulletin.rs   *)
(* envelope_equivocation; operator/log.rs verify_log, conforms).           *)
THEOREM HonestIsNeverAccused == Spec => []HonestNeverAccused
<1>1. IInv => HonestNeverAccused
  BY NeverAccused
<1> QED
  BY <1>1, InvariantHolds, PTL
===============================================================================
