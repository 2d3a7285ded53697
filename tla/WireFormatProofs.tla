--------------------------- MODULE WireFormatProofs ---------------------------
(***************************************************************************)
(* Encodings are canonical and an armored artifact is recovered, for every *)
(* width and every set of artifacts.                                       *)
(*                                                                         *)
(* Part 1: a number is its little-endian bytes, and a length that the      *)
(* host's usize holds fits the prefix.  Part 2: each reader of a field     *)
(* undoes its writer, and what it accepts its writer would have written.   *)
(* Part 3: the same for the fields of a format in order, the bytes written *)
(* after each field being a prefix of the whole, and for the frames of a   *)
(* hash.  Part 4: what the channel carries as bytes.                       *)
(*                                                                         *)
(* Part 5: a group of bytes is a group of characters, digit by digit.      *)
(* Part 6: a sequence is its groups in order, all full but the last.       *)
(* Part 7: so the characters decode to the bytes, and the bytes encode to  *)
(* the characters but for the last one's spare bits.  Part 8: dropping the *)
(* whitespace commutes with concatenation.  Part 9: stripping removes      *)
(* nothing but whitespace and one pair of quotes.  Part 10: an armor opens *)
(* as what it holds, and what opens is that armor.  Part 11: what the      *)
(* channel carries as text.                                                *)
(***************************************************************************)
EXTENDS WireFormats, SequenceLemmas

-------------------------------------------------------------------------------
(* Recursion with a step that is itself a function.                        *)

Runs(f, n, S, first, step) ==
  /\ f \in [0..n -> S]
  /\ f[0] = first /\ \A i \in 1..n : f[i] = step[i][f[i - 1]]

LEMMA RecursionExists ==
  ASSUME NEW n \in Nat, NEW S, NEW first \in S, NEW step \in [1..n -> [S -> S]]
  PROVE  \E f : Runs(f, n, S, first, step)
<1> DEFINE Upto(f, d) == /\ f \in [0..d -> S]
                         /\ f[0] = first /\ \A i \in 1..d : f[i] = step[i][f[i - 1]]
           T == {d \in Nat : d <= n => \E f : Upto(f, d)}
<1>1. 0 \in T
  <2>1. Upto([i \in 0..0 |-> first], 0)
    OBVIOUS
  <2> QED
    BY <2>1
<1>2. ASSUME NEW d \in Nat, d \in T PROVE d + 1 \in T
  <2> SUFFICES ASSUME d + 1 <= n PROVE \E f : Upto(f, d + 1)
    OBVIOUS
  <2>1. PICK g : Upto(g, d)
    BY <1>2
  <2> DEFINE last == step[d + 1][g[d]]
             h == [i \in 0..(d + 1) |-> IF i = d + 1 THEN last ELSE g[i]]
  <2>2. d \in 0..d /\ g[d] \in S /\ d + 1 \in 1..n
    BY <2>1
  <2>3. last \in S
    BY <2>2
  <2>4. h \in [0..(d + 1) -> S]
    <3>1. \A i \in 0..(d + 1) : i # d + 1 => i \in 0..d
      OBVIOUS
    <3> HIDE DEF last
    <3> QED
      BY <2>1, <2>3, <3>1
  <2>5. h[0] = first
    BY <2>1
  <2>6. ASSUME NEW i \in 1..(d + 1) PROVE h[i] = step[i][h[i - 1]]
    <3>1. i - 1 \in 0..(d + 1) /\ i - 1 # d + 1 /\ i \in 0..(d + 1)
      OBVIOUS
    <3>2. h[i - 1] = g[i - 1]
      BY <3>1
    <3>3. CASE i = d + 1
      <4>1. i - 1 = d /\ h[i] = last
        BY <3>1, <3>3
      <4> HIDE DEF h
      <4> QED
        BY <3>2, <3>3, <4>1
    <3>4. CASE i # d + 1
      <4>1. i \in 1..d /\ h[i] = g[i]
        BY <3>1, <3>4
      <4> HIDE DEF h
      <4> QED
        BY <2>1, <3>2, <4>1
    <3> QED
      BY <3>3, <3>4
  <2> HIDE DEF h
  <2>7. Upto(h, d + 1)
    BY <2>4, <2>5, <2>6
  <2> QED
    BY <2>7
<1> HIDE DEF T
<1>3. n \in T
  BY <1>1, <1>2, Induct
<1> QED
  BY <1>3 DEF T, Runs

-------------------------------------------------------------------------------
(* Part 1: numbers and their bytes.                                        *)

LEMMA DigitSplit ==
  ASSUME NEW x \in Nat
  PROVE  /\ x % Radix \in Bytes /\ x \div Radix \in Nat
         /\ x = ((x \div Radix) * Radix) + (x % Radix)
BY WidthAssumption DEF Bytes

LEMMA DigitOf ==
  ASSUME NEW x \in Nat, NEW d \in Bytes
  PROVE  /\ x * Radix + d \in Nat
         /\ (x * Radix + d) \div Radix = x /\ (x * Radix + d) % Radix = d
<1> DEFINE y == x * Radix + d
           q == y \div Radix
           r == y % Radix
<1>1. Radix \in Nat /\ Radix > 0 /\ d \in Nat /\ d < Radix
  BY WidthAssumption DEF Bytes
<1>2. x * Radix \in Nat /\ y \in Nat
  BY <1>1
<1> HIDE DEF y
<1>3. q \in Nat /\ r \in Nat /\ r < Radix /\ y = (q * Radix) + r
  BY <1>1, <1>2
<1> HIDE DEF q, r
<1>4. q * Radix \in Nat
  BY <1>1, <1>3
<1>5. ~(q < x)
  <2>1. SUFFICES ASSUME q + 1 <= x PROVE FALSE
    BY <1>3
  <2>2. (q + 1) * Radix <= x * Radix /\ (q + 1) * Radix = q * Radix + Radix
    BY <1>1, <1>3, <2>1
  <2> QED
    BY <1>1, <1>2, <1>3, <1>4, <2>2 DEF y
<1>6. ~(x < q)
  <2>1. SUFFICES ASSUME x + 1 <= q PROVE FALSE
    BY <1>3
  <2>2. (x + 1) * Radix <= q * Radix /\ (x + 1) * Radix = x * Radix + Radix
    BY <1>1, <1>3, <2>1
  <2> QED
    BY <1>1, <1>2, <1>3, <1>4, <2>2 DEF y
<1>7. q = x
  BY <1>3, <1>5, <1>6
<1>8. r = d
  BY <1>1, <1>2, <1>3, <1>7 DEF y
<1> QED
  BY <1>2, <1>7, <1>8 DEF q, r, y

(* The digits left after i of them are taken.                              *)
LEMMA LEUnfolds ==
  ASSUME NEW n \in Nat, NEW width \in Nat
  PROVE  \E left \in [0..width -> Nat] :
           /\ left[0] = n /\ \A i \in 1..width : left[i] = left[i - 1] \div Radix
           /\ LE(n, width) = [i \in 1..width |-> left[i - 1] % Radix]
<1> DEFINE Built(f) == f = [i \in 0..width |-> IF i = 0 THEN n ELSE f[i - 1] \div Radix]
           left == CHOOSE f : Built(f)
           step == [i \in 1..width |-> [x \in Nat |-> x \div Radix]]
<1>1. step \in [1..width -> [Nat -> Nat]]
  BY DigitSplit
<1> HIDE DEF step
<1>2. PICK g : Runs(g, width, Nat, n, step)
  BY <1>1, RecursionExists
<1> USE DEF step
<1>3. ASSUME NEW i \in 1..width PROVE g[i] = g[i - 1] \div Radix
  <2>1. i - 1 \in 0..width
    OBVIOUS
  <2> QED
    BY <1>2, <2>1 DEF Runs
<1> HIDE DEF step
<1>4. Built(g)
  <2>1. \A i \in 0..width : i # 0 => i \in 1..width
    OBVIOUS
  <2> QED
    BY <1>2, <1>3, <2>1 DEF Runs
<1>5. Built(left)
  <2> HIDE DEF Built
  <2> QED
    BY <1>4
<1>6. LE(n, width) = [i \in 1..width |-> left[i - 1] % Radix]
  BY DEF LE
<1> HIDE DEF left
<1>7. left[0] = n /\ \A i \in 1..width : left[i] = left[i - 1] \div Radix
  BY <1>5
<1> DEFINE S == {i \in Nat : i <= width => left[i] \in Nat}
<1>8. 0 \in S
  BY <1>7
<1>9. ASSUME NEW i \in Nat, i \in S PROVE i + 1 \in S
  <2> SUFFICES ASSUME i + 1 <= width PROVE left[i + 1] \in Nat
    OBVIOUS
  <2>1. i + 1 \in 1..width /\ (i + 1) - 1 = i
    OBVIOUS
  <2>2. left[i] \in Nat /\ left[i + 1] = left[i] \div Radix
    BY <1>7, <1>9, <2>1
  <2> QED
    BY <2>2, DigitSplit
<1> HIDE DEF S
<1>10. Nat \subseteq S
  BY <1>8, <1>9, Induct
<1>11. ASSUME NEW i \in 0..width PROVE left[i] \in Nat
  <2>1. i \in Nat /\ i <= width
    OBVIOUS
  <2> QED
    BY <1>10, <2>1 DEF S
<1>12. left \in [0..width -> Nat]
  <2>1. left = [i \in 0..width |-> left[i]]
    BY <1>5
  <2> HIDE DEF Built
  <2> QED
    BY <1>11, <2>1
<1> QED
  BY <1>6, <1>7, <1>12

LEMMA NumberUnfolds ==
  ASSUME NEW bytes \in Seq(Bytes)
  PROVE  \E value \in [0..Len(bytes) -> Nat] :
           /\ value[0] = 0
           /\ \A i \in 1..Len(bytes) :
                bytes[Len(bytes) - i + 1] \in Bytes
                /\ value[i] = value[i - 1] * Radix + bytes[Len(bytes) - i + 1]
           /\ Number(bytes) = value[Len(bytes)]
<1> DEFINE n == Len(bytes)
           digit(i) == bytes[n - i + 1]
           Built(f) == f = [i \in 0..n |-> IF i = 0 THEN 0 ELSE f[i - 1] * Radix + digit(i)]
           value == CHOOSE f : Built(f)
           step == [i \in 1..n |-> [x \in Nat |-> x * Radix + digit(i)]]
<1>0. n \in Nat
  OBVIOUS
<1>1. ASSUME NEW i \in 1..n PROVE digit(i) \in Bytes
  <2>1. n - i + 1 \in 1..n
    BY <1>0
  <2> QED
    BY <2>1
<1> HIDE DEF digit, n
<1>2. step \in [1..n -> [Nat -> Nat]]
  BY <1>1, DigitOf
<1> HIDE DEF step
<1>3. PICK g : Runs(g, n, Nat, 0, step)
  <2>1. 0 \in Nat
    OBVIOUS
  <2> QED
    BY <1>0, <1>2, <2>1, RecursionExists
<1> USE DEF step
<1>4. ASSUME NEW i \in 1..n PROVE g[i] = g[i - 1] * Radix + digit(i)
  <2>1. i - 1 \in 0..n
    BY <1>0
  <2>2. g[i - 1] \in Nat
    BY <1>3, <2>1 DEF Runs
  <2> QED
    BY <1>3, <2>2 DEF Runs
<1> HIDE DEF step
<1>5. Built(g)
  <2>1. \A i \in 0..n : i # 0 => i \in 1..n
    BY <1>0
  <2> QED
    BY <1>3, <1>4, <2>1 DEF Runs
<1>6. Built(value)
  <2> HIDE DEF Built
  <2> QED
    BY <1>5
<1>7. Number(bytes) = value[n]
  BY DEF Number, n, digit
<1> HIDE DEF value
<1>8. value[0] = 0 /\ \A i \in 1..n : value[i] = value[i - 1] * Radix + digit(i)
  BY <1>0, <1>6
<1> DEFINE S == {i \in Nat : i <= n => value[i] \in Nat}
<1>9. 0 \in S
  BY <1>8
<1>10. ASSUME NEW i \in Nat, i \in S PROVE i + 1 \in S
  <2> SUFFICES ASSUME i + 1 <= n PROVE value[i + 1] \in Nat
    OBVIOUS
  <2>1. i + 1 \in 1..n /\ (i + 1) - 1 = i
    BY <1>0
  <2>2. value[i] \in Nat /\ value[i + 1] = value[i] * Radix + digit(i + 1)
    BY <1>0, <1>8, <1>10, <2>1
  <2> QED
    BY <1>1, <2>1, <2>2, DigitOf
<1> HIDE DEF S
<1>11. Nat \subseteq S
  BY <1>9, <1>10, Induct
<1>12. ASSUME NEW i \in 0..n PROVE value[i] \in Nat
  <2>1. i \in Nat /\ i <= n
    BY <1>0
  <2>2. i \in S
    BY <1>11, <2>1
  <2> QED
    BY <2>1, <2>2 DEF S
<1>13. value \in [0..n -> Nat]
  <2>1. value = [i \in 0..n |-> value[i]]
    BY <1>6
  <2> HIDE DEF Built
  <2> QED
    BY <1>12, <2>1
<1>14. \A i \in 1..n : digit(i) \in Bytes /\ value[i] = value[i - 1] * Radix + digit(i)
  BY <1>1, <1>8
<1>15. value[0] = 0
  BY <1>8
<1>16. value \in [0..Len(bytes) -> Nat] /\ Number(bytes) = value[Len(bytes)]
  BY <1>7, <1>13 DEF n
<1>17. \A i \in 1..Len(bytes) :
          /\ bytes[Len(bytes) - i + 1] \in Bytes
          /\ value[i] = value[i - 1] * Radix + bytes[Len(bytes) - i + 1]
  BY <1>14 DEF n, digit
<1> QED
  BY <1>15, <1>16, <1>17, Zenon

LEMMA LEShape ==
  ASSUME NEW n \in Nat, NEW width \in Nat
  PROVE  LE(n, width) \in Seq(Bytes) /\ Len(LE(n, width)) = width
<1>1. PICK left \in [0..width -> Nat] :
        /\ left[0] = n /\ \A i \in 1..width : left[i] = left[i - 1] \div Radix
        /\ LE(n, width) = [i \in 1..width |-> left[i - 1] % Radix]
  BY LEUnfolds, Zenon
<1>2. ASSUME NEW i \in 1..width PROVE left[i - 1] % Radix \in Bytes
  <2>1. i - 1 \in 0..width
    OBVIOUS
  <2> QED
    BY <2>1, DigitSplit
<1>3. LE(n, width) \in [1..width -> Bytes]
  BY <1>1, <1>2
<1> QED
  BY <1>3, SeqDef, LenProperties

LEMMA NumberIsNat ==
  ASSUME NEW bytes \in Seq(Bytes)
  PROVE  Number(bytes) \in Nat
<1>1. Len(bytes) \in Nat
  OBVIOUS
<1> QED
  BY <1>1, NumberUnfolds

(* Dividing keeps the order of two numbers.                                *)
LEMMA DigitOrder ==
  ASSUME NEW x \in Nat, NEW y \in Nat, x <= y
  PROVE  x \div Radix <= y \div Radix
<1> DEFINE a == x \div Radix
           b == y \div Radix
           c == x % Radix
           d == y % Radix
<1>1. /\ a \in Nat /\ b \in Nat /\ c \in Bytes /\ d \in Bytes
      /\ x = (a * Radix) + c /\ y = (b * Radix) + d
  BY DigitSplit
<1> HIDE DEF a, b, c, d
<1>2. Radix \in Nat /\ c \in Nat /\ d \in Nat /\ d < Radix
  BY <1>1, WidthAssumption DEF Bytes
<1>3. SUFFICES ASSUME b + 1 <= a PROVE FALSE
  BY <1>1 DEF a, b
<1>4. /\ (b + 1) * Radix <= a * Radix /\ (b + 1) * Radix = (b * Radix) + Radix
      /\ a * Radix \in Nat /\ b * Radix \in Nat
  BY <1>1, <1>2, <1>3
<1> QED
  BY <1>1, <1>2, <1>4

LEMMA LEOfNumber ==
  ASSUME NEW bytes \in Seq(Bytes)
  PROVE  LE(Number(bytes), Len(bytes)) = bytes
<1> DEFINE w == Len(bytes)
           n == Number(bytes)
<1>1. w \in Nat /\ n \in Nat
  BY NumberIsNat
<1>2. PICK value \in [0..w -> Nat] :
        /\ value[0] = 0
        /\ \A i \in 1..w : /\ bytes[w - i + 1] \in Bytes
                           /\ value[i] = value[i - 1] * Radix + bytes[w - i + 1]
        /\ n = value[w]
  BY NumberUnfolds
<1>3. PICK left \in [0..w -> Nat] :
        /\ left[0] = n /\ \A i \in 1..w : left[i] = left[i - 1] \div Radix
        /\ LE(n, w) = [i \in 1..w |-> left[i - 1] % Radix]
  BY <1>1, LEUnfolds
<1> HIDE DEF n
<1>4. ASSUME NEW i \in 1..w
      PROVE  /\ value[w - i] \in Nat /\ bytes[i] \in Bytes
             /\ value[w - (i - 1)] = value[w - i] * Radix + bytes[i]
  <2>1. /\ w - i + 1 \in 1..w /\ w - (w - i + 1) + 1 = i /\ (w - i + 1) - 1 = w - i
        /\ w - i \in 0..w /\ w - (i - 1) = w - i + 1
    BY <1>1
  <2> HIDE DEF w
  <2> QED
    BY <1>2, <2>1
<1> DEFINE S == {i \in Nat : i <= w => left[i] = value[w - i]}
<1>5. 0 \in S
  BY <1>1, <1>2, <1>3
<1>6. ASSUME NEW i \in Nat, i \in S PROVE i + 1 \in S
  <2> SUFFICES ASSUME i + 1 <= w PROVE left[i + 1] = value[w - (i + 1)]
    OBVIOUS
  <2>1. i + 1 \in 1..w /\ (i + 1) - 1 = i
    BY <1>1
  <2>2. left[i] = value[w - (i + 1)] * Radix + bytes[i + 1]
    BY <1>4, <1>6, <2>1, <1>1
  <2>3. left[i + 1] = left[i] \div Radix
    BY <1>3, <2>1
  <2>4. value[w - (i + 1)] \in Nat /\ bytes[i + 1] \in Bytes
    BY <1>4, <2>1
  <2> QED
    BY <2>2, <2>3, <2>4, DigitOf
<1> HIDE DEF S
<1>7. Nat \subseteq S
  BY <1>5, <1>6, Induct
<1>8. ASSUME NEW i \in 1..w PROVE LE(n, w)[i] = bytes[i]
  <2>1. i - 1 \in Nat /\ i - 1 <= w
    BY <1>1
  <2>2. left[i - 1] = value[w - (i - 1)]
    BY <1>7, <2>1 DEF S
  <2>3. left[i - 1] = value[w - i] * Radix + bytes[i]
    BY <1>4, <2>2
  <2>4. LE(n, w)[i] = left[i - 1] % Radix
    BY <1>3
  <2> QED
    BY <1>4, <2>3, <2>4, DigitOf
<1>9. LE(n, w) \in Seq(Bytes) /\ Len(LE(n, w)) = w
  BY <1>1, LEShape
<1> QED
  BY <1>8, <1>9, SeqEqual DEF n

LEMMA NumberOfLE ==
  ASSUME NEW n \in Nat, n <= USizeMax
  PROVE  Number(LE(n, LengthPrefix)) = n
<1> DEFINE w == LengthPrefix
           le == LE(n, w)
<1>1. w \in Nat /\ USizeMax \in Nat
  BY WidthAssumption
<1>2. PICK digits \in [1..w -> Bytes] : USizeMax <= Number(digits)
  BY WidthAssumption
<1>3. digits \in Seq(Bytes) /\ Len(digits) = w
  BY <1>1, SeqDef, LenProperties
<1>4. PICK most \in [0..w -> Nat] :
        /\ most[0] = 0
        /\ \A i \in 1..w : /\ digits[w - i + 1] \in Bytes
                           /\ most[i] = most[i - 1] * Radix + digits[w - i + 1]
        /\ Number(digits) = most[w]
  BY <1>3, NumberUnfolds
<1>5. PICK left \in [0..w -> Nat] :
        /\ left[0] = n /\ \A i \in 1..w : left[i] = left[i - 1] \div Radix
        /\ le = [i \in 1..w |-> left[i - 1] % Radix]
  BY <1>1, LEUnfolds
<1>6. le \in Seq(Bytes) /\ Len(le) = w
  BY <1>1, LEShape
<1> HIDE DEF le
<1>7. PICK value \in [0..w -> Nat] :
        /\ value[0] = 0
        /\ \A i \in 1..w : /\ le[w - i + 1] \in Bytes
                           /\ value[i] = value[i - 1] * Radix + le[w - i + 1]
        /\ Number(le) = value[w]
  BY <1>6, NumberUnfolds
<1> HIDE DEF w
<1> DEFINE S == {i \in Nat : i <= w => left[i] <= most[w - i]}
<1>8. 0 \in S
  <2>1. w - 0 = w /\ most[w] \in Nat
    BY <1>1, <1>4
  <2> QED
    BY <1>1, <1>2, <1>4, <1>5, <2>1
<1>9. ASSUME NEW i \in Nat, i \in S PROVE i + 1 \in S
  <2> SUFFICES ASSUME i + 1 <= w PROVE left[i + 1] <= most[w - (i + 1)]
    OBVIOUS
  <2>1. /\ i + 1 \in 1..w /\ (i + 1) - 1 = i /\ i \in 0..w /\ i <= w
        /\ w - i \in 1..w /\ (w - i) - 1 = w - (i + 1) /\ w - (i + 1) \in 0..w
    BY <1>1
  <2>2. /\ left[i] \in Nat /\ most[w - i] \in Nat /\ left[i] <= most[w - i]
        /\ most[w - (i + 1)] \in Nat
    <3>1. left[i] <= most[w - i]
      BY <1>9, <2>1
    <3>2. w - i \in 0..w
      BY <1>1, <2>1
    <3>3. most[w - i] \in Nat /\ most[w - (i + 1)] \in Nat
      <4>1. \A x \in 0..w : most[x] \in Nat
        OBVIOUS
      <4> QED
        BY <2>1, <3>2, <4>1
    <3>4. left[i] \in Nat
      <4>1. \A x \in 0..w : left[x] \in Nat
        OBVIOUS
      <4> QED
        BY <2>1, <4>1
    <3> HIDE DEF S
    <3> QED
      BY <3>1, <3>3, <3>4
  <2>3. left[i + 1] = left[i] \div Radix
    BY <1>5, <2>1
  <2>4. /\ digits[w - (w - i) + 1] \in Bytes
        /\ most[w - i] = most[w - (i + 1)] * Radix + digits[w - (w - i) + 1]
    BY <1>4, <2>1
  <2>5. most[w - i] \div Radix = most[w - (i + 1)]
    <3> DEFINE x == most[w - (i + 1)]
               d == digits[w - (w - i) + 1]
    <3>1. x \in Nat /\ d \in Bytes /\ most[w - i] = x * Radix + d
      BY <2>2, <2>4
    <3> HIDE DEF x, d, S
    <3>2. (x * Radix + d) \div Radix = x
      BY <3>1, DigitOf
    <3> QED
      BY <3>1, <3>2 DEF x
  <2> QED
    BY <2>2, <2>3, <2>5, DigitOrder
<1>10. Nat \subseteq S
  <2> HIDE DEF S
  <2> QED
    BY <1>8, <1>9, Induct
<1>11. left[w] = 0
  <2>1. left[w] <= most[w - w] /\ w - w = 0 /\ left[w] \in Nat
    BY <1>1, <1>5, <1>10
  <2> QED
    BY <1>4, <2>1
<1> DEFINE T == {j \in Nat : j <= w => value[j] = left[w - j]}
<1>12. 0 \in T
  BY <1>1, <1>7, <1>11
<1>13. ASSUME NEW j \in Nat, j \in T PROVE j + 1 \in T
  <2> SUFFICES ASSUME j + 1 <= w PROVE value[j + 1] = left[w - (j + 1)]
    OBVIOUS
  <2> DEFINE i == w - j
  <2>1. /\ j + 1 \in 1..w /\ (j + 1) - 1 = j /\ w - (j + 1) + 1 = i /\ j <= w
        /\ i \in 1..w /\ i - 1 = w - (j + 1) /\ i - 1 \in 0..w
    BY <1>1
  <2>2. value[j + 1] = value[j] * Radix + le[i] /\ value[j] = left[i]
    BY <1>7, <1>13, <2>1
  <2> HIDE DEF i
  <2>3. left[i] = left[i - 1] \div Radix /\ le[i] = left[i - 1] % Radix /\ left[i - 1] \in Nat
    BY <1>5, <2>1
  <2>4. left[i - 1] = ((left[i - 1] \div Radix) * Radix) + (left[i - 1] % Radix)
    BY <2>3, DigitSplit
  <2> QED
    BY <2>1, <2>2, <2>3, <2>4
<1>14. Nat \subseteq T
  <2> HIDE DEF T
  <2> QED
    BY <1>12, <1>13, Induct
<1>15. value[w] = left[w - w] /\ w - w = 0
  BY <1>1, <1>14
<1> QED
  BY <1>5, <1>7, <1>15 DEF le, w

-------------------------------------------------------------------------------
(* Part 2: reading a field back.                                           *)

LEMMA Regrouped ==
  ASSUME NEW a \in Seq(Bytes), NEW b \in Seq(Bytes), NEW c \in Seq(Bytes)
  PROVE  (a \o b) \o c = a \o (b \o c)
BY ConcatAssociative

LEMMA TakeSound ==
  ASSUME NEW rest \in Seq(Bytes), NEW n \in Nat, Take(rest, n).ok
  PROVE  LET read == Take(rest, n)
         IN /\ read.value \in Seq(Bytes) /\ Len(read.value) = n
            /\ read.rest \in Seq(Bytes) /\ rest = read.value \o read.rest
<1> DEFINE value == SubSeq(rest, 1, n)
           left  == SubSeq(rest, n + 1, Len(rest))
<1>1. n <= Len(rest) /\ Len(rest) \in Nat
  BY DEF Take, Malformed
<1>2. Take(rest, n) = [ok |-> TRUE, value |-> value, rest |-> left]
  BY <1>1 DEF Take
<1>3. value \in Seq(Bytes) /\ Len(value) = n /\ \A i \in 1..n : value[i] = rest[i]
  <2>1. \A i \in 1..n : rest[i] \in Bytes
    BY <1>1
  <2> QED
    BY <1>1, <2>1, SubSeqProperties
<1>4. /\ left \in Seq(Bytes) /\ Len(left) = Len(rest) - n
      /\ \A i \in 1..(Len(rest) - n) : left[i] = rest[n + i]
  <2>1. \A i \in n + 1..Len(rest) : rest[i] \in Bytes
    BY <1>1
  <2> QED
    BY <1>1, <2>1, SubSeqProperties
<1> HIDE DEF value, left
<1>5. rest = value \o left
  <2>1. /\ IsSequence(rest) /\ IsSequence(value) /\ IsSequence(left)
    BY <1>3, <1>4, SequenceOver
  <2>2. /\ IsSequence(value \o left) /\ Len(value \o left) = Len(rest)
        /\ \A i \in 1..n : (value \o left)[i] = value[i]
        /\ \A i \in 1..(Len(rest) - n) : (value \o left)[n + i] = left[i]
    BY <1>1, <1>3, <1>4, <2>1, ConcatShape
  <2>3. ASSUME NEW i \in 1..Len(rest) PROVE rest[i] = (value \o left)[i]
    <3>1. CASE i <= n
      <4>1. i \in 1..n
        BY <1>1, <3>1
      <4> QED
        BY <1>3, <2>2, <4>1
    <3>2. CASE ~(i <= n)
      <4>1. i - n \in 1..(Len(rest) - n) /\ n + (i - n) = i
        BY <1>1, <3>2
      <4>2. left[i - n] = rest[n + (i - n)]
        BY <1>4, <4>1
      <4>3. (value \o left)[n + (i - n)] = left[i - n]
        BY <2>2, <4>1
      <4> QED
        BY <4>1, <4>2, <4>3
    <3> QED
      BY <3>1, <3>2
  <2> QED
    BY <2>1, <2>2, <2>3, SameElements
<1> QED
  BY <1>2, <1>3, <1>4, <1>5

LEMMA TakeBack ==
  ASSUME NEW value \in Seq(Bytes), NEW rest \in Seq(Bytes)
  PROVE  /\ value \o rest \in Seq(Bytes)
         /\ Take(value \o rest, Len(value)) = [ok |-> TRUE, value |-> value, rest |-> rest]
<1> DEFINE all == value \o rest
           n == Len(value)
<1>1. IsSequence(value) /\ IsSequence(rest) /\ n \in Nat /\ Len(rest) \in Nat
  BY SequenceOver
<1>2. /\ IsSequence(all) /\ Len(all) = n + Len(rest)
      /\ \A i \in 1..n : all[i] = value[i]
      /\ \A i \in 1..Len(rest) : all[n + i] = rest[i]
      /\ Range(all) = Range(value) \cup Range(rest)
  BY <1>1, ConcatShape
<1>3. all \in Seq(Bytes)
  BY <1>2, SequenceOver, SequenceIn
<1> HIDE DEF all
<1>4. SubSeq(all, 0 + 1, 0 + n) = value
  BY <1>1, <1>2, SliceIs
<1>5. SubSeq(all, n + 1, n + Len(rest)) = rest
  BY <1>1, <1>2, SliceIs
<1>6. 0 + 1 = 1 /\ 0 + n = n /\ ~(n > Len(all))
  BY <1>1, <1>2
<1> QED
  BY <1>2, <1>3, <1>4, <1>5, <1>6 DEF Take, all

LEMMA FramedShape ==
  ASSUME NEW body \in Seq(Bytes)
  PROVE  Framed(body) \in Seq(Bytes) /\ Len(Framed(body)) = LengthPrefix + Len(body)
<1>1. LengthPrefix \in Nat /\ Len(body) \in Nat
  BY WidthAssumption
<1>2. LE(Len(body), LengthPrefix) \in Seq(Bytes) /\ Len(LE(Len(body), LengthPrefix)) = LengthPrefix
  BY <1>1, LEShape
<1> QED
  BY <1>2 DEF Framed

LEMMA TakeFramedSound ==
  ASSUME NEW rest \in Seq(Bytes), TakeFramed(rest).ok
  PROVE  LET read == TakeFramed(rest)
         IN /\ read.value \in Seq(Bytes) /\ read.rest \in Seq(Bytes)
            /\ rest = Framed(read.value) \o read.rest
<1> DEFINE prefix == Take(rest, LengthPrefix)
           n == Number(prefix.value)
           read == Take(prefix.rest, n)
<1>1. prefix.ok /\ TakeFramed(rest) = read
  BY DEF TakeFramed, Malformed
<1>2. LengthPrefix \in Nat
  BY WidthAssumption
<1>3. /\ prefix.value \in Seq(Bytes) /\ Len(prefix.value) = LengthPrefix
      /\ prefix.rest \in Seq(Bytes) /\ rest = prefix.value \o prefix.rest
  BY <1>1, <1>2, TakeSound
<1> HIDE DEF prefix
<1>4. n \in Nat /\ LE(n, LengthPrefix) = prefix.value
  BY <1>3, NumberIsNat, LEOfNumber
<1> HIDE DEF n
<1>5. /\ read.value \in Seq(Bytes) /\ Len(read.value) = n
      /\ read.rest \in Seq(Bytes) /\ prefix.rest = read.value \o read.rest
  BY <1>1, <1>3, <1>4, TakeSound
<1> HIDE DEF read
<1>6. rest = Framed(read.value) \o read.rest
  <2>1. rest = prefix.value \o (read.value \o read.rest)
    BY <1>3, <1>5
  <2>2. Framed(read.value) = prefix.value \o read.value
    BY <1>4, <1>5 DEF Framed
  <2>3. (prefix.value \o read.value) \o read.rest = prefix.value \o (read.value \o read.rest)
    <3>1. prefix.value \in Seq(Bytes) /\ read.value \in Seq(Bytes) /\ read.rest \in Seq(Bytes)
      BY <1>3, <1>5
    <3> QED
      BY <3>1, Regrouped, Zenon
  <2> QED
    BY <2>1, <2>2, <2>3
<1> QED
  BY <1>1, <1>5, <1>6

LEMMA TakeFramedBack ==
  ASSUME NEW value \in Seq(Bytes), NEW rest \in Seq(Bytes), Len(value) <= USizeMax
  PROVE  TakeFramed(Framed(value) \o rest) = [ok |-> TRUE, value |-> value, rest |-> rest]
<1> DEFINE le == LE(Len(value), LengthPrefix)
<1>1. /\ LengthPrefix \in Nat /\ USizeMax \in Nat /\ Len(value) \in Nat
  BY WidthAssumption
<1>2. /\ le \in Seq(Bytes) /\ Len(le) = LengthPrefix /\ Number(le) = Len(value)
  BY <1>1, LEShape, NumberOfLE
<1>3. Framed(value) \o rest = le \o (value \o rest)
  <2> HIDE DEF le
  <2>1. (le \o value) \o rest = le \o (value \o rest)
    BY <1>2, Regrouped, Zenon
  <2> QED
    BY <2>1 DEF Framed, le
<1> HIDE DEF le
<1>4. /\ value \o rest \in Seq(Bytes)
      /\ Take(value \o rest, Len(value)) = [ok |-> TRUE, value |-> value, rest |-> rest]
  BY TakeBack
<1>5. Take(Framed(value) \o rest, LengthPrefix) = [ok |-> TRUE, value |-> le, rest |-> value \o rest]
  BY <1>2, <1>3, <1>4, TakeBack
<1> DEFINE prefix == Take(Framed(value) \o rest, LengthPrefix)
<1>6. prefix.ok /\ Number(prefix.value) = Len(value) /\ prefix.rest = value \o rest
  BY <1>2, <1>5
<1> HIDE DEF prefix
<1>7. ~(~prefix.ok \/ Number(prefix.value) > USizeMax)
  BY <1>1, <1>6
<1>8. TakeFramed(Framed(value) \o rest) = Take(prefix.rest, Number(prefix.value))
  BY <1>7, Zenon DEF TakeFramed, prefix
<1> QED
  BY <1>4, <1>6, <1>8

FieldKinds == {"digest", "u64", "framed"}

LEMMA FieldSound ==
  ASSUME NEW kind \in FieldKinds, NEW rest \in Seq(Bytes), TakeField(kind, rest).ok
  PROVE  LET read == TakeField(kind, rest)
         IN /\ read.value \in Seq(Bytes) /\ read.rest \in Seq(Bytes)
            /\ rest = Put(kind, read.value) \o read.rest
<1>0. DigestLen \in Nat /\ U64Len \in Nat
  BY WidthAssumption
<1>1. CASE kind = "digest"
  <2>1. TakeField(kind, rest) = Take(rest, DigestLen)
    BY <1>1 DEF TakeField, TakeDigest
  <2>2. \A value : Put(kind, value) = value
    BY <1>1 DEF Put
  <2>3. Take(rest, DigestLen).ok
    BY <2>1
  <2> DEFINE read == Take(rest, DigestLen)
  <2>4. read.value \in Seq(Bytes) /\ read.rest \in Seq(Bytes) /\ rest = read.value \o read.rest
    BY <1>0, <2>3, TakeSound
  <2> HIDE DEF read
  <2>5. rest = Put(kind, read.value) \o read.rest
    BY <2>2, <2>4
  <2> QED
    BY <2>1, <2>4, <2>5 DEF read
<1>2. CASE kind = "u64"
  <2>1. TakeField(kind, rest) = Take(rest, U64Len)
    BY <1>2 DEF TakeField, TakeU64
  <2>2. \A value : Put(kind, value) = value
    BY <1>2 DEF Put
  <2>3. Take(rest, U64Len).ok
    BY <2>1
  <2> DEFINE read == Take(rest, U64Len)
  <2>4. read.value \in Seq(Bytes) /\ read.rest \in Seq(Bytes) /\ rest = read.value \o read.rest
    BY <1>0, <2>3, TakeSound
  <2> HIDE DEF read
  <2>5. rest = Put(kind, read.value) \o read.rest
    BY <2>2, <2>4
  <2> QED
    BY <2>1, <2>4, <2>5 DEF read
<1>3. CASE kind = "framed"
  <2>1. TakeField(kind, rest) = TakeFramed(rest)
    BY <1>3 DEF TakeField
  <2>2. \A value : Put(kind, value) = Framed(value)
    BY <1>3 DEF Put
  <2> QED
    BY <2>1, <2>2, TakeFramedSound
<1> QED
  BY <1>1, <1>2, <1>3 DEF FieldKinds

LEMMA FieldBack ==
  ASSUME NEW kind \in FieldKinds, NEW value \in Seq(Bytes), NEW rest \in Seq(Bytes),
         Fits(kind, value)
  PROVE  /\ Put(kind, value) \in Seq(Bytes)
         /\ TakeField(kind, Put(kind, value) \o rest)
              = [ok |-> TRUE, value |-> value, rest |-> rest]
<1>1. CASE kind = "digest"
  <2>1. Len(value) = DigestLen /\ Put(kind, value) = value
    BY <1>1 DEF Fits, Put
  <2>2. TakeField(kind, value \o rest) = Take(value \o rest, Len(value))
    BY <1>1, <2>1 DEF TakeField, TakeDigest
  <2> QED
    BY <2>1, <2>2, TakeBack
<1>2. CASE kind = "u64"
  <2>1. Len(value) = U64Len /\ Put(kind, value) = value
    BY <1>2 DEF Fits, Put
  <2>2. TakeField(kind, value \o rest) = Take(value \o rest, Len(value))
    BY <1>2, <2>1 DEF TakeField, TakeU64
  <2> QED
    BY <2>1, <2>2, TakeBack
<1>3. CASE kind = "framed"
  <2>1. Len(value) <= USizeMax /\ Put(kind, value) = Framed(value)
    BY <1>3 DEF Fits, Put
  <2>2. TakeField(kind, Framed(value) \o rest) = TakeFramed(Framed(value) \o rest)
    BY <1>3 DEF TakeField
  <2> QED
    BY <2>1, <2>2, FramedShape, TakeFramedBack
<1> QED
  BY <1>1, <1>2, <1>3 DEF FieldKinds

-------------------------------------------------------------------------------
(* Part 3: what is written one field after the other.                      *)

(* The bytes after each field.                                             *)
Written(f, seqs, S) ==
  /\ f \in [0..Len(seqs) -> Seq(S)]
  /\ f[0] = << >> /\ \A i \in 1..Len(seqs) : f[i] = f[i - 1] \o seqs[i]
  /\ FlattenSeq(seqs) = f[Len(seqs)]

LEMMA FlattenWrites ==
  ASSUME NEW V, NEW seqs \in Seq(Seq(V))
  PROVE  \E f : Written(f, seqs, V)
<1> DEFINE n == Len(seqs)
<1>1. n \in Nat /\ IsSequence(seqs) /\ \A i \in 1..n : seqs[i] \in Seq(V)
  BY SequenceOver
<1>2. << >> \in Seq(V)
  OBVIOUS
<1>3. CASE seqs = << >>
  <2>1. n = 0 /\ FlattenSeq(seqs) = << >>
    BY <1>3 DEF FlattenSeq
  <2>2. Written([i \in 0..0 |-> << >>], seqs, V)
    BY <1>2, <2>1 DEF Written
  <2> QED
    BY <2>2
<1>4. CASE seqs # << >>
  <2>1. PICK g : /\ g = [i \in 1..n |-> IF i = 1 THEN seqs[i] ELSE g[i - 1] \o seqs[i]]
                 /\ FlattenSeq(seqs) = g[n]
    BY <1>1, <1>4, FlattenUnfolds
  <2>2. n > 0
    BY <1>1, <1>4, SequenceShape
  <2> DEFINE S == {i \in Nat : i + 1 <= n => g[i + 1] \in Seq(V)}
  <2> HIDE DEF n
  <2>3. 0 \in S
    <3>1. 1 \in 1..n
      BY <1>1, <2>2
    <3>2. g[1] = seqs[1]
      BY <2>1, <3>1
    <3> QED
      BY <1>1, <3>1, <3>2
  <2>4. ASSUME NEW i \in Nat, i \in S PROVE i + 1 \in S
    <3> SUFFICES ASSUME (i + 1) + 1 <= n PROVE g[(i + 1) + 1] \in Seq(V)
      OBVIOUS
    <3> DEFINE k == (i + 1) + 1
    <3>1. k \in 1..n /\ k # 1 /\ k - 1 = i + 1 /\ i + 1 <= n
      BY <1>1
    <3> HIDE DEF k
    <3>2. g[k] = g[k - 1] \o seqs[k]
      BY <2>1, <3>1
    <3>3. g[k - 1] \in Seq(V) /\ seqs[k] \in Seq(V)
      BY <1>1, <2>4, <3>1
    <3> QED
      BY <3>2, <3>3, ConcatProperties DEF k
  <2> HIDE DEF S
  <2>5. Nat \subseteq S
    BY <2>3, <2>4, Induct
  <2>6. ASSUME NEW i \in 1..n PROVE g[i] \in Seq(V)
    <3>1. i - 1 \in Nat /\ (i - 1) + 1 = i /\ i <= n
      BY <1>1
    <3>2. i - 1 \in S
      BY <2>5, <3>1
    <3> QED
      BY <3>1, <3>2 DEF S
  <2> DEFINE f == [i \in 0..n |-> IF i = 0 THEN << >> ELSE g[i]]
  <2>7. f \in [0..n -> Seq(V)]
    <3>1. \A i \in 0..n : i # 0 => i \in 1..n
      BY <1>1
    <3> QED
      BY <1>2, <2>6, <3>1
  <2>8. ASSUME NEW i \in 1..n PROVE f[i] = f[i - 1] \o seqs[i]
    <3>1. i \in 0..n /\ i # 0 /\ i - 1 \in 0..n
      BY <1>1
    <3>2. f[i] = g[i]
      BY <3>1
    <3>3. CASE i = 1
      <4>1. f[i - 1] = << >> /\ g[i] = seqs[i]
        BY <2>1, <3>1, <3>3
      <4> QED
        BY <1>1, <3>2, <4>1, ConcatEmptySeq
    <3>4. CASE i # 1
      <4>1. i - 1 # 0
        BY <3>4
      <4>2. f[i - 1] = g[i - 1] /\ g[i] = g[i - 1] \o seqs[i]
        BY <2>1, <3>1, <3>4, <4>1
      <4> HIDE DEF f
      <4> QED
        BY <3>2, <4>2
    <3> QED
      BY <3>3, <3>4
  <2>9. f[0] = << >> /\ f[n] = g[n]
    BY <1>1, <2>2
  <2> HIDE DEF f
  <2>10. Written(f, seqs, V)
    BY <2>1, <2>7, <2>8, <2>9 DEF Written, n
  <2> QED
    BY <2>10
<1> QED
  BY <1>3, <1>4

(* Every stretch written is the start of the whole.                        *)
LEMMA WrittenAhead ==
  ASSUME NEW seqs \in Seq(Seq(Bytes)), NEW f, Written(f, seqs, Bytes), NEW i \in 0..Len(seqs)
  PROVE  \E t \in Seq(Bytes) : FlattenSeq(seqs) = f[i] \o t
<1> DEFINE n == Len(seqs)
           S == {k \in Nat : k <= n => \E t \in Seq(Bytes) : f[n] = f[n - k] \o t}
<1>0. n \in Nat /\ \A j \in 1..n : seqs[j] \in Seq(Bytes)
  OBVIOUS
<1>1. /\ \A j \in 0..n : f[j] \in Seq(Bytes)
      /\ \A j \in 1..n : f[j] = f[j - 1] \o seqs[j]
      /\ FlattenSeq(seqs) = f[n]
  BY DEF Written
<1> HIDE DEF n
<1>2. 0 \in S
  <2>1. n - 0 = n /\ n \in 0..n
    BY <1>0
  <2>2. << >> \in Seq(Bytes) /\ f[n] = f[n] \o << >>
    BY <1>1, <2>1, ConcatEmptySeq
  <2> QED
    BY <2>1, <2>2
<1>3. ASSUME NEW k \in Nat, k \in S PROVE k + 1 \in S
  <2> SUFFICES ASSUME k + 1 <= n PROVE \E t \in Seq(Bytes) : f[n] = f[n - (k + 1)] \o t
    OBVIOUS
  <2> DEFINE j == n - k
  <2>1. k <= n /\ j \in 1..n /\ j - 1 = n - (k + 1) /\ j - 1 \in 0..n
    BY <1>0
  <2>2. PICK t \in Seq(Bytes) : f[n] = f[j] \o t
    BY <1>3, <2>1
  <2> HIDE DEF j
  <2>3. f[j] = f[j - 1] \o seqs[j] /\ f[j - 1] \in Seq(Bytes) /\ seqs[j] \in Seq(Bytes)
    BY <1>0, <1>1, <2>1
  <2>4. (f[j - 1] \o seqs[j]) \o t = f[j - 1] \o (seqs[j] \o t)
    BY <2>3, Regrouped
  <2>5. seqs[j] \o t \in Seq(Bytes)
    BY <2>3, ConcatProperties
  <2>6. f[n] = f[j - 1] \o (seqs[j] \o t)
    BY <2>2, <2>3, <2>4
  <2> QED
    BY <2>1, <2>5, <2>6
<1> HIDE DEF S
<1>4. Nat \subseteq S
  BY <1>2, <1>3, Induct
<1>5. n - i \in Nat /\ n - i <= n /\ n - (n - i) = i
  BY <1>0 DEF n
<1>6. n - i \in S
  BY <1>4, <1>5
<1> QED
  BY <1>1, <1>5, <1>6 DEF S

LEMMA FlattenAppend ==
  ASSUME NEW V, NEW seqs \in Seq(Seq(V)), NEW x \in Seq(V)
  PROVE  /\ FlattenSeq(seqs) \in Seq(V)
         /\ FlattenSeq(Append(seqs, x)) = FlattenSeq(seqs) \o x
<1> DEFINE n == Len(seqs)
           more == Append(seqs, x)
<1>1. /\ more \in Seq(Seq(V)) /\ Len(more) = n + 1 /\ n \in Nat
      /\ more[n + 1] = x /\ \A i \in 1..n : more[i] = seqs[i]
  OBVIOUS
<1>2. PICK f : Written(f, seqs, V)
  BY FlattenWrites
<1> HIDE DEF more
<1>3. PICK g : Written(g, more, V)
  BY <1>1, FlattenWrites
<1>4. /\ n \in 0..n /\ f[n] \in Seq(V) /\ FlattenSeq(seqs) = f[n]
      /\ f[0] = << >> /\ \A i \in 1..n : f[i] = f[i - 1] \o seqs[i]
  <2>1. n \in 0..n
    BY <1>1
  <2> HIDE DEF n
  <2> QED
    BY <1>2, <2>1 DEF Written, n
<1>5. /\ FlattenSeq(more) = g[n + 1] /\ g[0] = << >>
      /\ \A i \in 1..n + 1 : g[i] = g[i - 1] \o more[i]
  BY <1>1, <1>3 DEF Written
<1> DEFINE S == {i \in Nat : i <= n => g[i] = f[i]}
<1> HIDE DEF n
<1>6. 0 \in S
  BY <1>4, <1>5
<1>7. ASSUME NEW i \in Nat, i \in S PROVE i + 1 \in S
  <2> SUFFICES ASSUME i + 1 <= n PROVE g[i + 1] = f[i + 1]
    OBVIOUS
  <2>1. i + 1 \in 1..n /\ i + 1 \in 1..n + 1 /\ (i + 1) - 1 = i /\ i <= n
    BY <1>1
  <2>2. g[i] = f[i]
    BY <1>7, <2>1
  <2> QED
    BY <1>1, <1>4, <1>5, <2>1, <2>2
<1> HIDE DEF S
<1>8. Nat \subseteq S
  BY <1>6, <1>7, Induct
<1>9. g[n] = f[n]
  BY <1>1, <1>8 DEF S
<1>10. n + 1 \in 1..n + 1 /\ (n + 1) - 1 = n
  BY <1>1
<1> QED
  BY <1>1, <1>4, <1>5, <1>9, <1>10 DEF more

-------------------------------------------------------------------------------
(* The fields of a format.                                                 *)

Formats == {"bundle", "invitation", "handoff"}

LEMMA LayoutShape ==
  ASSUME NEW format \in Formats
  PROVE  /\ Version(format) \in Bytes
         /\ Len(Layout(format)) \in Nat
         /\ \A i \in 1..Len(Layout(format)) : Layout(format)[i] \in FieldKinds
<1>1. Version(format) \in Bytes
  BY WidthAssumption
     DEF Formats, Version, FormatVersion, InvitationVersion, HandoffVersion, Bytes
<1>2. Layout(format) \in Seq(FieldKinds)
  <2>1. BundleFields \in Seq(FieldKinds)
    BY DEF BundleFields, FieldKinds
  <2>2. InvitationFields \in Seq(FieldKinds)
    BY DEF InvitationFields, FieldKinds
  <2>3. HandoffFields \in Seq(FieldKinds)
    BY DEF HandoffFields, FieldKinds
  <2> QED
    BY <2>1, <2>2, <2>3 DEF Formats, Layout
<1> QED
  BY <1>1, <1>2

Reads == [ok : {TRUE}, value : Seq(Seq(Bytes)), rest : Seq(Bytes)] \cup {Malformed}

LEMMA ExtendedReads ==
  ASSUME NEW kind \in FieldKinds, NEW read \in Reads
  PROVE  /\ Extended(read, kind) \in Reads
         /\ Extended(read, kind).ok =>
              /\ read.ok /\ read.value \in Seq(Seq(Bytes)) /\ read.rest \in Seq(Bytes)
              /\ \E x \in Seq(Bytes), t \in Seq(Bytes) :
                   /\ Extended(read, kind) = [ok |-> TRUE, value |-> Append(read.value, x), rest |-> t]
                   /\ read.rest = Put(kind, x) \o t
<1> DEFINE field == TakeField(kind, read.rest)
<1>1. CASE ~read.ok
  <2>1. Extended(read, kind) = Malformed
    BY <1>1 DEF Extended, Malformed
  <2> QED
    BY <2>1 DEF Reads, Malformed
<1>2. CASE read.ok /\ ~field.ok
  <2>1. Extended(read, kind) = Malformed
    BY <1>2 DEF Extended
  <2> QED
    BY <2>1 DEF Reads, Malformed
<1>3. CASE read.ok /\ field.ok
  <2>1. read.value \in Seq(Seq(Bytes)) /\ read.rest \in Seq(Bytes)
    <3>1. read # Malformed
      BY <1>3 DEF Malformed
    <3>2. read \in [ok : {TRUE}, value : Seq(Seq(Bytes)), rest : Seq(Bytes)]
      BY <3>1 DEF Reads
    <3> HIDE DEF field
    <3> QED
      BY <3>2
  <2>2. /\ field.value \in Seq(Bytes) /\ field.rest \in Seq(Bytes)
        /\ read.rest = Put(kind, field.value) \o field.rest
    BY <1>3, <2>1, FieldSound
  <2>3. Extended(read, kind)
          = [ok |-> TRUE, value |-> Append(read.value, field.value), rest |-> field.rest]
    BY <1>3 DEF Extended
  <2> HIDE DEF field
  <2>4. Append(read.value, field.value) \in Seq(Seq(Bytes))
    BY <2>1, <2>2
  <2>5. Extended(read, kind) \in Reads
    BY <2>2, <2>3, <2>4 DEF Reads
  <2> QED
    BY <1>3, <2>1, <2>2, <2>3, <2>5
<1> QED
  BY <1>1, <1>2, <1>3

LEMMA TakeFieldsUnfolds ==
  ASSUME NEW format \in Formats, NEW bytes \in Seq(Bytes)
  PROVE  \E read \in [0..Len(Layout(format)) -> Reads] :
           /\ read[0] = [ok |-> TRUE, value |-> << >>, rest |-> bytes]
           /\ \A i \in 1..Len(Layout(format)) : read[i] = Extended(read[i - 1], Layout(format)[i])
           /\ TakeFields(format, bytes) = read[Len(Layout(format))]
<1> DEFINE n == Len(Layout(format))
           kind(i) == Layout(format)[i]
           first == [ok |-> TRUE, value |-> << >>, rest |-> bytes]
           Built(f) == f = [i \in 0..n |-> IF i = 0 THEN first ELSE Extended(f[i - 1], kind(i))]
           read == CHOOSE f : Built(f)
           step == [i \in 1..n |-> [x \in Reads |-> Extended(x, kind(i))]]
<1>1. TakeFields(format, bytes) = read[n]
  BY DEF TakeFields
<1>2. n \in Nat /\ \A i \in 1..n : kind(i) \in FieldKinds
  BY LayoutShape
<1>3. first \in Reads
  <2>1. << >> \in Seq(Seq(Bytes))
    OBVIOUS
  <2> QED
    BY <2>1 DEF Reads
<1> HIDE DEF n, kind, first
<1>4. step \in [1..n -> [Reads -> Reads]]
  BY <1>2, ExtendedReads
<1> HIDE DEF step
<1>5. PICK g : Runs(g, n, Reads, first, step)
  BY <1>2, <1>3, <1>4, RecursionExists
<1>6. ASSUME NEW i \in 1..n PROVE g[i] = Extended(g[i - 1], kind(i))
  <2>1. i - 1 \in 0..n
    BY <1>2
  <2>2. g[i - 1] \in Reads /\ g[i] = step[i][g[i - 1]]
    BY <1>5, <2>1 DEF Runs
  <2> QED
    BY <2>2 DEF step
<1>7. Built(g)
  <2>1. \A i \in 0..n : i # 0 => i \in 1..n
    BY <1>2
  <2> QED
    BY <1>5, <1>6, <2>1 DEF Runs
<1>8. Built(read)
  <2> HIDE DEF Built
  <2> QED
    BY <1>7
<1> HIDE DEF read
<1>9. read[0] = first /\ \A i \in 1..n : read[i] = Extended(read[i - 1], kind(i))
  BY <1>2, <1>8
<1> DEFINE S == {i \in Nat : i <= n => read[i] \in Reads}
<1>10. 0 \in S
  BY <1>3, <1>9
<1>11. ASSUME NEW i \in Nat, i \in S PROVE i + 1 \in S
  <2> SUFFICES ASSUME i + 1 <= n PROVE read[i + 1] \in Reads
    OBVIOUS
  <2>1. i + 1 \in 1..n /\ (i + 1) - 1 = i /\ i <= n
    BY <1>2
  <2>2. read[i] \in Reads /\ read[i + 1] = Extended(read[i], kind(i + 1))
    BY <1>9, <1>11, <2>1
  <2> QED
    BY <1>2, <2>1, <2>2, ExtendedReads
<1> HIDE DEF S
<1>12. Nat \subseteq S
  BY <1>10, <1>11, Induct
<1>13. ASSUME NEW i \in 0..n PROVE read[i] \in Reads
  <2>1. i \in Nat /\ i <= n
    BY <1>2
  <2>2. i \in S
    BY <1>12, <2>1
  <2> QED
    BY <2>1, <2>2 DEF S
<1>14. read \in [0..n -> Reads]
  <2>1. read = [i \in 0..n |-> read[i]]
    BY <1>8
  <2> HIDE DEF Built
  <2> QED
    BY <1>13, <2>1
<1> QED
  BY <1>1, <1>9, <1>14 DEF n, kind, first

Puts(format, fields) == [i \in DOMAIN fields |-> Put(Layout(format)[i], fields[i])]

LEMMA PutShape ==
  ASSUME NEW kind, NEW value \in Seq(Bytes)
  PROVE  Put(kind, value) \in Seq(Bytes)
BY FramedShape DEF Put

LEMMA PutsShape ==
  ASSUME NEW format, NEW fields \in Seq(Seq(Bytes))
  PROVE  /\ Puts(format, fields) \in Seq(Seq(Bytes))
         /\ Len(Puts(format, fields)) = Len(fields)
         /\ \A i \in 1..Len(fields) :
              Puts(format, fields)[i] = Put(Layout(format)[i], fields[i])
<1> DEFINE n == Len(fields)
<1>1. n \in Nat /\ DOMAIN fields = 1..n /\ \A i \in 1..n : fields[i] \in Seq(Bytes)
  OBVIOUS
<1>2. Puts(format, fields) = [i \in 1..n |-> Put(Layout(format)[i], fields[i])]
  BY <1>1 DEF Puts
<1>3. \A i \in 1..n : Put(Layout(format)[i], fields[i]) \in Seq(Bytes)
  BY <1>1, PutShape
<1> HIDE DEF n
<1>4. Puts(format, fields) \in [1..n -> Seq(Bytes)]
  BY <1>2, <1>3
<1>5. Puts(format, fields) \in Seq(Seq(Bytes)) /\ Len(Puts(format, fields)) = n
  BY <1>1, <1>4, SeqDef, LenProperties
<1> QED
  BY <1>2, <1>5 DEF n

LEMMA PutsAppend ==
  ASSUME NEW format, NEW fields \in Seq(Seq(Bytes)), NEW x \in Seq(Bytes)
  PROVE  Puts(format, Append(fields, x))
           = Append(Puts(format, fields), Put(Layout(format)[Len(fields) + 1], x))
<1> DEFINE n == Len(fields)
           more == Append(fields, x)
           last == Put(Layout(format)[n + 1], x)
<1>1. /\ n \in Nat /\ more \in Seq(Seq(Bytes)) /\ Len(more) = n + 1
      /\ more[n + 1] = x /\ \A i \in 1..n : more[i] = fields[i]
  OBVIOUS
<1>2. last \in Seq(Bytes)
  BY PutShape
<1> HIDE DEF more, last
<1>3. /\ Puts(format, more) \in Seq(Seq(Bytes)) /\ Len(Puts(format, more)) = n + 1
      /\ \A i \in 1..n + 1 : Puts(format, more)[i] = Put(Layout(format)[i], more[i])
  BY <1>1, PutsShape
<1>4. /\ Puts(format, fields) \in Seq(Seq(Bytes)) /\ Len(Puts(format, fields)) = n
      /\ \A i \in 1..n : Puts(format, fields)[i] = Put(Layout(format)[i], fields[i])
  BY PutsShape
<1> DEFINE longer == Append(Puts(format, fields), last)
<1> HIDE DEF n
<1>5. /\ longer \in Seq(Seq(Bytes)) /\ Len(longer) = n + 1 /\ longer[n + 1] = last
      /\ \A i \in 1..n : longer[i] = Puts(format, fields)[i]
  <2> DEFINE puts == Puts(format, fields)
  <2>1. puts \in Seq(Seq(Bytes)) /\ Len(puts) = n
    BY <1>4
  <2> HIDE DEF puts
  <2> QED
    BY <1>1, <1>2, <2>1 DEF puts
<1> HIDE DEF longer
<1>6. ASSUME NEW i \in 1..n + 1 PROVE Puts(format, more)[i] = longer[i]
  <2>1. CASE i = n + 1
    BY <1>1, <1>3, <1>5, <2>1 DEF last
  <2>2. CASE i # n + 1
    <3>1. i \in 1..n
      BY <1>1, <2>2
    <3> QED
      BY <1>1, <1>3, <1>4, <1>5, <3>1
  <2> QED
    BY <2>1, <2>2
<1>7. Puts(format, more) = longer
  BY <1>3, <1>5, <1>6, SeqEqual
<1> QED
  BY <1>7 DEF more, longer, last, n

(* Whatever is read is what the bytes would be written from.               *)
LEMMA TakeFieldsSound ==
  ASSUME NEW format \in Formats, NEW bytes \in Seq(Bytes), TakeFields(format, bytes).ok
  PROVE  LET read == TakeFields(format, bytes)
         IN /\ read.value \in Seq(Seq(Bytes)) /\ read.rest \in Seq(Bytes)
            /\ FlattenSeq(Puts(format, read.value)) \in Seq(Bytes)
            /\ bytes = FlattenSeq(Puts(format, read.value)) \o read.rest
<1> DEFINE n == Len(Layout(format))
<1>1. n \in Nat /\ \A i \in 1..n : Layout(format)[i] \in FieldKinds
  BY LayoutShape
<1>2. PICK read \in [0..n -> Reads] :
        /\ read[0] = [ok |-> TRUE, value |-> << >>, rest |-> bytes]
        /\ \A i \in 1..n : read[i] = Extended(read[i - 1], Layout(format)[i])
        /\ TakeFields(format, bytes) = read[n]
  BY TakeFieldsUnfolds
<1> HIDE DEF n
<1> DEFINE Known(i) ==
               /\ read[i].value \in Seq(Seq(Bytes)) /\ Len(read[i].value) = i
               /\ read[i].rest \in Seq(Bytes)
               /\ FlattenSeq(Puts(format, read[i].value)) \in Seq(Bytes)
               /\ bytes = FlattenSeq(Puts(format, read[i].value)) \o read[i].rest
           S == {i \in Nat : i <= n => (read[i].ok => Known(i))}
<1>3. 0 \in S
  <2>1. read[0].value = << >> /\ read[0].rest = bytes
    BY <1>2
  <2>2. << >> \in Seq(Seq(Bytes)) /\ Len(<< >>) = 0 /\ << >> \in Seq(Bytes)
    OBVIOUS
  <2>3. Puts(format, << >>) = << >> /\ FlattenSeq(<< >>) = << >>
    BY <2>2 DEF Puts, FlattenSeq
  <2>4. << >> \o bytes = bytes
    BY ConcatEmptySeq
  <2>5. Known(0)
    BY <2>1, <2>2, <2>3, <2>4
  <2> HIDE DEF Known
  <2> QED
    BY <2>5
<1> HIDE DEF Known
<1>4. ASSUME NEW i \in Nat, i \in S PROVE i + 1 \in S
  <2> DEFINE k == i + 1
  <2> SUFFICES ASSUME k <= n, read[k].ok PROVE Known(k)
    OBVIOUS
  <2>1. k \in 1..n /\ k - 1 = i /\ i \in 0..n /\ i <= n
    BY <1>1
  <2> DEFINE kind == Layout(format)[k]
  <2>2. kind \in FieldKinds /\ read[k] = Extended(read[i], kind) /\ read[i] \in Reads
    BY <1>1, <1>2, <2>1
  <2> HIDE DEF kind
  <2>3. /\ read[i].ok
        /\ \E x \in Seq(Bytes), t \in Seq(Bytes) :
             /\ read[k] = [ok |-> TRUE, value |-> Append(read[i].value, x), rest |-> t]
             /\ read[i].rest = Put(kind, x) \o t
    BY <2>2, ExtendedReads
  <2>4. PICK x \in Seq(Bytes), t \in Seq(Bytes) :
          /\ read[k] = [ok |-> TRUE, value |-> Append(read[i].value, x), rest |-> t]
          /\ read[i].rest = Put(kind, x) \o t
    BY <2>3
  <2>5. Known(i)
    BY <1>4, <2>1, <2>3
  <2> DEFINE value == read[i].value
             put == Put(kind, x)
             before == FlattenSeq(Puts(format, value))
  <2>6. /\ value \in Seq(Seq(Bytes)) /\ Len(value) = i /\ before \in Seq(Bytes)
        /\ bytes = before \o (put \o t)
    BY <2>3, <2>4, <2>5 DEF Known
  <2>7. put \in Seq(Bytes)
    BY PutShape
  <2>8. Puts(format, Append(value, x)) = Append(Puts(format, value), put)
    BY <2>6, PutsAppend DEF kind
  <2>9. Puts(format, value) \in Seq(Seq(Bytes))
    BY <2>6, PutsShape
  <2> HIDE DEF value, put, k
  <2>10. read[k].value = Append(value, x) /\ read[k].rest = t
    BY <2>4 DEF value
  <2>11. read[k].value \in Seq(Seq(Bytes)) /\ Len(read[k].value) = k
    <3>1. Append(value, x) \in Seq(Seq(Bytes)) /\ Len(Append(value, x)) = i + 1
      BY <2>6
    <3> QED
      BY <2>10, <3>1 DEF k
  <2>13. FlattenSeq(Puts(format, read[k].value)) = before \o put
    <3>1. FlattenSeq(Append(Puts(format, value), put)) = FlattenSeq(Puts(format, value)) \o put
      BY <2>7, <2>9, FlattenAppend
    <3> QED
      BY <2>8, <2>10, <3>1
  <2> HIDE DEF before
  <2>12. bytes = (before \o put) \o t /\ before \o put \in Seq(Bytes)
    <3>1. before \in Seq(Bytes)
      BY <2>6
    <3>2. (before \o put) \o t = before \o (put \o t)
      BY <2>7, <3>1, Regrouped, Zenon
    <3>3. before \o put \in Seq(Bytes)
      BY <2>7, <3>1, ConcatProperties
    <3> QED
      BY <2>6, <3>2, <3>3
  <2> QED
    BY <2>10, <2>11, <2>12, <2>13 DEF Known
<1> HIDE DEF S
<1>5. Nat \subseteq S
  BY <1>3, <1>4, Induct
<1>6. n \in S /\ n <= n /\ read[n].ok
  BY <1>1, <1>2, <1>5
<1>7. Known(n)
  BY <1>6 DEF S
<1> QED
  BY <1>2, <1>7 DEF Known

LEMMA CancelStart ==
  ASSUME NEW a \in Seq(Bytes), NEW b \in Seq(Bytes), NEW c \in Seq(Bytes), a \o b = a \o c
  PROVE  b = c
BY ConcatSimplifications

LEMMA PrefixAppends ==
  ASSUME NEW V, NEW seqs \in Seq(V), NEW i \in 1..Len(seqs)
  PROVE  SubSeq(seqs, 1, i) = Append(SubSeq(seqs, 1, i - 1), seqs[i])
<1> DEFINE a == SubSeq(seqs, 1, i)
           b == SubSeq(seqs, 1, i - 1)
<1>1. /\ IsSequence(seqs) /\ i \in 0..Len(seqs) /\ i - 1 \in 0..Len(seqs)
      /\ Len(seqs) \in Nat /\ (i - 1) + 1 = i
  BY SequenceOver
<1>2. IsSequence(a) /\ Len(a) = i /\ \A j \in 1..i : a[j] = seqs[j]
  BY <1>1, PrefixShape
<1>3. IsSequence(b) /\ Len(b) = i - 1 /\ \A j \in 1..i - 1 : b[j] = seqs[j]
  BY <1>1, PrefixShape
<1> HIDE DEF a, b
<1>4. /\ IsSequence(Append(b, seqs[i])) /\ Len(Append(b, seqs[i])) = (i - 1) + 1
      /\ \A j \in 1..i - 1 : Append(b, seqs[i])[j] = b[j]
      /\ Append(b, seqs[i])[(i - 1) + 1] = seqs[i]
  BY <1>3, AppendShape
<1>5. ASSUME NEW j \in 1..i PROVE a[j] = Append(b, seqs[i])[j]
  <2>1. CASE j = i
    BY <1>1, <1>2, <1>4, <2>1
  <2>2. CASE j # i
    <3>1. j \in 1..i - 1
      BY <1>1, <2>2
    <3> QED
      BY <1>2, <1>3, <1>4, <3>1
  <2> QED
    BY <2>1, <2>2
<1>6. a = Append(b, seqs[i])
  BY <1>1, <1>2, <1>4, <1>5, SameElements
<1> QED
  BY <1>6 DEF a, b

(* What a sender has written is read to its end.                           *)
LEMMA TakeFieldsBack ==
  ASSUME NEW format \in Formats, NEW fields \in Seq(Seq(Bytes)),
         Len(fields) = Len(Layout(format)),
         \A i \in 1..Len(fields) : Fits(Layout(format)[i], fields[i])
  PROVE  /\ FlattenSeq(Puts(format, fields)) \in Seq(Bytes)
         /\ TakeFields(format, FlattenSeq(Puts(format, fields)))
              = [ok |-> TRUE, value |-> fields, rest |-> << >>]
<1> DEFINE n == Len(Layout(format))
           puts == Puts(format, fields)
           bytes == FlattenSeq(puts)
           kind(i) == Layout(format)[i]
<1>1. /\ n \in Nat /\ n = Len(fields)
      /\ \A i \in 1..n : /\ kind(i) \in FieldKinds /\ fields[i] \in Seq(Bytes)
                         /\ Fits(kind(i), fields[i])
  BY LayoutShape
<1>2. /\ puts \in Seq(Seq(Bytes)) /\ Len(puts) = n
      /\ \A i \in 1..n : puts[i] = Put(kind(i), fields[i])
  BY PutsShape
<1> HIDE DEF puts
<1>3. PICK f : Written(f, puts, Bytes)
  BY <1>2, FlattenWrites
<1>4. /\ \A i \in 0..n : f[i] \in Seq(Bytes)
      /\ f[0] = << >> /\ \A i \in 1..n : f[i] = f[i - 1] \o puts[i]
      /\ bytes = f[n]
  BY <1>2, <1>3 DEF Written
<1>5. ASSUME NEW i \in 0..n PROVE \E t \in Seq(Bytes) : bytes = f[i] \o t
  <2>1. i \in 0..Len(puts)
    BY <1>2
  <2>2. \E t \in Seq(Bytes) : FlattenSeq(puts) = f[i] \o t
    BY <1>2, <1>3, <2>1, WrittenAhead
  <2> QED
    BY <2>2
<1>6. n \in 0..n /\ bytes \in Seq(Bytes)
  BY <1>1, <1>4
<1> HIDE DEF bytes
<1>7. PICK read \in [0..n -> Reads] :
        /\ read[0] = [ok |-> TRUE, value |-> << >>, rest |-> bytes]
        /\ \A i \in 1..n : read[i] = Extended(read[i - 1], kind(i))
        /\ TakeFields(format, bytes) = read[n]
  BY <1>6, TakeFieldsUnfolds
<1> HIDE DEF n, kind
<1> DEFINE Done(i) == \E t \in Seq(Bytes) :
             /\ read[i] = [ok |-> TRUE, value |-> SubSeq(fields, 1, i), rest |-> t]
             /\ bytes = f[i] \o t
           S == {i \in Nat : i <= n => Done(i)}
<1>8. 0 \in S
  <2>1. SubSeq(fields, 1, 0) = << >>
    BY SubSeqEmpty
  <2>2. bytes = f[0] \o bytes
    BY <1>4, <1>6, ConcatEmptySeq
  <2>3. Done(0)
    BY <1>6, <1>7, <2>1, <2>2
  <2> HIDE DEF Done
  <2> QED
    BY <2>3
<1>9. ASSUME NEW i \in Nat, i \in S PROVE i + 1 \in S
  <2> DEFINE k == i + 1
  <2> HIDE DEF Done
  <2> SUFFICES ASSUME k <= n PROVE Done(k)
    OBVIOUS
  <2>1. k \in 1..n /\ k \in 0..n /\ k - 1 = i /\ i \in 0..n /\ i <= n /\ k \in 1..Len(fields)
    BY <1>1
  <2>2. Done(i)
    BY <1>9, <2>1
  <2>3. PICK rest \in Seq(Bytes) :
          /\ read[i] = [ok |-> TRUE, value |-> SubSeq(fields, 1, i), rest |-> rest]
          /\ bytes = f[i] \o rest
    BY <2>2 DEF Done
  <2>4. PICK t \in Seq(Bytes) : bytes = f[k] \o t
    BY <1>5, <2>1
  <2> HIDE DEF k
  <2> DEFINE put == Put(kind(k), fields[k])
  <2>5. /\ kind(k) \in FieldKinds /\ fields[k] \in Seq(Bytes) /\ Fits(kind(k), fields[k])
        /\ puts[k] = put /\ f[k] = f[i] \o put /\ f[i] \in Seq(Bytes)
    BY <1>1, <1>2, <1>4, <2>1
  <2>6. /\ put \in Seq(Bytes)
        /\ TakeField(kind(k), put \o t) = [ok |-> TRUE, value |-> fields[k], rest |-> t]
    BY <2>5, FieldBack
  <2> HIDE DEF put
  <2>7. rest = put \o t
    <3>0. put \in Seq(Bytes) /\ f[i] \in Seq(Bytes)
      BY <2>5, <2>6
    <3>1. put \o t \in Seq(Bytes)
      BY <3>0, ConcatProperties
    <3>2. (f[i] \o put) \o t = f[i] \o (put \o t)
      BY <3>0, Regrouped, Zenon
    <3>3. f[i] \o rest = f[i] \o (put \o t)
      BY <2>3, <2>4, <2>5, <3>2
    <3> QED
      BY <2>5, <3>1, <3>3, CancelStart
  <2>8. read[k] = [ok |-> TRUE, value |-> Append(SubSeq(fields, 1, i), fields[k]), rest |-> t]
    <3>1. read[k] = Extended(read[i], kind(k))
      BY <1>7, <2>1
    <3>2. read[i].ok /\ read[i].value = SubSeq(fields, 1, i) /\ read[i].rest = put \o t
      BY <2>3, <2>7
    <3> DEFINE field == TakeField(kind(k), put \o t)
    <3>3. field.ok /\ field.value = fields[k] /\ field.rest = t
      BY <2>6
    <3> HIDE DEF field
    <3>4. Extended(read[i], kind(k))
            = [ok |-> TRUE, value |-> Append(read[i].value, field.value), rest |-> field.rest]
      BY <3>2, <3>3 DEF Extended, field
    <3> QED
      BY <3>1, <3>2, <3>3, <3>4
  <2>9. Append(SubSeq(fields, 1, i), fields[k]) = SubSeq(fields, 1, k)
    BY <2>1, PrefixAppends
  <2> QED
    BY <2>4, <2>8, <2>9 DEF Done
<1> HIDE DEF S, Done
<1>10. Nat \subseteq S
  BY <1>8, <1>9, Induct
<1>11. Done(n)
  BY <1>1, <1>10 DEF S
<1>12. PICK t \in Seq(Bytes) :
         /\ read[n] = [ok |-> TRUE, value |-> SubSeq(fields, 1, n), rest |-> t]
         /\ bytes = f[n] \o t
  BY <1>11 DEF Done
<1>13. t = << >>
  <2>1. bytes = bytes \o t
    BY <1>4, <1>12
  <2> QED
    BY <1>6, <2>1, ConcatEqualIffEmpty
<1>14. SubSeq(fields, 1, n) = fields
  BY <1>1
<1> QED
  BY <1>6, <1>7, <1>12, <1>13, <1>14 DEF bytes, puts

-------------------------------------------------------------------------------
(* Encoding and decoding.                                                  *)

LEMMA EncodeShape ==
  ASSUME NEW format \in Formats, NEW fields \in Seq(Seq(Bytes))
  PROVE  /\ FlattenSeq(Puts(format, fields)) \in Seq(Bytes)
         /\ Encode(format, fields) = <<Version(format)>> \o FlattenSeq(Puts(format, fields))
         /\ Encode(format, fields) \in Seq(Bytes)
<1> DEFINE body == FlattenSeq(Puts(format, fields))
<1>1. body \in Seq(Bytes)
  BY PutsShape, FlattenAppend
<1>2. Encode(format, fields) = <<Version(format)>> \o body
  BY DEF Encode, Puts
<1>3. <<Version(format)>> \in Seq(Bytes)
  BY LayoutShape
<1> HIDE DEF body
<1>4. <<Version(format)>> \o body \in Seq(Bytes)
  BY <1>1, <1>3, ConcatProperties
<1> QED
  BY <1>1, <1>2, <1>4 DEF body

LEMMA VersionFirst ==
  ASSUME NEW v \in Bytes, NEW body \in Seq(Bytes)
  PROVE  /\ <<v>> \o body # << >> /\ Head(<<v>> \o body) = v /\ Tail(<<v>> \o body) = body
OBVIOUS

LEMMA HeadThenTail ==
  ASSUME NEW bytes \in Seq(Bytes), bytes # << >>
  PROVE  Tail(bytes) \in Seq(Bytes) /\ bytes = <<Head(bytes)>> \o Tail(bytes)
OBVIOUS

(* The first half of the property: an accepted encoding re-encodes to      *)
(* itself, whatever reached the decoder.                                   *)
LEMMA DecodeSound ==
  ASSUME NEW format \in Formats, NEW bytes \in Seq(Bytes), Decode(format, bytes).ok
  PROVE  Encode(format, Decode(format, bytes).value) = bytes
<1> DEFINE read == TakeFields(format, Tail(bytes))
<1>1. /\ bytes # << >> /\ Head(bytes) = Version(format)
      /\ read.ok /\ read.rest = << >>
      /\ Decode(format, bytes) = [ok |-> TRUE, value |-> read.value]
  BY DEF Decode, Malformed
<1>2. Tail(bytes) \in Seq(Bytes) /\ bytes = <<Version(format)>> \o Tail(bytes)
  BY <1>1, HeadThenTail
<1>3. /\ read.value \in Seq(Seq(Bytes))
      /\ FlattenSeq(Puts(format, read.value)) \in Seq(Bytes)
      /\ Tail(bytes) = FlattenSeq(Puts(format, read.value)) \o read.rest
  BY <1>1, <1>2, TakeFieldsSound
<1> HIDE DEF read
<1>4. Tail(bytes) = FlattenSeq(Puts(format, read.value))
  BY <1>1, <1>3, ConcatEmptySeq
<1>5. Encode(format, read.value) = <<Version(format)>> \o Tail(bytes)
  BY <1>3, <1>4, EncodeShape
<1> QED
  BY <1>1, <1>2, <1>5

(* The second half: an undamaged encoding is read as what was sent.        *)
LEMMA DecodeBack ==
  ASSUME NEW format \in Formats, NEW fields, Sendable(format, fields)
  PROVE  Decode(format, Encode(format, fields)) = [ok |-> TRUE, value |-> fields]
<1> DEFINE body == FlattenSeq(Puts(format, fields))
           all == Encode(format, fields)
           read == TakeFields(format, Tail(all))
<1>1. /\ fields \in Seq(Seq(Bytes)) /\ Len(fields) = Len(Layout(format))
      /\ \A i \in 1..Len(fields) : Fits(Layout(format)[i], fields[i])
      /\ format = "invitation" => InvitationHolds(fields)
  <2>1. fields \in Seq(Seq(Bytes))
    BY DEF Sendable
  <2>2. DOMAIN fields = 1..Len(fields)
    BY <2>1
  <2> QED
    BY <2>1, <2>2 DEF Sendable
<1>2. /\ body \in Seq(Bytes)
      /\ TakeFields(format, body) = [ok |-> TRUE, value |-> fields, rest |-> << >>]
  BY <1>1, TakeFieldsBack
<1>3. all = <<Version(format)>> \o body /\ Version(format) \in Bytes
  BY <1>1, EncodeShape, LayoutShape
<1> HIDE DEF body, all
<1>4. all # << >> /\ Head(all) = Version(format) /\ Tail(all) = body
  BY <1>2, <1>3, VersionFirst
<1>5. read.ok /\ read.rest = << >> /\ read.value = fields
  <2>1. read = [ok |-> TRUE, value |-> fields, rest |-> << >>]
    BY <1>2, <1>4
  <2> HIDE DEF read
  <2> QED
    BY <2>1
<1> HIDE DEF read
<1>6. Decode(format, all) = [ok |-> TRUE, value |-> read.value]
  BY <1>1, <1>4, <1>5 DEF Decode, read
<1> QED
  BY <1>5, <1>6 DEF all

-------------------------------------------------------------------------------
(* The preimage of a hash.                                                 *)

Absorbable(values) ==
  /\ values \in Seq(Seq(Bytes))
  /\ \A i \in 1..Len(values) : Len(values[i]) <= USizeMax

Frames(values) == [i \in DOMAIN values |-> Framed(values[i])]

LEMMA FramesShape ==
  ASSUME NEW values \in Seq(Seq(Bytes))
  PROVE  /\ Frames(values) \in Seq(Seq(Bytes)) /\ Len(Frames(values)) = Len(values)
         /\ \A i \in 1..Len(values) : Frames(values)[i] = Framed(values[i])
<1> DEFINE n == Len(values)
<1>1. n \in Nat /\ DOMAIN values = 1..n /\ \A i \in 1..n : values[i] \in Seq(Bytes)
  OBVIOUS
<1>2. Frames(values) = [i \in 1..n |-> Framed(values[i])]
  BY <1>1 DEF Frames
<1>3. \A i \in 1..n : Framed(values[i]) \in Seq(Bytes)
  BY <1>1, FramedShape
<1> HIDE DEF n
<1>4. Frames(values) \in [1..n -> Seq(Bytes)]
  BY <1>2, <1>3
<1>5. Frames(values) \in Seq(Seq(Bytes)) /\ Len(Frames(values)) = n
  BY <1>1, <1>4, SeqDef, LenProperties
<1> QED
  BY <1>2, <1>5 DEF n

(* Two framed bodies at the start of the same bytes are the same.          *)
LEMMA SameFrame ==
  ASSUME NEW a \in Seq(Bytes), NEW b \in Seq(Bytes), NEW s \in Seq(Bytes), NEW t \in Seq(Bytes),
         Len(a) <= USizeMax, Len(b) <= USizeMax, Framed(a) \o s = Framed(b) \o t
  PROVE  a = b
<1>1. TakeFramed(Framed(a) \o s) = [ok |-> TRUE, value |-> a, rest |-> s]
  BY TakeFramedBack
<1>2. TakeFramed(Framed(b) \o t) = [ok |-> TRUE, value |-> b, rest |-> t]
  BY TakeFramedBack
<1> QED
  BY <1>1, <1>2

LEMMA PreimageOfShorter ==
  ASSUME NEW v, NEW w, Absorbable(v), Absorbable(w), Len(v) <= Len(w), Preimage(v) = Preimage(w)
  PROVE  v = w
<1> DEFINE n == Len(v)
           m == Len(w)
           a == Frames(v)
           b == Frames(w)
           bytes == Preimage(v)
<1>1. /\ v \in Seq(Seq(Bytes)) /\ w \in Seq(Seq(Bytes)) /\ n \in Nat /\ m \in Nat /\ n <= m
      /\ \A i \in 1..n : v[i] \in Seq(Bytes) /\ Len(v[i]) <= USizeMax
      /\ \A i \in 1..m : w[i] \in Seq(Bytes) /\ Len(w[i]) <= USizeMax
  BY DEF Absorbable
<1>2. /\ a \in Seq(Seq(Bytes)) /\ Len(a) = n /\ \A i \in 1..n : a[i] = Framed(v[i])
      /\ b \in Seq(Seq(Bytes)) /\ Len(b) = m /\ \A i \in 1..m : b[i] = Framed(w[i])
  BY <1>1, FramesShape
<1>3. bytes = FlattenSeq(a) /\ bytes = FlattenSeq(b)
  BY DEF Preimage, Frames
<1> HIDE DEF a, b, bytes
<1>4. PICK f : Written(f, a, Bytes)
  BY <1>2, FlattenWrites
<1>5. PICK g : Written(g, b, Bytes)
  BY <1>2, FlattenWrites
<1>6. ASSUME NEW i \in 0..n PROVE f[i] \in Seq(Bytes) /\ \E s \in Seq(Bytes) : bytes = f[i] \o s
  <2>1. i \in 0..Len(a)
    BY <1>2
  <2>2. f[i] \in Seq(Bytes)
    BY <1>4, <2>1 DEF Written
  <2>3. \E s \in Seq(Bytes) : FlattenSeq(a) = f[i] \o s
    BY <1>2, <1>4, <2>1, WrittenAhead
  <2> QED
    BY <1>3, <2>2, <2>3
<1>7. ASSUME NEW i \in 0..m PROVE g[i] \in Seq(Bytes) /\ \E s \in Seq(Bytes) : bytes = g[i] \o s
  <2>1. i \in 0..Len(b)
    BY <1>2
  <2>2. g[i] \in Seq(Bytes)
    BY <1>5, <2>1 DEF Written
  <2>3. \E s \in Seq(Bytes) : FlattenSeq(b) = g[i] \o s
    BY <1>2, <1>5, <2>1, WrittenAhead
  <2> QED
    BY <1>3, <2>2, <2>3
<1>8. /\ f[0] = << >> /\ \A i \in 1..n : f[i] = f[i - 1] \o Framed(v[i])
      /\ g[0] = << >> /\ \A i \in 1..m : g[i] = g[i - 1] \o Framed(w[i])
      /\ bytes = f[n]
  BY <1>2, <1>3, <1>4, <1>5 DEF Written
<1> HIDE DEF n, m
<1> DEFINE Alike(i) == f[i] = g[i] /\ \A j \in 1..i : v[j] = w[j]
           S == {i \in Nat : i <= n => Alike(i)}
<1>9. 0 \in S
  BY <1>8
<1>10. ASSUME NEW i \in Nat, i \in S PROVE i + 1 \in S
  <2> DEFINE k == i + 1
  <2> HIDE DEF Alike
  <2> SUFFICES ASSUME k <= n PROVE Alike(k)
    OBVIOUS
  <2>1. /\ k \in 1..n /\ k \in 1..m /\ k \in 0..n /\ k \in 0..m /\ k - 1 = i
        /\ i \in 0..n /\ i \in 0..m /\ i <= n
    BY <1>1
  <2>2. f[i] = g[i] /\ \A j \in 1..i : v[j] = w[j]
    BY <1>10, <2>1 DEF Alike
  <2>3. PICK s \in Seq(Bytes) : bytes = f[k] \o s
    BY <1>6, <2>1
  <2>4. PICK t \in Seq(Bytes) : bytes = g[k] \o t
    BY <1>7, <2>1
  <2>5. /\ v[k] \in Seq(Bytes) /\ Len(v[k]) <= USizeMax
        /\ w[k] \in Seq(Bytes) /\ Len(w[k]) <= USizeMax
    BY <1>1, <2>1
  <2>6. /\ f[i] \in Seq(Bytes) /\ f[k] = f[i] \o Framed(v[k]) /\ g[k] = f[i] \o Framed(w[k])
    BY <1>6, <1>8, <2>1, <2>2
  <2> HIDE DEF k
  <2>7. Framed(v[k]) \in Seq(Bytes) /\ Framed(w[k]) \in Seq(Bytes)
    BY <2>5, FramedShape
  <2>8. Framed(v[k]) \o s = Framed(w[k]) \o t
    <3>1. Framed(v[k]) \o s \in Seq(Bytes) /\ Framed(w[k]) \o t \in Seq(Bytes)
      BY <2>7, ConcatProperties
    <3>0. f[i] \in Seq(Bytes)
      BY <2>6
    <3>2. (f[i] \o Framed(v[k])) \o s = f[i] \o (Framed(v[k]) \o s)
      BY <2>7, <3>0, Regrouped
    <3>3. (f[i] \o Framed(w[k])) \o t = f[i] \o (Framed(w[k]) \o t)
      BY <2>7, <3>0, Regrouped
    <3>4. f[i] \o (Framed(v[k]) \o s) = f[i] \o (Framed(w[k]) \o t)
      BY <2>3, <2>4, <2>6, <3>2, <3>3
    <3> QED
      BY <2>6, <3>1, <3>4, CancelStart
  <2>9. v[k] = w[k]
    BY <2>5, <2>8, SameFrame
  <2>10. \A j \in 1..k : j = k \/ j \in 1..i
    BY DEF k
  <2> QED
    BY <2>2, <2>6, <2>9, <2>10 DEF Alike
<1> HIDE DEF S, Alike
<1>11. Nat \subseteq S
  BY <1>9, <1>10, Induct
<1>12. f[n] = g[n] /\ \A j \in 1..n : v[j] = w[j]
  BY <1>1, <1>11 DEF S, Alike
<1>13. n = m
  <2> SUFFICES ASSUME n + 1 <= m PROVE FALSE
    BY <1>1
  <2>1. n + 1 \in 1..m /\ n + 1 \in 0..m /\ (n + 1) - 1 = n /\ n \in 0..m /\ n \in 0..n
    BY <1>1
  <2>2. PICK t \in Seq(Bytes) : bytes = g[n + 1] \o t
    BY <1>7, <2>1
  <2> DEFINE frame == Framed(w[n + 1])
  <2>3. g[n + 1] = f[n] \o frame /\ f[n] \in Seq(Bytes)
    BY <1>6, <1>8, <1>12, <2>1
  <2>4. frame \in Seq(Bytes) /\ Len(frame) > 0
    <3>1. w[n + 1] \in Seq(Bytes)
      BY <1>1, <2>1
    <3>2. LengthPrefix \in Nat /\ LengthPrefix > 0
      BY WidthAssumption
    <3>3. Len(w[n + 1]) \in Nat
      BY <3>1
    <3>4. frame \in Seq(Bytes) /\ Len(frame) = LengthPrefix + Len(w[n + 1])
      BY <3>1, FramedShape
    <3> QED
      BY <3>2, <3>3, <3>4
  <2> HIDE DEF frame
  <2>5. frame \o t \in Seq(Bytes) /\ (f[n] \o frame) \o t = f[n] \o (frame \o t)
    <3>1. frame \in Seq(Bytes) /\ f[n] \in Seq(Bytes)
      BY <2>3, <2>4
    <3>2. frame \o t \in Seq(Bytes)
      BY <3>1, ConcatProperties
    <3>3. (f[n] \o frame) \o t = f[n] \o (frame \o t)
      BY <3>1, Regrouped, Zenon
    <3> QED
      BY <3>2, <3>3
  <2>6. f[n] \o (frame \o t) = f[n]
    BY <1>8, <2>2, <2>3, <2>5
  <2>7. frame \o t = << >>
    BY <2>3, <2>5, <2>6, ConcatEqualIffEmpty
  <2>8. frame = << >>
    BY <2>4, <2>7, ConcatEqualIffEmpty
  <2> QED
    BY <2>4, <2>8
<1> QED
  <2>1. IsSequence(v) /\ IsSequence(w)
    BY <1>1, SequenceOver
  <2> QED
    BY <1>12, <1>13, <2>1, SameElements DEF n, m

LEMMA PreimageIsExact ==
  ASSUME NEW v, NEW w, Absorbable(v), Absorbable(w), Preimage(v) = Preimage(w)
  PROVE  v = w
<1>1. Len(v) \in Nat /\ Len(w) \in Nat
  BY DEF Absorbable
<1>2. CASE Len(v) <= Len(w)
  BY <1>2, PreimageOfShorter
<1>3. CASE Len(w) <= Len(v)
  BY <1>3, PreimageOfShorter
<1> QED
  BY <1>1, <1>2, <1>3

-------------------------------------------------------------------------------
(* Part 4: the channel.  While the layer is bytes the channel carries      *)
(* bytes, and those of the artifact until it damages them; a preimage is   *)
(* never touched.                                                          *)

Carried ==
  /\ wire \in Seq(Bytes)
  /\ harmless => /\ sent.format \in Formats /\ Sendable(sent.format, sent.fields)
                 /\ wire = Encode(sent.format, sent.fields)

Hashed == sent.values \in Absorbed /\ wire = Preimage(sent.values)

WireInv == (sent.layer = "bytes" => Carried) /\ (sent.layer = "hash" => Hashed)

LEMMA AbsorbedIsAbsorbable ==
  ASSUME NEW values \in Absorbed
  PROVE  Absorbable(values)
<1>1. values \in Seq(Seq(Bytes)) /\ \A i \in DOMAIN values : Fits("framed", values[i])
  BY ArtifactAssumption
<1>2. DOMAIN values = 1..Len(values)
  BY <1>1
<1> QED
  BY <1>1, <1>2 DEF Absorbable, Fits

LEMMA SendBytesKeeps ==
  ASSUME NEW format \in Formats, NEW fields, Sendable(format, fields), SendBytes(format, fields)
  PROVE  WireInv'
<1>1. /\ sent' = [layer |-> "bytes", format |-> format, fields |-> fields]
      /\ wire' = Encode(format, fields)
  BY DEF SendBytes, Send
<1>2. sent'.layer = "bytes" /\ sent'.format = format /\ sent'.fields = fields
  BY <1>1
<1>3. wire' \in Seq(Bytes)
  BY <1>1, EncodeShape DEF Sendable
<1>4. Carried'
  BY <1>1, <1>2, <1>3 DEF Carried
<1> QED
  BY <1>2, <1>4 DEF WireInv

LEMMA DamageKeeps ==
  ASSUME NEW damaged, Damage(damaged), WireInv,
         sent.layer = "bytes" => damaged \in Seq(Bytes)
  PROVE  WireInv'
<1>1. /\ sent.layer \in {"bytes", "text"} /\ sent' = sent
      /\ wire' = damaged /\ harmless' = FALSE
  BY DEF Damage
<1> QED
  BY <1>1 DEF WireInv, Carried

LEMMA Pieces ==
  ASSUME NEW bytes \in Seq(Bytes), NEW i \in 0..Len(bytes), NEW j \in 1..Len(bytes) + 1
  PROVE  SubSeq(bytes, 1, i) \in Seq(Bytes) /\ SubSeq(bytes, j, Len(bytes)) \in Seq(Bytes)
<1>1. Len(bytes) \in Nat /\ i \in Int /\ j \in Int
  OBVIOUS
<1>2. \A k \in 1..i : bytes[k] \in Bytes
  BY <1>1
<1>3. \A k \in j..Len(bytes) : bytes[k] \in Bytes
  BY <1>1
<1> QED
  BY <1>1, <1>2, <1>3, SubSeqProperties

LEMMA WireInvIsInductive ==
  ASSUME WireInv, [Next]_vars
  PROVE  WireInv'
<1>1. CASE UNCHANGED vars
  BY <1>1 DEF vars, WireInv, Carried, Hashed
<1>2. ASSUME NEW b \in Bundles, SendBytes("bundle", b) PROVE WireInv'
  BY <1>2, ArtifactAssumption, SendBytesKeeps DEF Formats
<1>3. ASSUME NEW b \in Invitations, SendBytes("invitation", b) PROVE WireInv'
  BY <1>3, ArtifactAssumption, SendBytesKeeps DEF Formats
<1>4. ASSUME NEW b \in Handoffs, SendBytes("handoff", b) PROVE WireInv'
  BY <1>4, ArtifactAssumption, SendBytesKeeps DEF Formats
<1>5. ASSUME NEW a \in Armored, SendText(a[1], a[2]) PROVE WireInv'
  <2>1. sent'.layer = "text"
    BY <1>5 DEF SendText, Send
  <2> QED
    BY <2>1 DEF WireInv
<1>6. ASSUME NEW values \in Absorbed, Hash(values) PROVE WireInv'
  <2>1. sent' = [layer |-> "hash", values |-> values] /\ wire' = Preimage(values)
    BY <1>6 DEF Hash, Send
  <2>2. sent'.layer = "hash" /\ sent'.values = values
    BY <2>1
  <2>3. Hashed'
    BY <2>1, <2>2 DEF Hashed
  <2> QED
    BY <2>2, <2>3 DEF WireInv
<1>7. ASSUME NEW i \in 1..(Len(wire) + 1), Rewrap(i) PROVE WireInv'
  BY <1>7 DEF Rewrap, WireInv
<1>8. ASSUME NEW pair \in QuotePairs, Quote(pair) PROVE WireInv'
  BY <1>8 DEF Quote, WireInv
<1>9. ASSUME NEW i \in DOMAIN wire, Damage(RemoveAt(wire, i)) PROVE WireInv'
  <2>1. ASSUME sent.layer = "bytes" PROVE RemoveAt(wire, i) \in Seq(Bytes)
    <3>1. wire \in Seq(Bytes)
      BY <2>1 DEF WireInv, Carried
    <3>2. i - 1 \in 0..Len(wire) /\ i + 1 \in 1..Len(wire) + 1
      BY <3>1
    <3>3. SubSeq(wire, 1, i - 1) \in Seq(Bytes) /\ SubSeq(wire, i + 1, Len(wire)) \in Seq(Bytes)
      BY <3>1, <3>2, Pieces
    <3> QED
      BY <3>3, ConcatProperties DEF RemoveAt
  <2> QED
    BY <1>9, <2>1, DamageKeeps
<1>10. ASSUME NEW i \in DOMAIN wire, NEW char \in Alphabet, Damage([wire EXCEPT ![i] = char])
       PROVE  WireInv'
  <2>1. ASSUME sent.layer = "bytes" PROVE [wire EXCEPT ![i] = char] \in Seq(Bytes)
    <3>1. wire \in Seq(Bytes) /\ char \in Bytes
      BY <2>1 DEF WireInv, Carried, Alphabet
    <3> QED
      BY <3>1
  <2> QED
    BY <1>10, <2>1, DamageKeeps
<1>11. ASSUME NEW i \in 1..(Len(wire) + 1), NEW char \in Alphabet, Damage(InsertAt(wire, i, char))
       PROVE  WireInv'
  <2>1. ASSUME sent.layer = "bytes" PROVE InsertAt(wire, i, char) \in Seq(Bytes)
    <3>1. wire \in Seq(Bytes) /\ char \in Bytes
      BY <2>1 DEF WireInv, Carried, Alphabet
    <3>2. i - 1 \in 0..Len(wire) /\ i \in 1..Len(wire) + 1
      BY <3>1
    <3>3. SubSeq(wire, 1, i - 1) \in Seq(Bytes) /\ SubSeq(wire, i, Len(wire)) \in Seq(Bytes)
      BY <3>1, <3>2, Pieces
    <3>4. <<char>> \in Seq(Bytes)
      BY <3>1
    <3>5. SubSeq(wire, 1, i - 1) \o <<char>> \in Seq(Bytes)
      BY <3>3, <3>4, ConcatProperties
    <3> QED
      BY <3>3, <3>5, ConcatProperties DEF InsertAt
  <2> QED
    BY <1>11, <2>1, DamageKeeps
<1> QED
  BY <1>1, <1>2, <1>3, <1>4, <1>5, <1>6, <1>7, <1>8, <1>9, <1>10, <1>11 DEF Next

LEMMA CanonicalFromWireInv ==
  ASSUME WireInv
  PROVE  EncodingsAreCanonical
<1>1. ASSUME sent.layer = "bytes"
      PROVE  \A format \in {"bundle", "invitation", "handoff"} :
               LET read == Decode(format, wire) IN read.ok => Encode(format, read.value) = wire
  <2>1. wire \in Seq(Bytes)
    BY <1>1 DEF WireInv, Carried
  <2> QED
    BY <2>1, DecodeSound DEF Formats
<1>2. ASSUME sent.layer = "bytes", harmless
      PROVE  Decode(sent.format, wire) = [ok |-> TRUE, value |-> sent.fields]
  <2>1. /\ sent.format \in Formats /\ Sendable(sent.format, sent.fields)
        /\ wire = Encode(sent.format, sent.fields)
    BY <1>2 DEF WireInv, Carried
  <2> QED
    BY <2>1, DecodeBack
<1>3. ASSUME sent.layer = "hash", NEW values \in Absorbed, Preimage(values) = wire
      PROVE  values = sent.values
  <2>1. sent.values \in Absorbed /\ wire = Preimage(sent.values)
    BY <1>3 DEF WireInv, Hashed
  <2> QED
    BY <1>3, <2>1, AbsorbedIsAbsorbable, PreimageIsExact
<1> QED
  BY <1>1, <1>2, <1>3 DEF EncodingsAreCanonical

(* For every width of a digest, a length and a usize, every set of         *)
(* artifacts a sender can name and every damage: a decoder accepts only    *)
(* the encoding of what it reads, reads what was sent undamaged, and one   *)
(* preimage is one list of values (bundle.rs, invitation.rs and handoff.rs *)
(* decode; hash.rs absorb).                                                *)
THEOREM EncodingsAreCanonicalInvariant == Spec => []EncodingsAreCanonical
<1>1. Init => WireInv
  BY DEF Init, Nothing, WireInv
<1>2. WireInv /\ [Next]_vars => WireInv'
  BY WireInvIsInductive
<1>3. WireInv => EncodingsAreCanonical
  BY CanonicalFromWireInv
<1> QED
  BY <1>1, <1>2, <1>3, PTL DEF Spec

-------------------------------------------------------------------------------
(* Part 5: three bytes are four characters.                                *)

LEMMA Division ==
  ASSUME NEW base \in Nat, base > 0, NEW x \in Nat
  PROVE  /\ x \div base \in Nat /\ x % base \in 0..(base - 1)
         /\ x = ((x \div base) * base) + (x % base)
OBVIOUS

LEMMA DivisionIs ==
  ASSUME NEW base \in Nat, base > 0, NEW x \in Nat, NEW r \in 0..(base - 1)
  PROVE  /\ (x * base) + r \in Nat
         /\ ((x * base) + r) \div base = x /\ ((x * base) + r) % base = r
<1> DEFINE y == (x * base) + r
           q == y \div base
           s == y % base
<1>1. x * base \in Nat /\ y \in Nat
  OBVIOUS
<1> HIDE DEF y
<1>2. q \in Nat /\ s \in 0..(base - 1) /\ y = (q * base) + s
  BY <1>1, Division
<1> HIDE DEF q, s
<1>3. q * base \in Nat
  BY <1>2
<1>4. ~(q < x)
  <2>1. SUFFICES ASSUME q + 1 <= x PROVE FALSE
    BY <1>2
  <2>2. (q + 1) * base <= x * base /\ (q + 1) * base = (q * base) + base
    BY <1>2, <2>1
  <2> QED
    BY <1>1, <1>2, <1>3, <2>2 DEF y
<1>5. ~(x < q)
  <2>1. SUFFICES ASSUME x + 1 <= q PROVE FALSE
    BY <1>2
  <2>2. (x + 1) * base <= q * base /\ (x + 1) * base = (x * base) + base
    BY <1>2, <2>1
  <2> QED
    BY <1>1, <1>2, <1>3, <2>2 DEF y
<1>6. q = x
  BY <1>2, <1>4, <1>5
<1>7. s = r
  BY <1>1, <1>2, <1>3, <1>6 DEF y
<1> QED
  BY <1>1, <1>6, <1>7 DEF q, s, y

(* Two digits, one of each base, are one of the product.                   *)
LEMMA TwoDigits ==
  ASSUME NEW a \in Nat, NEW b \in Nat, a > 0, b > 0,
         NEW x \in 0..(a - 1), NEW y \in 0..(b - 1)
  PROVE  (x * b) + y \in 0..((a * b) - 1)
<1>1. /\ x * b \in Nat /\ a * b \in Nat /\ (x + 1) * b <= a * b
      /\ (x + 1) * b = (x * b) + b
  OBVIOUS
<1> QED
  BY <1>1

LEMMA SplitDigit ==
  ASSUME NEW a \in Nat, NEW b \in Nat, a > 0, b > 0, NEW x \in 0..((a * b) - 1)
  PROVE  \E h \in 0..(a - 1), l \in 0..(b - 1) : x = (h * b) + l /\ x \div b = h
<1> DEFINE h == x \div b
           l == x % b
<1>1. h \in Nat /\ l \in 0..(b - 1) /\ x = (h * b) + l /\ x \in Nat
  BY Division
<1> HIDE DEF h, l
<1>2. ~(h >= a)
  <2>1. SUFFICES ASSUME h >= a PROVE FALSE
    OBVIOUS
  <2>2. h * b >= a * b /\ h * b \in Nat /\ a * b \in Nat
    BY <1>1, <2>1
  <2> QED
    BY <1>1, <2>2
<1>3. h \in 0..(a - 1)
  BY <1>1, <1>2
<1> QED
  BY <1>1, <1>3 DEF h

Chars == 0..(CharSize - 1)

OfBytes(x, y, z)    == (x * ByteSize + y) * ByteSize + z
OfChars(v, x, y, z) == ((v * CharSize + x) * CharSize + y) * CharSize + z

(* What the sizes are.                                                     *)
Sizes(d, e) ==
  /\ d \in Nat /\ d > 1 /\ e \in Nat /\ e > 1 /\ e = d * d
  /\ CharSize \in Nat /\ CharSize > 1 /\ CharSize = e * d /\ CharSize = d * e
  /\ ByteSize \in Nat /\ ByteSize > 8 /\ ByteSize = e * e
  /\ ByteSize = CharSize * d /\ ByteSize = d * CharSize

LEMMA SizesExist == \E d, e : Sizes(d, e)
<1>1. PICK d \in 2..ByteSize : CharSize = d * d * d /\ ByteSize = CharSize * d
  BY ArmorAssumption
<1>2. ByteSize \in Nat /\ d \in Nat /\ d > 1
  BY ArmorAssumption
<1> DEFINE e == d * d
<1>3. e \in Nat /\ e >= 4
  BY <1>2
<1>4. CharSize = e * d /\ ByteSize = e * d * d
  BY <1>1
<1> HIDE DEF e
<1>5. e * d \in Nat /\ e * d >= 8 /\ e * d = d * e
  BY <1>2, <1>3
<1>6. ByteSize = e * e
  <2>1. e * d * d = e * (d * d)
    BY <1>2, <1>3
  <2> QED
    BY <1>4, <2>1 DEF e
<1>7. ByteSize > 8
  BY <1>3, <1>6
<1>8. CharSize * d = d * CharSize
  BY <1>2, <1>4, <1>5
<1> QED
  BY <1>1, <1>2, <1>3, <1>4, <1>5, <1>6, <1>7, <1>8 DEF Sizes, e

(* The digits of a number written in characters, and in bytes.             *)
LEMMA CharsAre ==
  ASSUME NEW v \in Chars, NEW x \in Chars, NEW y \in Chars, NEW z \in Chars
  PROVE  LET low  == OfChars(v, x, y, z)
             mid  == low \div CharSize
             high == mid \div CharSize
         IN /\ low \in Nat /\ (high \div CharSize) % CharSize = v
            /\ high % CharSize = x /\ mid % CharSize = y /\ low % CharSize = z
<1>1. CharSize \in Nat /\ CharSize > 1
  BY SizesExist DEF Sizes
<1>2. v \in Nat /\ x \in Nat /\ y \in Nat
  BY <1>1 DEF Chars
<1> DEFINE c == (v * CharSize) + x
           b == (c * CharSize) + y
           a == (b * CharSize) + z
<1>3. c \in Nat /\ c \div CharSize = v /\ c % CharSize = x
  BY <1>1, <1>2, DivisionIs DEF Chars
<1> HIDE DEF c
<1>4. b \in Nat /\ b \div CharSize = c /\ b % CharSize = y
  BY <1>1, <1>3, DivisionIs DEF Chars
<1> HIDE DEF b
<1>5. a \in Nat /\ a \div CharSize = b /\ a % CharSize = z
  BY <1>1, <1>4, DivisionIs DEF Chars
<1> HIDE DEF a
<1>6. v % CharSize = v
  <2>1. 0 * CharSize + v = v /\ 0 \in Nat
    BY <1>1, <1>2
  <2> QED
    BY <1>1, <2>1, DivisionIs DEF Chars
<1>7. OfChars(v, x, y, z) = a
  BY DEF OfChars, a, b, c
<1> QED
  BY <1>3, <1>4, <1>5, <1>6, <1>7

LEMMA BytesAre ==
  ASSUME NEW x \in Octets, NEW y \in Octets, NEW z \in Octets
  PROVE  LET low == OfBytes(x, y, z)
             mid == low \div ByteSize
         IN /\ low \in Nat /\ (mid \div ByteSize) % ByteSize = x
            /\ mid % ByteSize = y /\ low % ByteSize = z
<1>1. ByteSize \in Nat /\ ByteSize > 8
  BY SizesExist DEF Sizes
<1>2. x \in Nat /\ y \in Nat
  BY <1>1 DEF Octets
<1> DEFINE b == (x * ByteSize) + y
           a == (b * ByteSize) + z
<1>3. b \in Nat /\ b \div ByteSize = x /\ b % ByteSize = y
  BY <1>1, <1>2, DivisionIs DEF Octets
<1> HIDE DEF b
<1>4. a \in Nat /\ a \div ByteSize = b /\ a % ByteSize = z
  BY <1>1, <1>3, DivisionIs DEF Octets
<1> HIDE DEF a
<1>5. x % ByteSize = x
  <2>1. 0 * ByteSize + x = x /\ 0 \in Nat
    BY <1>1, <1>2
  <2> QED
    BY <1>1, <2>1, DivisionIs DEF Octets
<1>6. OfBytes(x, y, z) = a
  BY DEF OfBytes, a, b
<1> QED
  BY <1>3, <1>4, <1>5, <1>6

(* The characters of three bytes; of the zero bytes at the end, none.      *)
Repacked(b1, b2, b3, c1, c2, c3, c4) ==
  /\ c1 \in Chars /\ c2 \in Chars /\ c3 \in Chars /\ c4 \in Chars
  /\ OfBytes(b1, b2, b3) = OfChars(c1, c2, c3, c4)
  /\ b3 = 0 => c4 = 0
  /\ b2 = 0 /\ b3 = 0 => c3 = 0

LEMMA Repack ==
  ASSUME NEW b1 \in Octets, NEW b2 \in Octets, NEW b3 \in Octets
  PROVE  \E c1, c2, c3, c4 : Repacked(b1, b2, b3, c1, c2, c3, c4)
<1>1. PICK d, e : Sizes(d, e)
  BY SizesExist
<1>2. /\ d \in Nat /\ d > 0 /\ e \in Nat /\ e > 0
      /\ CharSize \in Nat /\ CharSize > 0 /\ CharSize = e * d /\ CharSize = d * e
      /\ ByteSize = CharSize * d /\ ByteSize = e * e /\ ByteSize = d * CharSize
  BY <1>1 DEF Sizes
<1>3. PICK h1 \in 0..(CharSize - 1), l1 \in 0..(d - 1) :
        b1 = (h1 * d) + l1 /\ b1 \div d = h1
  BY <1>2, SplitDigit DEF Octets
<1>4. PICK h2 \in 0..(e - 1), l2 \in 0..(e - 1) : b2 = (h2 * e) + l2 /\ b2 \div e = h2
  BY <1>2, SplitDigit DEF Octets
<1>5. PICK h3 \in 0..(d - 1), l3 \in 0..(CharSize - 1) :
        b3 = (h3 * CharSize) + l3 /\ b3 \div CharSize = h3
  BY <1>2, SplitDigit DEF Octets
<1> DEFINE c2 == (l1 * e) + h2
           c3 == (l2 * d) + h3
<1>6. h1 \in Chars /\ l3 \in Chars
  BY <1>2 DEF Chars
<1>7. c2 \in Chars /\ c3 \in Chars
  <2>1. (l1 * e) + h2 \in 0..((d * e) - 1)
    BY <1>2, TwoDigits
  <2>2. (l2 * d) + h3 \in 0..((e * d) - 1)
    BY <1>2, TwoDigits
  <2> QED
    BY <1>2, <2>1, <2>2 DEF Chars
<1>8. /\ h1 \in Nat /\ l1 \in Nat /\ h2 \in Nat /\ l2 \in Nat /\ h3 \in Nat /\ l3 \in Nat
  BY <1>2
<1>9. (b1 * ByteSize) + b2 = (((h1 * CharSize) + c2) * e) + l2
  <2>1. b1 * ByteSize = (h1 * (d * ByteSize)) + (l1 * ByteSize)
    BY <1>2, <1>3, <1>8
  <2>2. ((h1 * CharSize) + c2) * e = (h1 * (CharSize * e)) + ((l1 * (e * e)) + (h2 * e))
    BY <1>2, <1>8
  <2>3. d * ByteSize = CharSize * e
    BY <1>2
  <2> HIDE DEF c2
  <2>4. l1 * ByteSize = l1 * (e * e) /\ b2 = (h2 * e) + l2
    BY <1>2, <1>4
  <2> QED
    BY <1>2, <1>8, <2>1, <2>2, <2>3, <2>4
<1> DEFINE u == (h1 * CharSize) + c2
<1>10. u \in Nat
  BY <1>2, <1>7, <1>8 DEF Chars
<1> HIDE DEF u, c2
<1>11. (((u * e) + l2) * ByteSize) + b3 = (((u * CharSize) + c3) * CharSize) + l3
  <2>1. ((u * e) + l2) * ByteSize = (u * (e * ByteSize)) + (l2 * ByteSize)
    BY <1>2, <1>8, <1>10
  <2>2. ((u * CharSize) + c3) * CharSize
          = (u * (CharSize * CharSize)) + ((l2 * (d * CharSize)) + (h3 * CharSize))
    BY <1>2, <1>8, <1>10
  <2>3. e * ByteSize = CharSize * CharSize
    <3>1. CharSize * CharSize = (e * d) * (d * e) /\ (e * d) * (d * e) = e * ((d * d) * e)
      BY <1>2
    <3>2. d * d = e
      BY <1>1 DEF Sizes
    <3> QED
      BY <1>2, <3>1, <3>2
  <2>4. l2 * ByteSize = l2 * (d * CharSize)
    BY <1>2
  <2> HIDE DEF c3
  <2> QED
    BY <1>2, <1>5, <1>8, <1>10, <2>1, <2>2, <2>3, <2>4
<1>12. OfBytes(b1, b2, b3) = OfChars(h1, c2, c3, l3)
  BY <1>9, <1>11 DEF OfBytes, OfChars, u
<1>13. b3 = 0 => l3 = 0 /\ h3 = 0
  <2>1. SUFFICES ASSUME b3 = 0 PROVE l3 = 0 /\ h3 = 0
    OBVIOUS
  <2>2. h3 * CharSize \in Nat /\ (h3 > 0 => h3 * CharSize > 0)
    BY <1>2, <1>8
  <2> QED
    BY <1>5, <1>8, <2>1, <2>2
<1>14. b2 = 0 => l2 = 0
  <2>1. SUFFICES ASSUME b2 = 0 PROVE l2 = 0
    OBVIOUS
  <2>2. h2 * e \in Nat
    BY <1>2, <1>8
  <2> QED
    BY <1>4, <1>8, <2>1, <2>2
<1>15. b2 = 0 /\ b3 = 0 => c3 = 0
  BY <1>2, <1>13, <1>14
<1> HIDE DEF c3
<1> QED
  <2>1. Repacked(b1, b2, b3, h1, c2, c3, l3)
    BY <1>6, <1>7, <1>12, <1>13, <1>15 DEF Repacked
  <2> QED
    BY <2>1

(* The bytes of four characters; of the last character that is not whole,  *)
(* the bits that a byte has room for.                                      *)
Unpacked(d, e, c1, c2, c3, c4, b1, b2, b3, k2, k3) ==
  /\ b1 \in Octets /\ b2 \in Octets /\ b3 \in Octets /\ k2 \in Chars /\ k3 \in Chars
  /\ OfChars(c1, c2, c3, c4) = OfBytes(b1, b2, b3)
  /\ OfBytes(b1, b2, 0) = OfChars(c1, c2, k3, 0) /\ k3 \div d = c3 \div d
  /\ OfBytes(b1, 0, 0) = OfChars(c1, k2, 0, 0) /\ k2 \div e = c2 \div e

LEMMA Unpack ==
  ASSUME NEW c1 \in Chars, NEW c2 \in Chars, NEW c3 \in Chars, NEW c4 \in Chars,
         NEW d, NEW e, Sizes(d, e)
  PROVE  \E b1, b2, b3, k2, k3 : Unpacked(d, e, c1, c2, c3, c4, b1, b2, b3, k2, k3)
<1>2. /\ d \in Nat /\ d > 0 /\ e \in Nat /\ e > 0 /\ d * d = e
      /\ CharSize \in Nat /\ CharSize > 0 /\ CharSize = e * d /\ CharSize = d * e
      /\ ByteSize = CharSize * d /\ ByteSize = e * e /\ ByteSize = d * CharSize
  BY DEF Sizes
<1>3. PICK p2 \in 0..(d - 1), q2 \in 0..(e - 1) : c2 = (p2 * e) + q2 /\ c2 \div e = p2
  BY <1>2, SplitDigit DEF Chars
<1>4. PICK p3 \in 0..(e - 1), q3 \in 0..(d - 1) : c3 = (p3 * d) + q3 /\ c3 \div d = p3
  BY <1>2, SplitDigit DEF Chars
<1> DEFINE b1 == (c1 * d) + p2
           b2 == (q2 * e) + p3
           b3 == (q3 * CharSize) + c4
           k2 == (p2 * e) + 0
           k3 == (p3 * d) + 0
<1>5. b1 \in Octets /\ b2 \in Octets /\ b3 \in Octets
  <2>1. c1 \in 0..(CharSize - 1) /\ c4 \in 0..(CharSize - 1)
    BY DEF Chars
  <2>2. (c1 * d) + p2 \in 0..((CharSize * d) - 1)
    BY <1>2, <2>1, TwoDigits
  <2>3. (q2 * e) + p3 \in 0..((e * e) - 1)
    BY <1>2, TwoDigits
  <2>4. (q3 * CharSize) + c4 \in 0..((d * CharSize) - 1)
    BY <1>2, <2>1, TwoDigits
  <2> QED
    BY <1>2, <2>2, <2>3, <2>4 DEF Octets
<1>6. k2 \in Chars /\ k3 \in Chars
  <2>1. 0 \in 0..(e - 1) /\ 0 \in 0..(d - 1)
    BY <1>2
  <2>2. (p2 * e) + 0 \in 0..((d * e) - 1)
    BY <1>2, <2>1, TwoDigits
  <2>3. (p3 * d) + 0 \in 0..((e * d) - 1)
    BY <1>2, <2>1, TwoDigits
  <2> QED
    BY <1>2, <2>2, <2>3 DEF Chars
<1>7. k2 \div e = p2 /\ k3 \div d = p3
  <2>1. 0 \in 0..(e - 1) /\ 0 \in 0..(d - 1) /\ p2 \in Nat /\ p3 \in Nat
    BY <1>2
  <2> QED
    BY <1>2, <2>1, DivisionIs
<1>8. /\ c1 \in Nat /\ p2 \in Nat /\ q2 \in Nat /\ p3 \in Nat /\ q3 \in Nat /\ c4 \in Nat
      /\ c2 \in Nat
  BY <1>2 DEF Chars
<1> DEFINE u == (c1 * CharSize) + c2
<1>9. (b1 * ByteSize) + b2 = (u * e) + p3
  <2>1. b1 * ByteSize = (c1 * (d * ByteSize)) + (p2 * ByteSize)
    BY <1>2, <1>8
  <2>2. u * e = (c1 * (CharSize * e)) + ((p2 * (e * e)) + (q2 * e))
    BY <1>2, <1>3, <1>8
  <2>3. d * ByteSize = CharSize * e
    BY <1>2
  <2>4. p2 * ByteSize = p2 * (e * e)
    BY <1>2
  <2> HIDE DEF b1, u
  <2> QED
    BY <1>2, <1>8, <2>1, <2>2, <2>3, <2>4
<1>10. u \in Nat
  BY <1>2, <1>8
<1>11. b1 * ByteSize = ((c1 * CharSize) + k2) * e
  <2>1. b1 * ByteSize = (c1 * (d * ByteSize)) + (p2 * ByteSize)
    BY <1>2, <1>8
  <2>2. ((c1 * CharSize) + k2) * e = (c1 * (CharSize * e)) + (p2 * (e * e))
    BY <1>2, <1>8
  <2>3. d * ByteSize = CharSize * e
    BY <1>2
  <2>4. p2 * ByteSize = p2 * (e * e)
    BY <1>2
  <2> HIDE DEF b1, k2
  <2> QED
    BY <2>1, <2>2, <2>3, <2>4
<1> HIDE DEF u, k2
<1>12. e * ByteSize = CharSize * CharSize
  <2>1. CharSize * CharSize = (e * d) * (d * e) /\ (e * d) * (d * e) = e * ((d * d) * e)
    BY <1>2
  <2> QED
    BY <1>2, <2>1
<1>13. p3 * ByteSize = p3 * (d * CharSize)
  BY <1>2
<1>14. ((u * e) + p3) * ByteSize = (u * (CharSize * CharSize)) + (p3 * (d * CharSize))
  <2>1. ((u * e) + p3) * ByteSize = (u * (e * ByteSize)) + (p3 * ByteSize)
    BY <1>2, <1>8, <1>10
  <2> QED
    BY <1>12, <1>13, <2>1
<1>15. (((u * CharSize) + c3) * CharSize) + c4
         = ((u * (CharSize * CharSize)) + (p3 * (d * CharSize))) + ((q3 * CharSize) + c4)
  BY <1>2, <1>4, <1>8, <1>10
<1>16. (((u * CharSize) + k3) * CharSize) + 0
         = (u * (CharSize * CharSize)) + (p3 * (d * CharSize))
  BY <1>2, <1>8, <1>10
<1>17. OfChars(c1, c2, c3, c4) = OfBytes(b1, b2, b3)
  BY <1>9, <1>14, <1>15 DEF OfBytes, OfChars, u
<1>18. OfBytes(b1, b2, 0) = OfChars(c1, c2, k3, 0)
  <2>1. ((u * e) + p3) * ByteSize + 0 = (((u * CharSize) + k3) * CharSize) + 0
    BY <1>2, <1>8, <1>10, <1>14, <1>16
  <2> HIDE DEF b1, b2, k3
  <2> QED
    BY <1>9, <2>1 DEF OfBytes, OfChars, u
<1>19. OfBytes(b1, 0, 0) = OfChars(c1, k2, 0, 0)
  <2> DEFINE v == (c1 * CharSize) + k2
  <2>1. v \in Nat
    BY <1>2, <1>6, <1>8 DEF Chars
  <2> HIDE DEF v, b1, b2, b3
  <2>2. (v * e) * ByteSize = v * (CharSize * CharSize)
    BY <1>2, <1>12, <2>1
  <2>3. ((b1 * ByteSize) + 0) * ByteSize + 0 = (v * e) * ByteSize
    BY <1>2, <1>11, <2>1 DEF v
  <2>4. (((v * CharSize) + 0) * CharSize) + 0 = v * (CharSize * CharSize)
    BY <1>2, <2>1
  <2> QED
    BY <2>2, <2>3, <2>4 DEF OfBytes, OfChars, v
<1> HIDE DEF b1, b2, b3, k3
<1> QED
  <2>1. Unpacked(d, e, c1, c2, c3, c4, b1, b2, b3, k2, k3)
    BY <1>3, <1>4, <1>5, <1>6, <1>7, <1>17, <1>18, <1>19 DEF Unpacked
  <2> QED
    BY <2>1

(* The first of four, and of three.                                        *)
LEMMA FirstOfFour ==
  ASSUME NEW V, NEW a \in V, NEW b \in V, NEW c \in V, NEW d \in V, NEW n \in 2..4
  PROVE  LET s == SubSeq(<<a, b, c, d>>, 1, n)
         IN /\ s \in Seq(V) /\ Len(s) = n /\ s[1] = a /\ s[2] = b
            /\ n >= 3 => s[3] = c
            /\ n >= 4 => s[4] = d
<1> DEFINE t == <<a, b, c, d>>
           s == SubSeq(t, 1, n)
<1>1. t[1] = a /\ t[2] = b /\ t[3] = c /\ t[4] = d
  OBVIOUS
<1> HIDE DEF t
<1>2. \A i \in 1..n : t[i] \in V
  <2>1. \A i \in 1..n : i = 1 \/ i = 2 \/ i = 3 \/ i = 4
    OBVIOUS
  <2> QED
    BY <1>1, <2>1
<1>3. s \in Seq(V) /\ Len(s) = n /\ \A i \in 1..n : s[i] = t[i]
  <2>1. /\ s \in Seq(V) /\ Len(s) = IF 1 <= n THEN n - 1 + 1 ELSE 0
        /\ \A i \in 1..(n - 1 + 1) : s[i] = t[1 + i - 1]
    BY <1>2, SubSeqProperties
  <2>2. n - 1 + 1 = n /\ 1 <= n /\ \A i \in 1..n : 1 + i - 1 = i
    OBVIOUS
  <2> HIDE DEF s
  <2> QED
    BY <2>1, <2>2
<1> HIDE DEF s
<1>4. s[1] = a /\ s[2] = b /\ (n >= 3 => s[3] = c) /\ (n >= 4 => s[4] = d)
  BY <1>1, <1>3
<1> QED
  BY <1>3, <1>4 DEF s, t

LEMMA FirstOfThree ==
  ASSUME NEW V, NEW a \in V, NEW b \in V, NEW c \in V, NEW n \in 1..3
  PROVE  LET s == SubSeq(<<a, b, c>>, 1, n)
         IN /\ s \in Seq(V) /\ Len(s) = n /\ s[1] = a
            /\ n >= 2 => s[2] = b
            /\ n >= 3 => s[3] = c
<1> DEFINE t == <<a, b, c>>
           s == SubSeq(t, 1, n)
<1>1. t[1] = a /\ t[2] = b /\ t[3] = c
  OBVIOUS
<1> HIDE DEF t
<1>2. \A i \in 1..n : t[i] \in V
  <2>1. \A i \in 1..n : i = 1 \/ i = 2 \/ i = 3
    OBVIOUS
  <2> QED
    BY <1>1, <2>1
<1>3. s \in Seq(V) /\ Len(s) = n /\ \A i \in 1..n : s[i] = t[i]
  <2>1. /\ s \in Seq(V) /\ Len(s) = IF 1 <= n THEN n - 1 + 1 ELSE 0
        /\ \A i \in 1..(n - 1 + 1) : s[i] = t[1 + i - 1]
    BY <1>2, SubSeqProperties
  <2>2. n - 1 + 1 = n /\ 1 <= n /\ \A i \in 1..n : 1 + i - 1 = i
    OBVIOUS
  <2> HIDE DEF s
  <2> QED
    BY <2>1, <2>2
<1> HIDE DEF s
<1>4. s[1] = a /\ (n >= 2 => s[2] = b) /\ (n >= 3 => s[3] = c)
  BY <1>1, <1>3
<1> QED
  BY <1>3, <1>4 DEF s, t

LEMMA ZeroIsBoth == 0 \in Octets /\ 0 \in Chars
BY SizesExist DEF Sizes, Octets, Chars

LEMMA EncodeGroupIs ==
  ASSUME NEW bytes \in Seq(Octets), Len(bytes) \in 1..3,
         NEW c1 \in Chars, NEW c2 \in Chars, NEW c3 \in Chars, NEW c4 \in Chars,
         OfBytes(Digit(bytes, 1), Digit(bytes, 2), Digit(bytes, 3)) = OfChars(c1, c2, c3, c4)
  PROVE  LET chars == EncodeGroup(bytes)
         IN /\ chars \in Seq(Chars) /\ Len(chars) = Len(bytes) + 1
            /\ chars[1] = c1 /\ chars[2] = c2
            /\ Len(bytes) >= 2 => chars[3] = c3
            /\ Len(bytes) >= 3 => chars[4] = c4
<1> DEFINE n == Len(bytes) + 1
<1>1. EncodeGroup(bytes) = SubSeq(<<c1, c2, c3, c4>>, 1, n)
  <2> DEFINE low  == BitsOfBytes(bytes)
             mid  == low \div CharSize
             high == mid \div CharSize
  <2>1. low = OfChars(c1, c2, c3, c4)
    BY DEF BitsOfBytes, OfBytes
  <2>2. /\ (high \div CharSize) % CharSize = c1
        /\ high % CharSize = c2 /\ mid % CharSize = c3 /\ low % CharSize = c4
    BY <2>1, CharsAre
  <2> QED
    BY <2>2 DEF EncodeGroup
<1>2. n \in 2..4 /\ (Len(bytes) >= 2 => n >= 3) /\ (Len(bytes) >= 3 => n >= 4)
  <2> DEFINE k == Len(bytes)
  <2>1. k \in 1..3 /\ n = k + 1
    OBVIOUS
  <2> HIDE DEF k, n
  <2>2. n \in 2..4 /\ (k >= 2 => n >= 3) /\ (k >= 3 => n >= 4)
    BY <2>1
  <2> QED
    BY <2>2 DEF k
<1> HIDE DEF n
<1> DEFINE s == SubSeq(<<c1, c2, c3, c4>>, 1, n)
<1>3. /\ s \in Seq(Chars) /\ Len(s) = n /\ s[1] = c1 /\ s[2] = c2
      /\ n >= 3 => s[3] = c3
      /\ n >= 4 => s[4] = c4
  BY <1>2, FirstOfFour
<1> HIDE DEF s
<1>4. EncodeGroup(bytes) = s
  BY <1>1 DEF s
<1> QED
  BY <1>2, <1>3, <1>4 DEF n

LEMMA DecodeGroupIs ==
  ASSUME NEW chars \in Seq(Chars), Len(chars) \in 2..4,
         NEW b1 \in Octets, NEW b2 \in Octets, NEW b3 \in Octets,
         OfChars(Digit(chars, 1), Digit(chars, 2), Digit(chars, 3), Digit(chars, 4))
           = OfBytes(b1, b2, b3)
  PROVE  LET bytes == DecodeGroup(chars)
         IN /\ bytes \in Seq(Octets) /\ Len(bytes) = Len(chars) - 1
            /\ bytes[1] = b1
            /\ Len(chars) >= 3 => bytes[2] = b2
            /\ Len(chars) >= 4 => bytes[3] = b3
<1> DEFINE n == Len(chars) - 1
<1>1. DecodeGroup(chars) = SubSeq(<<b1, b2, b3>>, 1, n)
  <2> DEFINE low == BitsOfChars(chars)
             mid == low \div ByteSize
  <2>1. low = OfBytes(b1, b2, b3)
    BY DEF BitsOfChars, OfChars
  <2>2. (mid \div ByteSize) % ByteSize = b1 /\ mid % ByteSize = b2 /\ low % ByteSize = b3
    BY <2>1, BytesAre
  <2> QED
    BY <2>2 DEF DecodeGroup
<1>2. n \in 1..3 /\ (Len(chars) >= 3 => n >= 2) /\ (Len(chars) >= 4 => n >= 3)
  OBVIOUS
<1> HIDE DEF n
<1> DEFINE s == SubSeq(<<b1, b2, b3>>, 1, n)
<1>3. /\ s \in Seq(Octets) /\ Len(s) = n /\ s[1] = b1
      /\ n >= 2 => s[2] = b2
      /\ n >= 3 => s[3] = b3
  BY <1>2, FirstOfThree
<1> HIDE DEF s
<1>4. DecodeGroup(chars) = s
  BY <1>1 DEF s
<1> QED
  BY <1>2, <1>3, <1>4 DEF n

(* The digits of a group, the missing ones included.                       *)
LEMMA DigitsOfBytes ==
  ASSUME NEW bytes \in Seq(Octets), Len(bytes) \in 1..3
  PROVE  /\ Digit(bytes, 1) \in Octets /\ Digit(bytes, 2) \in Octets /\ Digit(bytes, 3) \in Octets
         /\ Digit(bytes, 1) = bytes[1]
         /\ Digit(bytes, 2) = IF Len(bytes) >= 2 THEN bytes[2] ELSE 0
         /\ Digit(bytes, 3) = IF Len(bytes) >= 3 THEN bytes[3] ELSE 0
<1>1. Len(bytes) \in Nat /\ \A i \in 1..Len(bytes) : bytes[i] \in Octets
  BY ElementOfSeq
<1> QED
  BY <1>1, ZeroIsBoth DEF Digit

LEMMA DigitsOfChars ==
  ASSUME NEW chars \in Seq(Chars), Len(chars) \in 2..4
  PROVE  /\ Digit(chars, 1) \in Chars /\ Digit(chars, 2) \in Chars
         /\ Digit(chars, 3) \in Chars /\ Digit(chars, 4) \in Chars
         /\ Digit(chars, 1) = chars[1] /\ Digit(chars, 2) = chars[2]
         /\ Digit(chars, 3) = IF Len(chars) >= 3 THEN chars[3] ELSE 0
         /\ Digit(chars, 4) = IF Len(chars) >= 4 THEN chars[4] ELSE 0
<1>1. Len(chars) \in Nat /\ \A i \in 1..Len(chars) : chars[i] \in Chars
  BY ElementOfSeq
<1> QED
  BY <1>1, ZeroIsBoth DEF Digit

(* A group that is encoded is decoded to itself.                           *)
LEMMA GroupBack ==
  ASSUME NEW bytes \in Seq(Octets), Len(bytes) \in 1..3
  PROVE  /\ EncodeGroup(bytes) \in Seq(Chars) /\ Len(EncodeGroup(bytes)) = Len(bytes) + 1
         /\ DecodeGroup(EncodeGroup(bytes)) = bytes
<1> DEFINE b1 == Digit(bytes, 1)
           b2 == Digit(bytes, 2)
           b3 == Digit(bytes, 3)
           n == Len(bytes)
<1>1. /\ b1 \in Octets /\ b2 \in Octets /\ b3 \in Octets /\ b1 = bytes[1]
      /\ b2 = (IF n >= 2 THEN bytes[2] ELSE 0) /\ b3 = (IF n >= 3 THEN bytes[3] ELSE 0)
      /\ n = 1 \/ n = 2 \/ n = 3
  BY DigitsOfBytes
<1> HIDE DEF b1, b2, b3
<1>0. PICK c1, c2, c3, c4 : Repacked(b1, b2, b3, c1, c2, c3, c4)
  BY <1>1, Repack
<1>2. /\ c1 \in Chars /\ c2 \in Chars /\ c3 \in Chars /\ c4 \in Chars
      /\ OfBytes(b1, b2, b3) = OfChars(c1, c2, c3, c4)
      /\ b3 = 0 => c4 = 0
      /\ b2 = 0 /\ b3 = 0 => c3 = 0
  BY <1>0 DEF Repacked
<1> DEFINE chars == EncodeGroup(bytes)
<1>3. /\ chars \in Seq(Chars) /\ Len(chars) = n + 1
      /\ chars[1] = c1 /\ chars[2] = c2
      /\ n >= 2 => chars[3] = c3
      /\ n >= 3 => chars[4] = c4
  BY <1>2, EncodeGroupIs DEF b1, b2, b3
<1> HIDE DEF chars
<1>4. Len(chars) \in 2..4
  <2>1. Len(chars) = n + 1 /\ (n = 1 \/ n = 2 \/ n = 3)
    BY <1>1, <1>3
  <2> HIDE DEF n
  <2> QED
    BY <2>1
<1>5. /\ Digit(chars, 1) = c1 /\ Digit(chars, 2) = c2
      /\ Digit(chars, 3) = c3 /\ Digit(chars, 4) = c4
  <2>1. /\ Digit(chars, 1) = chars[1] /\ Digit(chars, 2) = chars[2]
        /\ Digit(chars, 3) = IF Len(chars) >= 3 THEN chars[3] ELSE 0
        /\ Digit(chars, 4) = IF Len(chars) >= 4 THEN chars[4] ELSE 0
    BY <1>3, <1>4, DigitsOfChars
  <2> QED
    BY <1>1, <1>2, <1>3, <2>1
<1> DEFINE back == DecodeGroup(chars)
<1>6. /\ back \in Seq(Octets) /\ Len(back) = Len(chars) - 1
      /\ back[1] = b1
      /\ Len(chars) >= 3 => back[2] = b2
      /\ Len(chars) >= 4 => back[3] = b3
  <2>1. OfChars(Digit(chars, 1), Digit(chars, 2), Digit(chars, 3), Digit(chars, 4))
          = OfBytes(b1, b2, b3)
    BY <1>2, <1>5
  <2>2. b1 \in Octets /\ b2 \in Octets /\ b3 \in Octets /\ chars \in Seq(Chars)
    BY <1>1, <1>3
  <2>3. /\ DecodeGroup(chars) \in Seq(Octets) /\ Len(DecodeGroup(chars)) = Len(chars) - 1
        /\ DecodeGroup(chars)[1] = b1
        /\ Len(chars) >= 3 => DecodeGroup(chars)[2] = b2
        /\ Len(chars) >= 4 => DecodeGroup(chars)[3] = b3
    <3> HIDE DEF b1, b2, b3, chars
    <3> QED
      BY <1>4, <2>1, <2>2, DecodeGroupIs
  <2> QED
    BY <2>3
<1> HIDE DEF back
<1>7. Len(back) = n /\ \A i \in 1..n : back[i] = bytes[i]
  <2>1. /\ Len(chars) = n + 1 /\ (n = 1 \/ n = 2 \/ n = 3) /\ b1 = bytes[1]
        /\ n >= 2 => b2 = bytes[2]
        /\ n >= 3 => b3 = bytes[3]
    BY <1>1, <1>3
  <2> HIDE DEF n, chars, b1, b2, b3
  <2>2. n + 1 >= 3 <=> n >= 2
    BY <2>1
  <2>3. n + 1 >= 4 <=> n >= 3
    BY <2>1
  <2>4. /\ Len(back) = (n + 1) - 1 /\ back[1] = bytes[1]
        /\ n >= 2 => back[2] = bytes[2]
        /\ n >= 3 => back[3] = bytes[3]
    BY <1>6, <2>1, <2>2, <2>3
  <2> QED
    BY <2>1, <2>4
<1>8. back = bytes
  <2>1. IsSequence(back) /\ IsSequence(bytes)
    BY <1>6, SequenceOver
  <2> QED
    BY <1>7, <2>1, SameElements
<1> QED
  BY <1>3, <1>8 DEF chars, back

LEMMA SpareIs ==
  ASSUME NEW d, NEW e, Sizes(d, e), NEW n \in Nat
  PROVE  /\ n % 4 = 2 => SpareValues(n) = e
         /\ n % 4 = 3 => SpareValues(n) = d
         /\ n % 4 = 0 => SpareValues(n) = 1
<1>1. /\ d \in Nat /\ e \in Nat /\ e > 0 /\ d * d = e
      /\ CharSize = e * d /\ CharSize = d * e /\ ByteSize = e * e
      /\ ByteSize \in Nat /\ ByteSize > 0
  BY DEF Sizes
<1>2. CharSize * CharSize = (e * ByteSize) + 0
  <2>1. CharSize * CharSize = (e * d) * (d * e) /\ (e * d) * (d * e) = e * ((d * d) * e)
    BY <1>1
  <2> QED
    BY <1>1, <2>1
<1>3. (CharSize * CharSize) \div ByteSize = e
  <2>1. 0 \in 0..(ByteSize - 1)
    BY <1>1
  <2> HIDE DEF Sizes
  <2>2. ((e * ByteSize) + 0) \div ByteSize = e
    BY <1>1, <2>1, DivisionIs
  <2> QED
    BY <1>2, <2>2
<1>4. CharSize * CharSize * CharSize = (d * (ByteSize * ByteSize)) + 0
  <2>1. CharSize * CharSize * CharSize = (e * ByteSize) * (e * d)
    BY <1>1, <1>2
  <2>2. (e * ByteSize) * (e * d) = d * (ByteSize * (e * e))
    BY <1>1
  <2> QED
    BY <1>1, <2>1, <2>2
<1>5. (CharSize * CharSize * CharSize) \div (ByteSize * ByteSize) = d
  <2> DEFINE square == ByteSize * ByteSize
  <2>1. square \in Nat /\ square > 0
    BY <1>1
  <2> HIDE DEF square
  <2>2. 0 \in 0..(square - 1)
    BY <2>1
  <2>3. ((d * square) + 0) \div square = d
    BY <1>1, <2>1, <2>2, DivisionIs
  <2> QED
    BY <1>4, <2>3 DEF square
<1> QED
  BY <1>3, <1>5 DEF SpareValues

(* What is read of a group is written as the same characters, but for the  *)
(* bits of the last one that no byte uses.                                 *)
LEMMA GroupRead ==
  ASSUME NEW chars \in Seq(Chars), Len(chars) \in 2..4
  PROVE  LET bytes == DecodeGroup(chars)
             again == EncodeGroup(bytes)
             n     == Len(chars)
         IN /\ bytes \in Seq(Octets) /\ Len(bytes) = n - 1
            /\ again \in Seq(Chars) /\ Len(again) = n
            /\ \A i \in 1..(n - 1) : again[i] = chars[i]
            /\ \A m \in Nat : m % 4 = n % 4 =>
                 again[n] \div SpareValues(m) = chars[n] \div SpareValues(m)
<1> DEFINE c1 == Digit(chars, 1)
           c2 == Digit(chars, 2)
           c3 == Digit(chars, 3)
           c4 == Digit(chars, 4)
           n  == Len(chars)
           bytes == DecodeGroup(chars)
           again == EncodeGroup(bytes)
<1>1. /\ c1 \in Chars /\ c2 \in Chars /\ c3 \in Chars /\ c4 \in Chars
      /\ c1 = chars[1] /\ c2 = chars[2]
      /\ c3 = (IF n >= 3 THEN chars[3] ELSE 0) /\ c4 = (IF n >= 4 THEN chars[4] ELSE 0)
  BY DigitsOfChars
<1>2. n = 2 \/ n = 3 \/ n = 4
  <2>1. \A k \in 2..4 : k = 2 \/ k = 3 \/ k = 4
    OBVIOUS
  <2> QED
    BY <2>1
<1> HIDE DEF c1, c2, c3, c4
<1>3. PICK d, e : Sizes(d, e)
  BY SizesExist
<1>0. PICK b1, b2, b3, k2, k3 : Unpacked(d, e, c1, c2, c3, c4, b1, b2, b3, k2, k3)
  BY <1>1, <1>3, Unpack
<1>4. /\ b1 \in Octets /\ b2 \in Octets /\ b3 \in Octets /\ k2 \in Chars /\ k3 \in Chars
      /\ OfChars(c1, c2, c3, c4) = OfBytes(b1, b2, b3)
      /\ OfBytes(b1, b2, 0) = OfChars(c1, c2, k3, 0) /\ k3 \div d = c3 \div d
      /\ OfBytes(b1, 0, 0) = OfChars(c1, k2, 0, 0) /\ k2 \div e = c2 \div e
  BY <1>0 DEF Unpacked
<1>5. /\ bytes \in Seq(Octets) /\ Len(bytes) = n - 1
      /\ bytes[1] = b1 /\ (n >= 3 => bytes[2] = b2) /\ (n >= 4 => bytes[3] = b3)
  <2>1. OfChars(Digit(chars, 1), Digit(chars, 2), Digit(chars, 3), Digit(chars, 4))
          = OfBytes(b1, b2, b3)
    BY <1>4 DEF c1, c2, c3, c4
  <2>2. b1 \in Octets /\ b2 \in Octets /\ b3 \in Octets
    BY <1>4
  <2> QED
    BY <2>1, <2>2, DecodeGroupIs
<1> HIDE DEF bytes, n
<1>6. Len(bytes) = 1 \/ Len(bytes) = 2 \/ Len(bytes) = 3
  BY <1>2, <1>5
<1>7. /\ Digit(bytes, 1) = b1
      /\ Digit(bytes, 2) = (IF n >= 3 THEN b2 ELSE 0)
      /\ Digit(bytes, 3) = (IF n >= 4 THEN b3 ELSE 0)
  <2>1. /\ Digit(bytes, 1) = bytes[1]
        /\ Digit(bytes, 2) = IF Len(bytes) >= 2 THEN bytes[2] ELSE 0
        /\ Digit(bytes, 3) = IF Len(bytes) >= 3 THEN bytes[3] ELSE 0
    <3>1. Len(bytes) \in 1..3
      BY <1>6
    <3> QED
      BY <1>5, <3>1, DigitsOfBytes
  <2>2. (Len(bytes) >= 2 <=> n >= 3) /\ (Len(bytes) >= 3 <=> n >= 4)
    BY <1>2, <1>5
  <2> QED
    BY <1>5, <2>1, <2>2
<1>8. ASSUME NEW w2 \in Chars, NEW w3 \in Chars, NEW w4 \in Chars,
             OfBytes(Digit(bytes, 1), Digit(bytes, 2), Digit(bytes, 3)) = OfChars(c1, w2, w3, w4)
      PROVE  /\ again \in Seq(Chars) /\ Len(again) = n
             /\ again[1] = c1 /\ again[2] = w2
             /\ (n >= 3 => again[3] = w3) /\ (n >= 4 => again[4] = w4)
  <2>1. Len(bytes) \in 1..3
    BY <1>6
  <2>2. /\ again \in Seq(Chars) /\ Len(again) = Len(bytes) + 1
        /\ again[1] = c1 /\ again[2] = w2
        /\ Len(bytes) >= 2 => again[3] = w3
        /\ Len(bytes) >= 3 => again[4] = w4
    <3>1. c1 \in Chars /\ bytes \in Seq(Octets)
      BY <1>1, <1>5
    <3> QED
      BY <1>8, <2>1, <3>1, EncodeGroupIs
  <2> HIDE DEF again
  <2> QED
    BY <1>2, <1>5, <2>2
<1> HIDE DEF again
<1>9. ASSUME NEW m \in Nat, m % 4 = n % 4
      PROVE  /\ n = 2 => SpareValues(m) = e
             /\ n = 3 => SpareValues(m) = d
             /\ n = 4 => SpareValues(m) = 1
  <2>1. (n = 2 => m % 4 = 2) /\ (n = 3 => m % 4 = 3) /\ (n = 4 => m % 4 = 0)
    BY <1>9
  <2> QED
    BY <1>3, <2>1, SpareIs
<1>10. CASE n = 2
  <2>1. OfBytes(Digit(bytes, 1), Digit(bytes, 2), Digit(bytes, 3)) = OfChars(c1, k2, 0, 0)
    BY <1>4, <1>7, <1>10
  <2>2. again \in Seq(Chars) /\ Len(again) = n /\ again[1] = c1 /\ again[2] = k2
    BY <1>4, <1>8, <2>1, ZeroIsBoth
  <2>3. \A i \in 1..(n - 1) : i = 1
    BY <1>10
  <2> QED
    BY <1>1, <1>4, <1>5, <1>9, <1>10, <2>2, <2>3 DEF n, bytes, again
<1>11. CASE n = 3
  <2>1. OfBytes(Digit(bytes, 1), Digit(bytes, 2), Digit(bytes, 3)) = OfChars(c1, c2, k3, 0)
    BY <1>4, <1>7, <1>11
  <2>2. /\ again \in Seq(Chars) /\ Len(again) = n
        /\ again[1] = c1 /\ again[2] = c2 /\ again[3] = k3
    BY <1>1, <1>4, <1>8, <1>11, <2>1, ZeroIsBoth
  <2>3. (\A i \in 1..(n - 1) : i = 1 \/ i = 2) /\ c3 = chars[3]
    BY <1>1, <1>11
  <2> QED
    BY <1>1, <1>4, <1>5, <1>9, <1>11, <2>2, <2>3 DEF n, bytes, again
<1>12. CASE n = 4
  <2>1. OfBytes(Digit(bytes, 1), Digit(bytes, 2), Digit(bytes, 3)) = OfChars(c1, c2, c3, c4)
    BY <1>4, <1>7, <1>12
  <2>2. /\ again \in Seq(Chars) /\ Len(again) = n
        /\ again[1] = c1 /\ again[2] = c2 /\ again[3] = c3 /\ again[4] = c4
    BY <1>1, <1>8, <1>12, <2>1
  <2>3. (\A i \in 1..(n - 1) : i = 1 \/ i = 2 \/ i = 3) /\ c3 = chars[3] /\ c4 = chars[4]
    BY <1>1, <1>12
  <2> QED
    BY <1>1, <1>5, <1>12, <2>2, <2>3 DEF n, bytes, again
<1> QED
  BY <1>2, <1>10, <1>11, <1>12

-------------------------------------------------------------------------------
(* Part 6: a sequence and its groups.                                      *)

(* Every group is full but for the last one.                               *)
Even(groups, n, V) ==
  /\ groups \in Seq(Seq(V))
  /\ \A g \in 1..Len(groups) :
       Len(groups[g]) \in 1..n /\ (g < Len(groups) => Len(groups[g]) = n)

LEMMA Places ==
  ASSUME NEW n \in {3, 4}, NEW p \in Nat, p > 0
  PROVE  \E g \in Nat, j \in 1..n : g > 0 /\ p = (n * (g - 1)) + j
<1>1. CASE n = 3
  <2> DEFINE g == ((p - 1) \div 3) + 1
             j == ((p - 1) % 3) + 1
  <2>1. g \in Nat /\ g > 0 /\ j \in 1..3 /\ p = (3 * (g - 1)) + j
    OBVIOUS
  <2> HIDE DEF g, j
  <2> QED
    BY <1>1, <2>1
<1>2. CASE n = 4
  <2> DEFINE g == ((p - 1) \div 4) + 1
             j == ((p - 1) % 4) + 1
  <2>1. g \in Nat /\ g > 0 /\ j \in 1..4 /\ p = (4 * (g - 1)) + j
    OBVIOUS
  <2> HIDE DEF g, j
  <2> QED
    BY <1>2, <2>1
<1> QED
  BY <1>1, <1>2

LEMMA GroupCount ==
  ASSUME NEW n \in {3, 4}, NEW l \in Nat
  PROVE  LET k == (l + n - 1) \div n
         IN /\ k \in Nat /\ (l = 0 => k = 0) /\ (l > 0 => k > 0)
            /\ l > 0 => n * (k - 1) < l /\ l <= n * k
<1>1. CASE n = 3
  BY <1>1
<1>2. CASE n = 4
  BY <1>2
<1> QED
  BY <1>1, <1>2

LEMMA CountIs ==
  ASSUME NEW n \in {3, 4}, NEW k \in Nat, k > 0, NEW m \in 1..n
  PROVE  (((n * (k - 1)) + m) + n - 1) \div n = k
<1>1. CASE n = 3
  BY <1>1
<1>2. CASE n = 4
  BY <1>2
<1> QED
  BY <1>1, <1>2

(* Where the groups lie in what they flatten to.                           *)
Laid(groups, s, n, V) ==
  /\ s \in Seq(V)
  /\ Len(groups) = 0 => Len(s) = 0
  /\ Len(groups) > 0 => Len(s) = (n * (Len(groups) - 1)) + Len(groups[Len(groups)])
  /\ \A g \in 1..Len(groups) : \A j \in 1..Len(groups[g]) :
       s[(n * (g - 1)) + j] = groups[g][j]

LEMMA FlattenGroups ==
  ASSUME NEW V, NEW n \in {3, 4}, NEW groups, Even(groups, n, V)
  PROVE  Laid(groups, FlattenSeq(groups), n, V)
<1> DEFINE k == Len(groups)
<1>1. /\ groups \in Seq(Seq(V)) /\ k \in Nat
      /\ \A g \in 1..k : /\ groups[g] \in Seq(V) /\ Len(groups[g]) \in 1..n
                         /\ g < k => Len(groups[g]) = n
  BY DEF Even
<1>2. PICK f : Written(f, groups, V)
  BY <1>1, FlattenWrites
<1>3. /\ \A i \in 0..k : f[i] \in Seq(V)
      /\ f[0] = << >> /\ \A i \in 1..k : f[i] = f[i - 1] \o groups[i]
      /\ FlattenSeq(groups) = f[k]
  BY <1>2 DEF Written
<1> DEFINE Placed(i) ==
             /\ i = 0 => Len(f[i]) = 0
             /\ i > 0 => Len(f[i]) = (n * (i - 1)) + Len(groups[i])
             /\ \A g \in 1..i : \A j \in 1..Len(groups[g]) :
                  f[i][(n * (g - 1)) + j] = groups[g][j]
           S == {i \in Nat : i <= k => Placed(i)}
<1> HIDE DEF k
<1>4. 0 \in S
  BY <1>3
<1>5. ASSUME NEW i \in Nat, i \in S PROVE i + 1 \in S
  <2> SUFFICES ASSUME i + 1 <= k PROVE Placed(i + 1)
    OBVIOUS
  <2>1. /\ i + 1 \in 1..k /\ (i + 1) - 1 = i /\ i \in 0..k /\ i + 1 \in 0..k /\ i <= k
        /\ i + 1 > 0 /\ i + 1 # 0 /\ i < k /\ (i > 0 => i \in 1..k)
        /\ \A g \in 1..(i + 1) : g # i + 1 => g \in 1..i /\ g \in 1..k /\ i - g \in Nat
    BY <1>1
  <2> HIDE DEF Placed
  <2> DEFINE x == f[i]
             y == groups[i + 1]
             z == f[i + 1]
  <2>2. x \in Seq(V) /\ y \in Seq(V) /\ z = x \o y /\ Len(y) \in 1..n /\ Len(x) \in Nat
    <3>1. x \in Seq(V) /\ y \in Seq(V) /\ z = x \o y /\ Len(y) \in 1..n
      BY <1>1, <1>3, <2>1
    <3> HIDE DEF x
    <3> QED
      BY <3>1
  <2>3. Len(x) = n * i
    <3>1. CASE i = 0
      <4>1. Len(x) = 0
        BY <1>3, <3>1, EmptySeq
      <4> QED
        BY <3>1, <4>1
    <3>2. CASE i > 0
      <4>1. i \in 1..k /\ i < k
        BY <2>1, <3>2, Zenon
      <4>2. Len(groups[i]) = n
        BY <1>1, <4>1
      <4>3. Placed(i)
        BY <1>5, <2>1
      <4>4. Len(x) = (n * (i - 1)) + n
        BY <3>2, <4>2, <4>3 DEF Placed
      <4>5. (n * (i - 1)) + n = n * i
        OBVIOUS
      <4> QED
        BY <4>4, <4>5
    <3> QED
      BY <3>1, <3>2
  <2>4. /\ Len(z) = (n * i) + Len(y)
        /\ \A j \in 1..Len(x) : z[j] = x[j]
        /\ \A j \in 1..Len(y) : z[(n * i) + j] = y[j]
    <3>1. IsSequence(x) /\ IsSequence(y)
      BY <2>2, SequenceOver
    <3> HIDE DEF x, y, z
    <3>2. /\ Len(x \o y) = Len(x) + Len(y)
          /\ \A j \in 1..Len(x) : (x \o y)[j] = x[j]
          /\ \A j \in 1..Len(y) : (x \o y)[Len(x) + j] = y[j]
      BY <3>1, ConcatShape
    <3> QED
      BY <2>2, <2>3, <3>2
  <2>5. ASSUME NEW g \in 1..(i + 1), NEW j \in 1..Len(groups[g])
        PROVE  z[(n * (g - 1)) + j] = groups[g][j]
    <3>1. CASE g = i + 1
      BY <2>1, <2>4, <3>1
    <3>2. CASE g # i + 1
      <4>1. g \in 1..i /\ g \in 1..k /\ i - g \in Nat
        BY <2>1, <3>2, Zenon
      <4>2. x[(n * (g - 1)) + j] = groups[g][j]
        BY <1>5, <2>1, <4>1 DEF Placed
      <4>3. Len(groups[g]) \in 1..n
        BY <1>1, <4>1
      <4>4. (n * (g - 1)) + j \in 1..(n * i)
        <5>1. j \in 1..n /\ n \in Nat
          BY <4>3
        <5>2. CASE n = 3
          BY <4>1, <5>1, <5>2
        <5>3. CASE n = 4
          BY <4>1, <5>1, <5>3
        <5> QED
          BY <5>2, <5>3
      <4> QED
        BY <2>3, <2>4, <4>2, <4>4
    <3> QED
      BY <3>1, <3>2
  <2> QED
    BY <2>1, <2>4, <2>5 DEF Placed
<1> HIDE DEF S
<1>6. Nat \subseteq S
  BY <1>4, <1>5, Induct
<1>7. Placed(k)
  <2>1. k \in Nat /\ k <= k
    BY <1>1
  <2> HIDE DEF Placed
  <2> QED
    BY <1>6, <2>1 DEF S
<1>8. k \in 0..k
  BY <1>1
<1> QED
  BY <1>3, <1>7, <1>8 DEF k, Laid

(* The groups of a sequence, and the sequence they flatten to.             *)
Cut(groups, s, n, V) ==
  /\ Even(groups, n, V) /\ Len(groups) = (Len(s) + n - 1) \div n
  /\ \A g \in 1..Len(groups) :
       /\ Len(groups[g]) = IF n * g < Len(s) THEN n ELSE Len(s) - (n * (g - 1))
       /\ \A j \in 1..Len(groups[g]) : groups[g][j] = s[(n * (g - 1)) + j]

LEMMA GroupsShape ==
  ASSUME NEW V, NEW s \in Seq(V), NEW n \in {3, 4}
  PROVE  Cut(GroupsOf(s, n), s, n, V)
<1> DEFINE l == Len(s)
           k == (l + n - 1) \div n
           groups == GroupsOf(s, n)
           end(g) == IF n * g < l THEN n * g ELSE l
<1>1. /\ l \in Nat /\ k \in Nat /\ (l = 0 => k = 0) /\ (l > 0 => k > 0)
      /\ l > 0 => n * (k - 1) < l /\ l <= n * k
      /\ \A i \in 1..l : s[i] \in V
  BY GroupCount, ElementOfSeq
<1>2. groups = [g \in 1..k |-> SubSeq(s, n * (g - 1) + 1, end(g))]
  BY DEF GroupsOf
<1> HIDE DEF k, groups, l
<1>3. ASSUME NEW g \in 1..k
      PROVE  /\ n * (g - 1) \in Nat /\ n * (g - 1) < l
             /\ end(g) \in Nat /\ end(g) <= l
             /\ end(g) - (n * (g - 1)) \in 1..n
             /\ g < k => n * g < l
  <2>1. l > 0 /\ k - g \in Nat /\ g - 1 \in Nat
    BY <1>1
  <2>2. CASE n = 3
    BY <1>1, <2>1, <2>2
  <2>3. CASE n = 4
    BY <1>1, <2>1, <2>3
  <2> QED
    BY <2>2, <2>3
<1>4. ASSUME NEW g \in 1..k
      PROVE  /\ groups[g] \in Seq(V) /\ Len(groups[g]) = end(g) - (n * (g - 1))
             /\ \A j \in 1..Len(groups[g]) : groups[g][j] = s[(n * (g - 1)) + j]
  <2> DEFINE a == n * (g - 1)
             b == end(g)
             t == SubSeq(s, a + 1, b)
  <2>1. groups[g] = t
    BY <1>2
  <2>2. a \in Nat /\ b \in Nat /\ b <= l /\ b - a \in 1..n
    BY <1>3
  <2> HIDE DEF a, b
  <2>3. a + 1 \in Int /\ b \in Int /\ \A i \in (a + 1)..b : s[i] \in V
    BY <1>1, <2>2
  <2>4. /\ t \in Seq(V) /\ Len(t) = (IF a + 1 <= b THEN b - (a + 1) + 1 ELSE 0)
        /\ \A j \in 1..(b - (a + 1) + 1) : t[j] = s[(a + 1) + j - 1]
    BY <2>3, SubSeqProperties
  <2> HIDE DEF t
  <2>5. b - (a + 1) + 1 = b - a /\ a + 1 <= b /\ \A j \in 1..(b - a) : (a + 1) + j - 1 = a + j
    BY <2>2
  <2> QED
    BY <2>1, <2>4, <2>5 DEF a, b
<1>5. ASSUME NEW g \in 1..k
      PROVE  /\ Len(groups[g]) = IF n * g < l THEN n ELSE l - (n * (g - 1))
             /\ Len(groups[g]) \in 1..n /\ (g < k => Len(groups[g]) = n)
  <2>1. /\ Len(groups[g]) = end(g) - (n * (g - 1)) /\ end(g) - (n * (g - 1)) \in 1..n
        /\ g < k => n * g < l
    BY <1>3, <1>4
  <2>2. (n * g) - (n * (g - 1)) = n
    <3>1. CASE n = 3
      BY <3>1
    <3>2. CASE n = 4
      BY <3>2
    <3> QED
      BY <3>1, <3>2
  <2> QED
    BY <2>1, <2>2
<1>6. groups = [g \in 1..k |-> groups[g]]
  BY <1>2
<1>7. IsSequence(groups) /\ Len(groups) = k /\ DOMAIN groups = 1..k
  BY <1>1, <1>6, FunctionIsSequence
<1>8. groups \in Seq(Seq(V))
  <2>1. groups \in [1..k -> Seq(V)]
    BY <1>4, <1>6
  <2> QED
    BY <1>1, <2>1, IsASeq
<1>9. Even(groups, n, V)
  BY <1>5, <1>7, <1>8 DEF Even
<1> QED
  BY <1>4, <1>5, <1>7, <1>9 DEF groups, k, l, Cut

LEMMA FlatOfGroups ==
  ASSUME NEW V, NEW s \in Seq(V), NEW n \in {3, 4}
  PROVE  FlattenSeq(GroupsOf(s, n)) = s
<1> DEFINE l == Len(s)
           k == (l + n - 1) \div n
           groups == GroupsOf(s, n)
           flat == FlattenSeq(groups)
<1>1. /\ Even(groups, n, V) /\ Len(groups) = k
      /\ \A g \in 1..k : /\ Len(groups[g]) = IF n * g < l THEN n ELSE l - (n * (g - 1))
                         /\ \A j \in 1..Len(groups[g]) : groups[g][j] = s[(n * (g - 1)) + j]
  <2>1. Cut(groups, s, n, V)
    BY GroupsShape
  <2> HIDE DEF groups
  <2> QED
    BY <2>1 DEF Cut
<1>2. /\ flat \in Seq(V)
      /\ Len(groups) = 0 => Len(flat) = 0
      /\ Len(groups) > 0 => Len(flat) = (n * (Len(groups) - 1)) + Len(groups[Len(groups)])
      /\ \A g \in 1..Len(groups) : \A j \in 1..Len(groups[g]) :
           flat[(n * (g - 1)) + j] = groups[g][j]
  <2>1. Laid(groups, flat, n, V)
    BY <1>1, FlattenGroups
  <2> HIDE DEF groups, flat
  <2> QED
    BY <2>1 DEF Laid
<1>3. /\ l \in Nat /\ k \in Nat /\ (l = 0 => k = 0) /\ (l > 0 => k > 0)
      /\ l > 0 => n * (k - 1) < l /\ l <= n * k
  BY GroupCount
<1> HIDE DEF l, k, groups, flat
<1>4. Len(flat) = l
  <2>1. CASE l = 0
    BY <1>1, <1>2, <1>3, <2>1
  <2>2. CASE l > 0
    <3>1. k \in 1..k /\ k > 0 /\ ~(n * k < l) /\ n * (k - 1) \in Nat
      <4>1. k \in 1..k /\ k > 0
        BY <1>3, <2>2
      <4>2. CASE n = 3
        BY <1>3, <2>2, <4>1, <4>2
      <4>3. CASE n = 4
        BY <1>3, <2>2, <4>1, <4>3
      <4> QED
        BY <4>2, <4>3
    <3>2. Len(groups[k]) = l - (n * (k - 1))
      BY <1>1, <3>1
    <3>3. Len(flat) = (n * (k - 1)) + Len(groups[k])
      BY <1>1, <1>2, <3>1
    <3> QED
      BY <1>3, <3>1, <3>2, <3>3
  <2> QED
    BY <1>3, <2>1, <2>2
<1>5. ASSUME NEW p \in 1..l PROVE flat[p] = s[p]
  <2>1. p \in Nat /\ p > 0 /\ p <= l /\ l > 0
    BY <1>3
  <2>2. PICK g \in Nat, j \in 1..n : g > 0 /\ p = (n * (g - 1)) + j
    BY <2>1, Places
  <2>3. g \in 1..k
    <3>1. CASE n = 3
      BY <1>3, <2>1, <2>2, <3>1
    <3>2. CASE n = 4
      BY <1>3, <2>1, <2>2, <3>2
    <3> QED
      BY <3>1, <3>2
  <2>4. j \in 1..Len(groups[g])
    <3>1. Len(groups[g]) = IF n * g < l THEN n ELSE l - (n * (g - 1))
      BY <1>1, <2>3
    <3>2. CASE n * g < l
      BY <3>1, <3>2
    <3>3. CASE ~(n * g < l)
      <4> DEFINE a == n * (g - 1)
      <4>1. a \in Nat /\ p = a + j
        BY <2>2
      <4> HIDE DEF a
      <4>2. j \in 1..(l - a)
        BY <1>3, <2>1, <2>2, <4>1
      <4> QED
        BY <3>1, <3>3, <4>2 DEF a
    <3> QED
      BY <3>2, <3>3
  <2> QED
    BY <1>1, <1>2, <2>2, <2>3, <2>4
<1>6. IsSequence(flat) /\ IsSequence(s)
  BY <1>2, SequenceOver
<1>7. flat = s
  BY <1>4, <1>5, <1>6, SameElements DEF l
<1> QED
  BY <1>7 DEF flat, groups

LEMMA GroupsOfFlat ==
  ASSUME NEW V, NEW n \in {3, 4}, NEW groups, Even(groups, n, V)
  PROVE  GroupsOf(FlattenSeq(groups), n) = groups
<1> DEFINE s == FlattenSeq(groups)
           again == GroupsOf(s, n)
           k == Len(groups)
<1>1. /\ groups \in Seq(Seq(V)) /\ k \in Nat /\ IsSequence(groups)
      /\ \A g \in 1..k : /\ groups[g] \in Seq(V) /\ Len(groups[g]) \in 1..n
                         /\ g < k => Len(groups[g]) = n
  BY SequenceOver DEF Even
<1>2. /\ s \in Seq(V)
      /\ k = 0 => Len(s) = 0
      /\ k > 0 => Len(s) = (n * (k - 1)) + Len(groups[k])
      /\ \A g \in 1..k : \A j \in 1..Len(groups[g]) : s[(n * (g - 1)) + j] = groups[g][j]
  <2>1. Laid(groups, s, n, V)
    BY FlattenGroups
  <2> HIDE DEF s
  <2> QED
    BY <2>1 DEF Laid
<1> DEFINE l == Len(s)
<1>3. l \in Nat
  BY <1>2
<1> HIDE DEF s
<1>4. /\ Even(again, n, V) /\ Len(again) = (l + n - 1) \div n
      /\ \A g \in 1..((l + n - 1) \div n) :
           /\ Len(again[g]) = IF n * g < l THEN n ELSE l - (n * (g - 1))
           /\ \A j \in 1..Len(again[g]) : again[g][j] = s[(n * (g - 1)) + j]
  <2>1. Cut(again, s, n, V)
    BY <1>2, GroupsShape
  <2> HIDE DEF again
  <2> QED
    BY <2>1 DEF Cut
<1>5. again \in Seq(Seq(V)) /\ IsSequence(again)
  BY <1>4, SequenceOver DEF Even
<1> HIDE DEF again, k, l
<1>6. (l + n - 1) \div n = k
  <2>1. CASE k = 0
    BY <1>1, <1>2, <1>3, <2>1, GroupCount DEF l
  <2>2. CASE k > 0
    <3>1. k \in 1..k /\ Len(groups[k]) \in 1..n
      BY <1>1, <2>2
    <3>2. l = (n * (k - 1)) + Len(groups[k])
      BY <1>2, <2>2 DEF l
    <3> QED
      BY <1>1, <2>2, <3>1, <3>2, CountIs
  <2> QED
    BY <1>1, <2>1, <2>2
<1>7. ASSUME NEW g \in 1..k PROVE again[g] = groups[g]
  <2>1. /\ again[g] \in Seq(V) /\ groups[g] \in Seq(V) /\ Len(groups[g]) \in 1..n
        /\ Len(again[g]) = IF n * g < l THEN n ELSE l - (n * (g - 1))
    BY <1>1, <1>4, <1>5, <1>6
  <2>2. Len(again[g]) = Len(groups[g])
    <3> DEFINE last == Len(groups[k])
    <3>1. k > 0 /\ k \in 1..k /\ last \in 1..n
      BY <1>1
    <3>2. l = (n * (k - 1)) + last
      BY <1>2, <3>1 DEF l
    <3> HIDE DEF last
    <3>3. CASE g = k
      <4>1. ~(n * g < l) \/ last = n
        <5>1. CASE n = 3
          BY <1>1, <3>1, <3>2, <3>3, <5>1
        <5>2. CASE n = 4
          BY <1>1, <3>1, <3>2, <3>3, <5>2
        <5> QED
          BY <5>1, <5>2
      <4>2. n * (k - 1) \in Nat /\ ((n * (k - 1)) + last) - (n * (k - 1)) = last
        BY <1>1, <3>1
      <4>3. l - (n * (g - 1)) = last
        BY <3>2, <3>3, <4>2
      <4> QED
        BY <2>1, <3>3, <4>1, <4>3 DEF last
    <3>4. CASE g # k
      <4>1. g < k /\ k - g - 1 \in Nat /\ g \in Nat
        BY <1>1, <3>4
      <4>2. Len(groups[g]) = n
        BY <1>1, <4>1
      <4>3. n * g < l
        <5>1. CASE n = 3
          BY <1>1, <3>1, <3>2, <4>1, <5>1
        <5>2. CASE n = 4
          BY <1>1, <3>1, <3>2, <4>1, <5>2
        <5> QED
          BY <5>1, <5>2
      <4> QED
        BY <2>1, <4>2, <4>3
    <3> QED
      BY <3>3, <3>4
  <2>3. \A j \in 1..Len(groups[g]) : again[g][j] = groups[g][j]
    BY <1>2, <1>4, <1>6, <2>2
  <2>4. IsSequence(again[g]) /\ IsSequence(groups[g])
    BY <2>1, SequenceOver
  <2> QED
    BY <2>2, <2>3, <2>4, SameElements
<1>8. again = groups
  <2>1. Len(again) = k
    BY <1>4, <1>6
  <2> QED
    BY <1>1, <1>5, <1>7, <2>1, SameElements DEF k
<1> QED
  BY <1>8 DEF again, s

-------------------------------------------------------------------------------
(* Part 7: bytes in characters.                                            *)

Encoded(bytes) ==
  LET groups == GroupsOf(bytes, 3)
  IN FlattenSeq([g \in DOMAIN groups |-> EncodeGroup(groups[g])])

Decoded(chars) ==
  LET groups == GroupsOf(chars, 4)
  IN FlattenSeq([g \in DOMAIN groups |-> DecodeGroup(groups[g])])

LEMMA EachOf ==
  ASSUME NEW k \in Nat, NEW V, NEW op, op = [g \in 1..k |-> op[g]],
         \A g \in 1..k : op[g] \in Seq(V)
  PROVE  op \in Seq(Seq(V)) /\ Len(op) = k /\ DOMAIN op = 1..k /\ IsSequence(op)
<1>1. IsSequence(op) /\ Len(op) = k
  BY FunctionIsSequence
<1>2. op \in [1..k -> Seq(V)] /\ DOMAIN op = 1..k
  OBVIOUS
<1> QED
  BY <1>1, <1>2, IsASeq

LEMMA EvenIs ==
  ASSUME NEW n, NEW V, NEW groups, Even(groups, n, V)
  PROVE  /\ groups \in Seq(Seq(V)) /\ IsSequence(groups)
         /\ Len(groups) \in Nat /\ DOMAIN groups = 1..Len(groups)
         /\ \A g \in 1..Len(groups) :
              /\ groups[g] \in Seq(V) /\ IsSequence(groups[g])
              /\ Len(groups[g]) \in 1..n /\ (g < Len(groups) => Len(groups[g]) = n)
<1>1. groups \in Seq(Seq(V)) /\ Len(groups) \in Nat /\ DOMAIN groups = 1..Len(groups)
  BY LenProperties DEF Even
<1>2. \A g \in 1..Len(groups) : groups[g] \in Seq(V)
  BY <1>1, ElementOfSeq
<1> QED
  BY <1>1, <1>2, SequenceOver DEF Even

LEMMA BodyBack ==
  ASSUME NEW bytes \in Seq(Octets)
  PROVE  /\ Encoded(bytes) \in Seq(Chars) /\ Len(Encoded(bytes)) % 4 # 1
         /\ Decoded(Encoded(bytes)) = bytes
<1> DEFINE groups  == GroupsOf(bytes, 3)
           k       == Len(groups)
           written == [g \in DOMAIN groups |-> EncodeGroup(groups[g])]
           text    == FlattenSeq(written)
           read    == [g \in DOMAIN written |-> DecodeGroup(written[g])]
<1>1. Even(groups, 3, Octets) /\ FlattenSeq(groups) = bytes
  BY GroupsShape, FlatOfGroups DEF Cut
<1> HIDE DEF groups
<1>2. /\ k \in Nat /\ DOMAIN groups = 1..k /\ IsSequence(groups)
      /\ \A g \in 1..k : /\ groups[g] \in Seq(Octets) /\ Len(groups[g]) \in 1..3
                         /\ g < k => Len(groups[g]) = 3
  BY <1>1, EvenIs
<1> HIDE DEF k
<1>3. ASSUME NEW g \in 1..k
      PROVE  /\ written[g] \in Seq(Chars) /\ Len(written[g]) = Len(groups[g]) + 1
             /\ DecodeGroup(written[g]) = groups[g]
  BY <1>2, GroupBack
<1>4. /\ written \in Seq(Seq(Chars)) /\ Len(written) = k /\ DOMAIN written = 1..k
  <2>1. written = [g \in 1..k |-> written[g]]
    BY <1>2
  <2> HIDE DEF written
  <2> QED
    BY <1>2, <1>3, <2>1, EachOf
<1> HIDE DEF written
<1>5. ASSUME NEW g \in 1..k
      PROVE  Len(written[g]) \in 2..4 /\ (g < k => Len(written[g]) = 4)
  <2> DEFINE m == Len(groups[g])
  <2>1. m \in 1..3 /\ (g < k => m = 3) /\ Len(written[g]) = m + 1
    BY <1>2, <1>3
  <2> HIDE DEF m
  <2> QED
    BY <2>1
<1>6. Even(written, 4, Chars)
  BY <1>4, <1>5 DEF Even
<1>7. Laid(written, text, 4, Chars) /\ GroupsOf(text, 4) = written
  BY <1>6, FlattenGroups, GroupsOfFlat
<1> HIDE DEF text
<1>8. text \in Seq(Chars) /\ Len(text) % 4 # 1
  <2>1. /\ text \in Seq(Chars) /\ (k = 0 => Len(text) = 0)
        /\ k > 0 => Len(text) = (4 * (k - 1)) + Len(written[k])
    BY <1>4, <1>7 DEF Laid
  <2>2. CASE k = 0
    BY <2>1, <2>2
  <2>3. CASE k > 0
    <3> DEFINE m == Len(written[k])
               j == k - 1
    <3>1. m \in 2..4 /\ j \in Nat
      BY <1>2, <1>5, <2>3
    <3>2. Len(text) = (4 * j) + m /\ text \in Seq(Chars)
      BY <2>1, <2>3
    <3> HIDE DEF m, j
    <3>3. ((4 * j) + m) % 4 # 1
      BY <3>1
    <3> QED
      BY <3>2, <3>3
  <2> QED
    BY <1>2, <2>1, <2>2, <2>3
<1>9. read = groups
  <2>1. read = [g \in 1..k |-> groups[g]]
    BY <1>3, <1>4
  <2>2. groups = [g \in 1..k |-> groups[g]]
    BY <1>2, SequenceShape DEF k
  <2> QED
    BY <2>1, <2>2
<1>10. Decoded(text) = bytes
  BY <1>1, <1>7, <1>9 DEF Decoded
<1>11. Encoded(bytes) = text
  BY DEF Encoded, text, written, groups
<1> QED
  BY <1>8, <1>10, <1>11

(* Equal but for what no byte uses of the last character.                  *)
AlmostSame(again, chars) ==
  /\ Len(again) = Len(chars)
  /\ \A i \in 1..(Len(chars) - 1) : again[i] = chars[i]
  /\ LET spare == SpareValues(Len(chars))
     IN Len(chars) > 0 => again[Len(chars)] \div spare = chars[Len(chars)] \div spare

LEMMA FullGroup ==
  ASSUME NEW x \in Chars, NEW y \in Chars, x \div SpareValues(4) = y \div SpareValues(4)
  PROVE  x = y
<1>1. SpareValues(4) = 1
  BY SizesExist, SpareIs
<1>2. CharSize \in Nat
  BY SizesExist DEF Sizes
<1> QED
  BY <1>1, <1>2 DEF Chars

LEMMA SpareOfLength ==
  ASSUME NEW m \in Nat, NEW n \in Nat, m % 4 = n % 4
  PROVE  SpareValues(m) = SpareValues(n)
BY DEF SpareValues

LEMMA BodyRead ==
  ASSUME NEW chars \in Seq(Chars), Len(chars) % 4 # 1
  PROVE  /\ Decoded(chars) \in Seq(Octets)
         /\ AlmostSame(Encoded(Decoded(chars)), chars)
         /\ Encoded(Decoded(chars)) \in Seq(Chars)
<1> DEFINE groups == GroupsOf(chars, 4)
           k      == Len(groups)
           l      == Len(chars)
           read   == [g \in DOMAIN groups |-> DecodeGroup(groups[g])]
           bytes  == FlattenSeq(read)
           again  == [g \in DOMAIN read |-> EncodeGroup(read[g])]
           text   == FlattenSeq(again)
<1>1. /\ Even(groups, 4, Chars) /\ FlattenSeq(groups) = chars
      /\ Laid(groups, chars, 4, Chars)
  <2>1. Even(groups, 4, Chars) /\ FlattenSeq(groups) = chars
    BY GroupsShape, FlatOfGroups DEF Cut
  <2>2. Laid(groups, FlattenSeq(groups), 4, Chars)
    BY <2>1, FlattenGroups
  <2> QED
    BY <2>1, <2>2
<1> HIDE DEF groups
<1>2. /\ k \in Nat /\ DOMAIN groups = 1..k /\ IsSequence(groups)
      /\ \A g \in 1..k : /\ groups[g] \in Seq(Chars) /\ Len(groups[g]) \in 1..4
                         /\ g < k => Len(groups[g]) = 4
  BY <1>1, EvenIs
<1>3. /\ l \in Nat /\ (k = 0 => l = 0)
      /\ k > 0 => l = (4 * (k - 1)) + Len(groups[k])
      /\ \A g \in 1..k : \A j \in 1..Len(groups[g]) : chars[(4 * (g - 1)) + j] = groups[g][j]
  BY <1>1, LenProperties DEF Laid
<1>4. ASSUME NEW g \in 1..k
      PROVE  Len(groups[g]) \in 2..4 /\ (g = k => l % 4 = Len(groups[g]) % 4)
  <2> DEFINE m == Len(groups[g])
             j == g - 1
  <2>1. m \in 1..4 /\ (g < k => m = 4)
    BY <1>2
  <2>2. k \in Nat
    BY <1>2
  <2> HIDE DEF m
  <2>3. CASE g = k
    <3>1. l = (4 * j) + m
      <4>1. k > 0 => l = (4 * (k - 1)) + Len(groups[k])
        BY <1>3
      <4> HIDE DEF k, l
      <4>2. k > 0
        BY <2>2
      <4> QED
        BY <2>3, <4>1, <4>2 DEF m
    <3>2. l % 4 # 1
      OBVIOUS
    <3> HIDE DEF k, l
    <3>3. j \in Nat
      BY <2>2
    <3> HIDE DEF j
    <3>4. ((4 * j) + m) % 4 = m % 4 /\ (m = 1 => m % 4 = 1)
      BY <2>1, <3>3
    <3>5. m \in 2..4 /\ l % 4 = m % 4
      BY <2>1, <3>1, <3>2, <3>4
    <3> QED
      BY <3>5 DEF m
  <2>4. CASE g # k
    <3> HIDE DEF k, l
    <3>1. g < k
      BY <2>2, <2>4
    <3>2. m = 4
      BY <2>1, <3>1
    <3> QED
      BY <2>4, <3>2 DEF m
  <2> QED
    BY <2>3, <2>4
<1> HIDE DEF k, l
<1>5. ASSUME NEW g \in 1..k
      PROVE  LET part == EncodeGroup(read[g])
                 n    == Len(groups[g])
             IN /\ read[g] \in Seq(Octets) /\ Len(read[g]) = n - 1
                /\ part \in Seq(Chars) /\ Len(part) = n
                /\ \A i \in 1..(n - 1) : part[i] = groups[g][i]
                /\ \A m \in Nat : m % 4 = n % 4 =>
                     part[n] \div SpareValues(m) = groups[g][n] \div SpareValues(m)
  <2>1. read[g] = DecodeGroup(groups[g])
    BY <1>2
  <2>2. groups[g] \in Seq(Chars) /\ Len(groups[g]) \in 2..4
    BY <1>2, <1>4
  <2> HIDE DEF read
  <2> DEFINE x == groups[g]
  <2>3. x \in Seq(Chars) /\ Len(x) \in 2..4
    BY <2>2
  <2> HIDE DEF x
  <2>4. LET bytesOf == DecodeGroup(x)
            part    == EncodeGroup(bytesOf)
            n       == Len(x)
        IN /\ bytesOf \in Seq(Octets) /\ Len(bytesOf) = n - 1
           /\ part \in Seq(Chars) /\ Len(part) = n
           /\ \A i \in 1..(n - 1) : part[i] = x[i]
           /\ \A m \in Nat : m % 4 = n % 4 =>
                part[n] \div SpareValues(m) = x[n] \div SpareValues(m)
    BY <2>3, GroupRead
  <2> QED
    BY <2>1, <2>4 DEF x
<1>6. read \in Seq(Seq(Octets)) /\ Len(read) = k /\ DOMAIN read = 1..k
  <2>1. read = [g \in 1..k |-> read[g]]
    BY <1>2
  <2> HIDE DEF read
  <2> QED
    BY <1>2, <1>5, <2>1, EachOf
<1> HIDE DEF read
<1>7. ASSUME NEW g \in 1..k
      PROVE  Len(read[g]) \in 1..3 /\ (g < k => Len(read[g]) = 3)
  <2> DEFINE m == Len(groups[g])
  <2>1. m \in 2..4 /\ (g < k => m = 4) /\ Len(read[g]) = m - 1
    BY <1>2, <1>4, <1>5
  <2> HIDE DEF m
  <2> QED
    BY <2>1
<1>8. Even(read, 3, Octets)
  BY <1>6, <1>7 DEF Even
<1>9. bytes \in Seq(Octets) /\ GroupsOf(bytes, 3) = read
  BY <1>8, FlattenGroups, GroupsOfFlat DEF Laid
<1> HIDE DEF bytes
<1>10. again \in Seq(Seq(Chars)) /\ Len(again) = k /\ DOMAIN again = 1..k
  <2>1. again = [g \in 1..k |-> again[g]] /\ \A g \in 1..k : again[g] = EncodeGroup(read[g])
    BY <1>6
  <2> HIDE DEF again
  <2> QED
    BY <1>2, <1>5, <2>1, EachOf
<1>11. ASSUME NEW g \in 1..k
       PROVE  /\ again[g] \in Seq(Chars) /\ Len(again[g]) = Len(groups[g])
              /\ \A i \in 1..(Len(groups[g]) - 1) : again[g][i] = groups[g][i]
              /\ \A m \in Nat : m % 4 = Len(groups[g]) % 4 =>
                   again[g][Len(groups[g])] \div SpareValues(m)
                     = groups[g][Len(groups[g])] \div SpareValues(m)
  <2>1. again[g] = EncodeGroup(read[g])
    BY <1>6
  <2> HIDE DEF again
  <2> QED
    BY <1>5, <2>1
<1> HIDE DEF again
<1>12. Even(again, 4, Chars)
  BY <1>2, <1>10, <1>11 DEF Even
<1>13. Laid(again, text, 4, Chars)
  BY <1>12, FlattenGroups
<1> HIDE DEF text
<1>14. /\ text \in Seq(Chars) /\ Len(text) = l
       /\ \A g \in 1..k : \A j \in 1..Len(groups[g]) : text[(4 * (g - 1)) + j] = again[g][j]
  <2>1. /\ text \in Seq(Chars) /\ (k = 0 => Len(text) = 0)
        /\ k > 0 => Len(text) = (4 * (k - 1)) + Len(again[k])
        /\ \A g \in 1..k : \A j \in 1..Len(again[g]) : text[(4 * (g - 1)) + j] = again[g][j]
    BY <1>10, <1>13 DEF Laid
  <2>2. k > 0 => Len(again[k]) = Len(groups[k])
    BY <1>2, <1>11
  <2>3. k = 0 \/ k > 0
    BY <1>2 DEF k
  <2>4. Len(text) = l
    BY <1>3, <2>1, <2>2, <2>3 DEF k, l
  <2> QED
    BY <1>11, <2>1, <2>4
<1>15. ASSUME NEW p \in 1..l
       PROVE  /\ p < l => text[p] = chars[p]
              /\ p = l => text[p] \div SpareValues(l) = chars[p] \div SpareValues(l)
  <2>1. p \in Nat /\ p > 0 /\ p <= l /\ l > 0
    BY <1>3 DEF l
  <2>2. PICK g \in Nat, j \in 1..4 : g > 0 /\ p = (4 * (g - 1)) + j
    BY <2>1, Places
  <2>3. k > 0 /\ k \in 1..k /\ Len(groups[k]) \in 2..4 /\ l = (4 * (k - 1)) + Len(groups[k])
    <3>1. k \in Nat /\ k # 0
      BY <1>2, <1>3, <2>1 DEF k, l
    <3>2. k > 0 /\ k \in 1..k
      BY <3>1
    <3>3. l = (4 * (k - 1)) + Len(groups[k])
      BY <1>3, <3>2 DEF k, l
    <3> QED
      BY <1>4, <3>2, <3>3
  <2>4. g \in 1..k /\ (g < k => p < l) /\ (g = k => j <= Len(groups[g]) /\ (p = l <=> j = Len(groups[g])))
    <3> DEFINE m == Len(groups[k])
    <3>1. m \in 2..4 /\ l = (4 * (k - 1)) + m /\ k \in Nat
      BY <1>2, <2>3 DEF k
    <3> HIDE DEF m
    <3>2. /\ g \in 1..k /\ (g < k => p < l)
          /\ g = k => j <= m /\ (p = l <=> j = m)
      BY <2>1, <2>2, <3>1
    <3> QED
      BY <3>2 DEF m
  <2>5. Len(groups[g]) \in 2..4 /\ (g < k => Len(groups[g]) = 4) /\ j \in 1..Len(groups[g])
    <3> DEFINE m == Len(groups[g])
    <3>1. m \in 2..4 /\ (g < k => m = 4) /\ k \in Nat /\ (g = k => j <= m)
      BY <1>2, <1>4, <2>4 DEF k
    <3> HIDE DEF m
    <3>2. j \in 1..m
      BY <2>2, <2>4, <3>1
    <3> QED
      BY <3>1, <3>2 DEF m
  <2>6. text[p] = again[g][j] /\ chars[p] = groups[g][j]
    BY <1>3, <1>14, <2>2, <2>4, <2>5 DEF k
  <2>7. CASE j # Len(groups[g])
    <3>1. j \in 1..(Len(groups[g]) - 1)
      BY <2>5, <2>7
    <3> QED
      BY <1>11, <2>4, <2>6, <3>1
  <2>8. CASE j = Len(groups[g])
    <3>1. \A m \in Nat : m % 4 = j % 4 =>
            again[g][j] \div SpareValues(m) = groups[g][j] \div SpareValues(m)
      BY <1>11, <2>4, <2>8
    <3>2. CASE g < k
      <4>1. j = 4
        BY <2>5, <2>8, <3>2
      <4>2. again[g][j] \div SpareValues(4) = groups[g][j] \div SpareValues(4)
        BY <3>1, <4>1
      <4>3. again[g][j] \in Chars /\ groups[g][j] \in Chars
        BY <1>2, <1>11, <2>4, <2>5, ElementOfSeq DEF k
      <4>4. again[g][j] = groups[g][j]
        BY <4>2, <4>3, FullGroup
      <4> QED
        BY <2>4, <2>6, <3>2, <4>4
    <3>3. CASE g = k
      <4>1. p = l /\ l % 4 = j % 4 /\ l \in Nat
        BY <1>4, <2>1, <2>4, <2>8, <3>3 DEF l
      <4> QED
        BY <2>6, <3>1, <4>1
    <3>4. g < k \/ g = k
      <4>1. k \in Nat
        BY <1>2 DEF k
      <4> QED
        BY <2>4, <4>1
    <3> QED
      BY <3>2, <3>3, <3>4
  <2> QED
    BY <2>7, <2>8
<1>16. AlmostSame(text, chars)
  <2>1. \A i \in 1..(l - 1) : i \in 1..l /\ i < l
    BY <1>3 DEF l
  <2>2. l > 0 => l \in 1..l
    BY <1>3 DEF l
  <2> QED
    BY <1>14, <1>15, <2>1, <2>2 DEF AlmostSame, l
<1>17. Decoded(chars) = bytes
  BY DEF Decoded, bytes, read, groups
<1>18. Encoded(bytes) = text
  BY <1>9 DEF Encoded, text, again
<1> QED
  BY <1>9, <1>14, <1>16, <1>17, <1>18

-------------------------------------------------------------------------------
(* Part 8: what is left of a text without its whitespace.                  *)

Marks(text) == [i \in DOMAIN text |-> IF IsSpace(text[i]) THEN << >> ELSE <<text[i]>>]

LEMMA GrowSequences ==
  ASSUME NEW V, NEW T, << >> \in T, \A s \in Seq(V), x \in V : s \in T => Append(s, x) \in T
  PROVE  Seq(V) \subseteq T
<1> DEFINE S == {n \in Nat : \A s \in Seq(V) : Len(s) = n => s \in T}
<1>1. 0 \in S
  <2>1. \A s \in Seq(V) : Len(s) = 0 => s = << >>
    OBVIOUS
  <2> QED
    BY <2>1
<1>2. ASSUME NEW n \in Nat, n \in S PROVE n + 1 \in S
  <2> SUFFICES ASSUME NEW s \in Seq(V), Len(s) = n + 1 PROVE s \in T
    OBVIOUS
  <2> DEFINE less == SubSeq(s, 1, n)
  <2>1. less \in Seq(V) /\ Len(less) = n /\ s[n + 1] \in V
    <3>1. IsSequence(s) /\ n \in 0..Len(s) /\ n + 1 \in 1..Len(s)
      BY SequenceOver
    <3>2. IsSequence(less) /\ Len(less) = n /\ \A i \in 1..n : less[i] = s[i]
      BY <3>1, PrefixShape
    <3>3. less \in Seq(V)
      BY <3>1
    <3> QED
      BY <3>1, <3>2, <3>3, ElementOfSeq
  <2>2. s = Append(less, s[n + 1])
    <3>1. SubSeq(s, 1, n + 1) = Append(SubSeq(s, 1, (n + 1) - 1), s[n + 1])
      <4>1. n + 1 \in 1..Len(s)
        OBVIOUS
      <4> QED
        BY <4>1, PrefixAppends
    <3>2. SubSeq(s, 1, n + 1) = s /\ (n + 1) - 1 = n
      OBVIOUS
    <3> QED
      BY <3>1, <3>2
  <2>3. less \in T
    BY <1>2, <2>1
  <2> HIDE DEF less
  <2> QED
    BY <2>1, <2>2, <2>3
<1>3. Nat \subseteq S
  <2> HIDE DEF S
  <2> QED
    BY <1>1, <1>2, Induct
<1> QED
  BY <1>3

LEMMA WiderSequences ==
  ASSUME NEW V, NEW W, W \subseteq V, NEW s \in Seq(W)
  PROVE  s \in Seq(V)
BY SequenceOver, SequenceIn

LEMMA ElementsIn ==
  ASSUME NEW V, NEW W, NEW s \in Seq(V), \A i \in 1..Len(s) : s[i] \in W
  PROVE  s \in Seq(W)
<1>1. IsSequence(s)
  BY SequenceOver
<1>2. Range(s) \subseteq W
  BY <1>1, SequenceShape
<1> QED
  BY <1>1, <1>2, SequenceIn

LEMMA MarksShape ==
  ASSUME NEW V, NEW text \in Seq(V)
  PROVE  /\ Marks(text) \in Seq(Seq(V \ {Space}))
         /\ Inked(text) = FlattenSeq(Marks(text))
<1>1. Len(text) \in Nat /\ DOMAIN text = 1..Len(text)
  BY LenProperties
<1>2. ASSUME NEW i \in 1..Len(text) PROVE Marks(text)[i] \in Seq(V \ {Space})
  <2>1. /\ text[i] \in V
        /\ Marks(text)[i] = IF text[i] = Space THEN << >> ELSE <<text[i]>>
    BY <1>1, ElementOfSeq DEF Marks, IsSpace
  <2>2. \A x \in V \ {Space} : <<x>> \in Seq(V \ {Space})
    OBVIOUS
  <2>3. << >> \in Seq(V \ {Space})
    OBVIOUS
  <2> QED
    BY <2>1, <2>2, <2>3
<1>3. Marks(text) = [i \in 1..Len(text) |-> Marks(text)[i]]
  BY <1>1 DEF Marks
<1>4. Marks(text) \in Seq(Seq(V \ {Space}))
  BY <1>1, <1>2, <1>3, EachOf
<1> QED
  BY <1>4 DEF Inked, Marks

LEMMA InkedIn ==
  ASSUME NEW V, NEW text \in Seq(V)
  PROVE  Inked(text) \in Seq(V \ {Space})
<1>1. Marks(text) \in Seq(Seq(V \ {Space})) /\ << >> \in Seq(V \ {Space})
  BY MarksShape
<1>2. FlattenSeq(Marks(text)) \in Seq(V \ {Space})
  BY <1>1, FlattenAppend
<1> QED
  BY <1>2, MarksShape

LEMMA InkedNothing == Inked(<< >>) = << >>
<1>1. << >> \in Seq({})
  OBVIOUS
<1>2. Inked(<< >>) \in Seq({} \ {Space})
  BY <1>1, InkedIn
<1> QED
  BY <1>2

LEMMA InkedAppend ==
  ASSUME NEW V, NEW text \in Seq(V), NEW x \in V
  PROVE  Inked(Append(text, x))
           = IF x = Space THEN Inked(text) ELSE Append(Inked(text), x)
<1> DEFINE mark == IF IsSpace(x) THEN << >> ELSE <<x>>
<1>1. /\ Marks(text) \in Seq(Seq(V \ {Space})) /\ mark \in Seq(V \ {Space})
      /\ Inked(text) = FlattenSeq(Marks(text)) /\ Inked(text) \in Seq(V \ {Space})
  <2>1. << >> \in Seq(V \ {Space}) /\ (x \in V \ {Space} => <<x>> \in Seq(V \ {Space}))
    OBVIOUS
  <2>2. mark \in Seq(V \ {Space})
    BY <2>1 DEF IsSpace
  <2> QED
    BY <2>2, MarksShape, InkedIn
<1>2. Append(text, x) \in Seq(V) /\ Inked(Append(text, x)) = FlattenSeq(Marks(Append(text, x)))
  <2>1. Append(text, x) \in Seq(V)
    OBVIOUS
  <2> QED
    BY <2>1, MarksShape
<1>3. Marks(Append(text, x)) = Append(Marks(text), mark)
  BY DEF Marks
<1>4. Inked(Append(text, x)) = Inked(text) \o mark
  BY <1>1, <1>2, <1>3, FlattenAppend
<1>5. CASE x = Space
  BY <1>1, <1>4, <1>5 DEF IsSpace
<1>6. CASE x # Space
  <2>1. mark = <<x>> /\ x \in V \ {Space}
    BY <1>6 DEF IsSpace
  <2> HIDE DEF mark
  <2>2. Inked(text) \o <<x>> = Append(Inked(text), x)
    BY <1>1, <2>1
  <2> QED
    BY <1>4, <1>6, <2>1, <2>2
<1> QED
  BY <1>5, <1>6

LEMMA InkedConcat ==
  ASSUME NEW V, NEW a \in Seq(V), NEW b \in Seq(V)
  PROVE  Inked(a \o b) = Inked(a) \o Inked(b)
<1> DEFINE T == {s \in Seq(V) : Inked(a \o s) = Inked(a) \o Inked(s)}
<1>1. << >> \in T
  <2>1. a \o << >> = a /\ Inked(a) \in Seq(V \ {Space})
    BY InkedIn
  <2>2. Inked(a) \o << >> = Inked(a)
    BY <2>1
  <2> QED
    BY <2>1, <2>2, InkedNothing
<1>2. ASSUME NEW s \in Seq(V), NEW x \in V, s \in T PROVE Append(s, x) \in T
  <2>1. a \o s \in Seq(V) /\ Append(s, x) \in Seq(V) /\ a \o Append(s, x) = Append(a \o s, x)
    OBVIOUS
  <2>2. /\ Inked(a \o Append(s, x))
             = IF x = Space THEN Inked(a \o s) ELSE Append(Inked(a \o s), x)
        /\ Inked(Append(s, x)) = IF x = Space THEN Inked(s) ELSE Append(Inked(s), x)
    BY <2>1, InkedAppend
  <2>3. Inked(a) \in Seq(V) /\ Inked(s) \in Seq(V)
    BY InkedIn, WiderSequences
  <2>4. Inked(a) \o Append(Inked(s), x) = Append(Inked(a) \o Inked(s), x)
    BY <2>3
  <2>5. Inked(a \o s) = Inked(a) \o Inked(s)
    BY <1>2
  <2> QED
    BY <2>1, <2>2, <2>4, <2>5
<1>3. Seq(V) \subseteq T
  <2> HIDE DEF T
  <2> QED
    BY <1>1, <1>2, GrowSequences
<1> QED
  BY <1>3

LEMMA InkedOfInk ==
  ASSUME NEW V, Space \notin V, NEW text \in Seq(V)
  PROVE  Inked(text) = text
<1> DEFINE T == {s \in Seq(V) : Inked(s) = s}
<1>1. << >> \in T
  BY InkedNothing
<1>2. ASSUME NEW s \in Seq(V), NEW x \in V, s \in T PROVE Append(s, x) \in T
  <2>1. Append(s, x) \in Seq(V) /\ x # Space /\ Inked(s) = s
    BY <1>2
  <2> QED
    BY <2>1, InkedAppend
<1>3. Seq(V) \subseteq T
  <2> HIDE DEF T
  <2> QED
    BY <1>1, <1>2, GrowSequences
<1> QED
  BY <1>3

LEMMA InkedBlank ==
  ASSUME NEW text \in Seq({Space})
  PROVE  Inked(text) = << >>
<1>1. Inked(text) \in Seq({Space} \ {Space})
  BY InkedIn
<1> QED
  BY <1>1

-------------------------------------------------------------------------------
(* Part 9: whitespace at the ends, and the quotes around the whole.        *)

LEMMA Ends ==
  ASSUME NEW V, NEW s \in Seq(V), s # << >>
  PROVE  /\ Len(s) \in Nat /\ Len(s) > 0
         /\ Head(s) = s[1] /\ Head(s) \in V /\ Tail(s) \in Seq(V)
         /\ s = <<Head(s)>> \o Tail(s)
         /\ Last(s) = s[Len(s)] /\ Last(s) \in V
<1>1. Len(s) \in Nat /\ Len(s) > 0
  OBVIOUS
<1>2. Head(s) = s[1] /\ Head(s) \in V /\ Tail(s) \in Seq(V) /\ s = <<Head(s)>> \o Tail(s)
  OBVIOUS
<1>3. s[Len(s)] \in V
  BY <1>1, ElementOfSeq
<1> QED
  BY <1>1, <1>2, <1>3 DEF Last

Wrapped(a, s, b) == <<a>> \o s \o <<b>>

LEMMA WrapShape ==
  ASSUME NEW a, NEW b, NEW s, IsSequence(s)
  PROVE  /\ IsSequence(Wrapped(a, s, b)) /\ Len(Wrapped(a, s, b)) = Len(s) + 2
         /\ Wrapped(a, s, b)[1] = a /\ Wrapped(a, s, b)[Len(s) + 2] = b
         /\ \A i \in 1..Len(s) : Wrapped(a, s, b)[i + 1] = s[i]
<1> DEFINE h == <<a>> \o s
<1>1. IsSequence(<<a>>) /\ Len(<<a>>) = 1 /\ IsSequence(<<b>>) /\ Len(<<b>>) = 1
  BY SmallSequences
<1>2. Len(s) \in Nat
  BY SequenceShape
<1>3. /\ IsSequence(h) /\ Len(h) = 1 + Len(s) /\ h[1] = a
      /\ \A i \in 1..Len(s) : h[1 + i] = s[i]
  <2>1. 1 \in 1..Len(<<a>>) /\ <<a>>[1] = a
    BY <1>1
  <2> QED
    BY <1>1, <2>1, ConcatShape
<1> HIDE DEF h
<1>4. /\ IsSequence(h \o <<b>>) /\ Len(h \o <<b>>) = Len(h) + 1
      /\ \A i \in 1..Len(h) : (h \o <<b>>)[i] = h[i]
      /\ (h \o <<b>>)[Len(h) + 1] = b
  <2>1. 1 \in 1..Len(<<b>>) /\ <<b>>[1] = b
    BY <1>1
  <2> QED
    BY <1>1, <1>3, <2>1, ConcatShape
<1>5. Wrapped(a, s, b) = h \o <<b>>
  BY DEF Wrapped, h
<1> DEFINE n == Len(s)
<1>6. n \in Nat /\ Len(h) = 1 + n
  BY <1>2, <1>3
<1>7. \A i \in 1..n : h[i + 1] = s[i]
  <2>1. \A i \in 1..n : i + 1 = 1 + i
    BY <1>6
  <2> QED
    BY <1>3, <2>1
<1> HIDE DEF n
<1>8. 1 \in 1..(1 + n) /\ (1 + n) + 1 = n + 2 /\ \A i \in 1..n : i + 1 \in 1..(1 + n)
  BY <1>6
<1> QED
  BY <1>3, <1>4, <1>5, <1>6, <1>7, <1>8 DEF n

LEMMA WrapCancel ==
  ASSUME NEW a, NEW b, NEW s, IsSequence(s), NEW c, NEW d, NEW t, IsSequence(t),
         Wrapped(a, s, b) = Wrapped(c, t, d)
  PROVE  a = c /\ b = d /\ s = t
<1>1. Len(s) \in Nat /\ Len(t) \in Nat /\ Len(s) + 2 = Len(t) + 2
  BY WrapShape, SequenceShape
<1>2. Len(s) = Len(t)
  BY <1>1
<1>3. \A i \in 1..Len(s) : s[i] = t[i]
  BY <1>2, WrapShape
<1>4. s = t
  BY <1>2, <1>3, SameElements
<1> QED
  BY <1>2, <1>4, WrapShape

LEMMA Bounds ==
  ASSUME NEW n \in Nat, NEW I, I \subseteq 1..n, I # {}
  PROVE  /\ Min(I) \in I /\ Max(I) \in I
         /\ \A i \in I : Min(I) <= i /\ i <= Max(I)
<1>0. I \subseteq Nat /\ \A i \in I : n - i \in Nat
  OBVIOUS
<1>1. \E x \in I : \A y \in I : x <= y
  BY <1>0, Least
<1>2. \E x \in I : \A y \in I : x >= y
  <2> DEFINE T == {n - i : i \in I}
  <2>1. T \subseteq Nat /\ T # {}
    BY <1>0
  <2>2. PICK d \in T : \A e \in T : d <= e
    <3> HIDE DEF T
    <3> QED
      BY <2>1, Least
  <2>3. PICK x \in I : d = n - x
    BY <2>2
  <2>4. ASSUME NEW y \in I PROVE x >= y
    <3>1. n - x <= n - y
      BY <2>2, <2>3
    <3> QED
      BY <3>1
  <2> QED
    BY <2>4
<1> QED
  BY <1>1, <1>2 DEF Min, Max

LEMMA SlicesOf ==
  ASSUME NEW V, NEW s \in Seq(V), NEW a \in 1..Len(s), NEW b \in a..Len(s)
  PROVE  LET pre  == SubSeq(s, 1, a - 1)
             mid  == SubSeq(s, a, b)
             post == SubSeq(s, b + 1, Len(s))
         IN /\ pre \in Seq(V) /\ mid \in Seq(V) /\ post \in Seq(V)
            /\ s = pre \o mid \o post
            /\ Len(pre) = a - 1 /\ Len(mid) = (b - a) + 1 /\ Len(post) = Len(s) - b
            /\ \A i \in 1..(a - 1) : pre[i] = s[i]
            /\ \A i \in 1..((b - a) + 1) : mid[i] = s[(a + i) - 1]
            /\ \A i \in 1..(Len(s) - b) : post[i] = s[b + i]
<1>1. Len(s) \in Nat /\ a \in Nat /\ b \in Nat
  OBVIOUS
<1> DEFINE pre  == SubSeq(s, 1, a - 1)
           mid  == SubSeq(s, a, b)
           post == SubSeq(s, b + 1, Len(s))
           n    == Len(s)
<1>2. \A i \in 1..n : s[i] \in V
  BY ElementOfSeq
<1>3. /\ pre \in Seq(V) /\ Len(pre) = a - 1 /\ \A i \in 1..(a - 1) : pre[i] = s[i]
  OBVIOUS
<1>4. /\ mid \in Seq(V) /\ Len(mid) = (b - a) + 1
      /\ \A i \in 1..((b - a) + 1) : mid[i] = s[(a + i) - 1]
  OBVIOUS
<1>5. /\ post \in Seq(V) /\ Len(post) = n - b
      /\ \A i \in 1..(n - b) : post[i] = s[b + i]
  OBVIOUS
<1> HIDE DEF pre, mid, post
<1>6. s = pre \o mid \o post
  <2>1. pre \o mid \in Seq(V) /\ pre \o mid \o post \in Seq(V)
    BY <1>3, <1>4, <1>5
  <2>2. IsSequence(s) /\ IsSequence(pre \o mid) /\ IsSequence(pre \o mid \o post)
        /\ IsSequence(pre) /\ IsSequence(mid) /\ IsSequence(post)
    BY <1>3, <1>4, <1>5, <2>1, SequenceOver
  <2>3. Len(pre \o mid) = b
    <3>1. Len(pre \o mid) = (a - 1) + ((b - a) + 1)
      <4>1. Len(pre \o mid) = Len(pre) + Len(mid)
        BY <2>2, ConcatShape
      <4> QED
        BY <1>3, <1>4, <4>1
    <3>2. (a - 1) + ((b - a) + 1) = b
      BY <1>1
    <3> QED
      BY <3>1, <3>2
  <2>4. Len(pre \o mid \o post) = n
    <3>1. Len(pre \o mid \o post) = b + (n - b)
      BY <1>5, <2>2, <2>3, ConcatShape
    <3>2. b + (n - b) = n
      BY <1>1
    <3> QED
      BY <3>1, <3>2
  <2>5. ASSUME NEW i \in 1..n PROVE s[i] = (pre \o mid \o post)[i]
    <3>1. CASE i <= a - 1
      <4>1. i \in 1..Len(pre) /\ i \in 1..Len(pre \o mid) /\ i \in 1..(a - 1)
        BY <1>1, <1>3, <2>3, <3>1
      <4> QED
        BY <1>3, <2>2, <4>1, ConcatShape
    <3>2. CASE a <= i /\ i <= b
      <4> DEFINE j == (i - a) + 1
      <4>1. /\ j \in 1..((b - a) + 1) /\ (a + j) - 1 = i /\ (a - 1) + j = i
            /\ i \in 1..b
        BY <1>1, <3>2
      <4>2. (pre \o mid)[i] = mid[j]
        BY <1>3, <1>4, <2>2, <4>1, ConcatShape
      <4>3. (pre \o mid \o post)[i] = (pre \o mid)[i]
        BY <2>2, <2>3, <4>1, ConcatShape
      <4> QED
        BY <1>4, <4>1, <4>2, <4>3
    <3>3. CASE i > b
      <4> DEFINE j == i - b
      <4>1. j \in 1..(n - b) /\ b + j = i
        BY <1>1, <3>3
      <4>2. (pre \o mid \o post)[b + j] = post[j]
        BY <1>5, <2>2, <2>3, <4>1, ConcatShape
      <4> QED
        BY <1>5, <4>1, <4>2
    <3>4. i \in Int /\ a \in Int /\ b \in Int
      BY <1>1
    <3>5. i <= a - 1 \/ (a <= i /\ i <= b) \/ i > b
      BY <3>4
    <3> QED
      BY <3>1, <3>2, <3>3, <3>5
  <2> QED
    BY <2>2, <2>4, <2>5, SameElements
<1> QED
  BY <1>3, <1>4, <1>5, <1>6 DEF pre, mid, post

LEMMA TrimShape ==
  ASSUME NEW V, NEW text \in Seq(V)
  PROVE  LET trimmed == TrimWhitespace(text)
         IN /\ trimmed \in Seq(V) /\ Inked(trimmed) = Inked(text)
            /\ trimmed # << >> => Head(trimmed) # Space /\ Last(trimmed) # Space
<1> DEFINE I == {i \in DOMAIN text : ~IsSpace(text[i])}
           n == Len(text)
<1>1. n \in Nat /\ DOMAIN text = 1..n
  BY LenProperties
<1>2. \A i \in 1..n : text[i] = Space \/ i \in I
  BY <1>1 DEF IsSpace
<1>3. I \subseteq 1..n /\ \A i \in I : text[i] # Space
  BY <1>1 DEF IsSpace
<1>4. TrimWhitespace(text) = IF I = {} THEN << >> ELSE SubSeq(text, Min(I), Max(I))
  BY DEF TrimWhitespace
<1> HIDE DEF I
<1>5. CASE I = {}
  <2>1. \A i \in 1..n : text[i] \in {Space}
    BY <1>2, <1>5
  <2>2. text \in Seq({Space})
    BY <1>1, <2>1, ElementsIn
  <2>3. Inked(text) = << >> /\ << >> \in Seq(V)
    BY <2>2, InkedBlank
  <2> QED
    BY <1>4, <1>5, <2>3, InkedNothing
<1>6. CASE I # {}
  <2> DEFINE a    == Min(I)
             b    == Max(I)
             pre  == SubSeq(text, 1, a - 1)
             mid  == SubSeq(text, a, b)
             post == SubSeq(text, b + 1, n)
  <2>1. a \in I /\ b \in I /\ \A i \in I : a <= i /\ i <= b
    BY <1>1, <1>3, <1>6, Bounds
  <2>2. TrimWhitespace(text) = mid
    BY <1>4, <1>6
  <2> HIDE DEF a, b
  <2>3. a \in 1..n /\ b \in a..n
    BY <1>1, <1>3, <2>1
  <2>4. /\ pre \in Seq(V) /\ mid \in Seq(V) /\ post \in Seq(V)
        /\ text = pre \o mid \o post
        /\ Len(pre) = a - 1 /\ Len(mid) = (b - a) + 1 /\ Len(post) = n - b
        /\ \A i \in 1..(a - 1) : pre[i] = text[i]
        /\ \A i \in 1..((b - a) + 1) : mid[i] = text[(a + i) - 1]
        /\ \A i \in 1..(n - b) : post[i] = text[b + i]
    <3> HIDE DEF n
    <3>1. a \in 1..Len(text) /\ b \in a..Len(text) /\ n = Len(text)
      BY <2>3 DEF n
    <3>2. /\ pre \in Seq(V) /\ mid \in Seq(V) /\ post \in Seq(V)
          /\ text = pre \o mid \o post
      BY <3>1, SlicesOf, ZenonT(30)
    <3>3. /\ Len(pre) = a - 1 /\ Len(mid) = (b - a) + 1 /\ Len(post) = n - b
          /\ \A i \in 1..(a - 1) : pre[i] = text[i]
          /\ \A i \in 1..((b - a) + 1) : mid[i] = text[(a + i) - 1]
          /\ \A i \in 1..(n - b) : post[i] = text[b + i]
      BY <3>1, SlicesOf
    <3> HIDE DEF pre, mid, post
    <3> QED
      BY <3>2, <3>3
  <2> HIDE DEF pre, mid, post
  <2>5. pre \in Seq({Space})
    <3>1. \A i \in 1..(a - 1) : i \in 1..n /\ i \notin I
      BY <1>1, <2>1, <2>3
    <3>2. ASSUME NEW i \in 1..(a - 1) PROVE pre[i] \in {Space}
      <4>1. pre[i] = text[i] /\ text[i] = Space
        BY <1>2, <2>4, <3>1
      <4> QED
        BY <4>1
    <3> QED
      BY <2>4, <3>2, ElementsIn
  <2>6. post \in Seq({Space})
    <3>1. \A i \in 1..(n - b) : b + i \in 1..n /\ b + i \notin I
      BY <1>1, <2>1, <2>3
    <3>2. ASSUME NEW i \in 1..(n - b) PROVE post[i] \in {Space}
      <4>1. b + i \in 1..n /\ b + i \notin I
        BY <3>1
      <4>2. text[b + i] = Space
        BY <1>2, <4>1
      <4>3. post[i] = text[b + i]
        BY <2>4
      <4> QED
        BY <4>2, <4>3
    <3> QED
      BY <2>4, <3>2, ElementsIn
  <2>7. Inked(text) = Inked(mid)
    <3>1. pre \o mid \in Seq(V)
      BY <2>4
    <3>2. Inked(text) = (Inked(pre) \o Inked(mid)) \o Inked(post)
      <4>1. Inked((pre \o mid) \o post) = Inked(pre \o mid) \o Inked(post)
        BY <2>4, <3>1, InkedConcat
      <4>2. Inked(pre \o mid) = Inked(pre) \o Inked(mid)
        BY <2>4, InkedConcat
      <4> QED
        BY <2>4, <4>1, <4>2
    <3>3. Inked(pre) = << >> /\ Inked(post) = << >>
      BY <2>5, <2>6, InkedBlank
    <3>4. Inked(mid) \in Seq(V \ {Space})
      BY <2>4, InkedIn
    <3>5. << >> \o Inked(mid) = Inked(mid) /\ Inked(mid) \o << >> = Inked(mid)
      BY <3>4
    <3> QED
      BY <3>2, <3>3, <3>5
  <2>8. mid # << >> => Head(mid) # Space /\ Last(mid) # Space
    <3> SUFFICES ASSUME mid # << >> PROVE Head(mid) # Space /\ Last(mid) # Space
      OBVIOUS
    <3>1. Head(mid) = mid[1] /\ Last(mid) = mid[(b - a) + 1]
      <4>1. Head(mid) = mid[1] /\ Last(mid) = mid[Len(mid)]
        BY <2>4, Ends
      <4> QED
        BY <2>4, <4>1
    <3>2. /\ 1 \in 1..((b - a) + 1) /\ (b - a) + 1 \in 1..((b - a) + 1)
          /\ (a + 1) - 1 = a /\ (a + ((b - a) + 1)) - 1 = b
      BY <1>1, <2>3
    <3>3. mid[1] = text[a] /\ mid[(b - a) + 1] = text[b]
      BY <2>4, <3>2
    <3> QED
      BY <1>3, <2>1, <3>1, <3>3
  <2> QED
    BY <2>2, <2>4, <2>7, <2>8
<1> QED
  BY <1>5, <1>6

LEMMA SymbolNumbers ==
  /\ CharSize \in Nat
  /\ Symbols = 0..(CharSize + 5) /\ Space = CharSize /\ Straight = CharSize + 1
  /\ OpenQuote = CharSize + 2 /\ CloseQuote = CharSize + 3 /\ Prefix = CharSize + 5
  /\ Chars \subseteq Symbols /\ Space \notin Chars \cup {Prefix}
  /\ {Space, Straight, OpenQuote, CloseQuote, Prefix} \subseteq Symbols
  /\ Prefix \notin Chars \cup {Straight, OpenQuote}
  /\ \A x \in Symbols : Sextet(x) <=> x \in Chars
<1>1. CharSize \in Nat
  BY SizesExist DEF Sizes
<1> QED
  BY <1>1 DEF Symbols, Space, Straight, OpenQuote, CloseQuote, Prefix, Chars, Sextet

LEMMA QuoteNumbers ==
  ASSUME NEW pair \in QuotePairs
  PROVE  /\ pair = <<pair[1], pair[2]>>
         /\ pair[1] \in {Straight, OpenQuote}
         /\ pair[1] \in Symbols /\ pair[2] \in Symbols
         /\ pair[1] # Space /\ pair[2] # Space /\ pair[1] # Prefix
<1>1. pair = <<Straight, Straight>> \/ pair = <<OpenQuote, CloseQuote>>
  BY DEF QuotePairs
<1>2. /\ {Straight, OpenQuote, CloseQuote} \subseteq Symbols
      /\ Space \notin {Straight, OpenQuote, CloseQuote} /\ Prefix \notin {Straight, OpenQuote}
  BY SymbolNumbers
<1>3. CASE pair = <<Straight, Straight>>
  <2>1. pair[1] = Straight /\ pair[2] = Straight
    BY <1>3
  <2> QED
    BY <1>2, <1>3, <2>1
<1>4. CASE pair = <<OpenQuote, CloseQuote>>
  <2>1. pair[1] = OpenQuote /\ pair[2] = CloseQuote
    BY <1>4
  <2> QED
    BY <1>2, <1>4, <2>1
<1> QED
  BY <1>1, <1>3, <1>4

LEMMA SingleInk ==
  ASSUME NEW x, x # Space
  PROVE  Inked(<<x>>) = <<x>>
<1>1. <<x>> \in Seq({x}) /\ Space \notin {x}
  OBVIOUS
<1> QED
  BY <1>1, InkedOfInk

LEMMA FirstInk ==
  ASSUME NEW V, NEW text \in Seq(V), text # << >>, Head(text) # Space
  PROVE  Inked(text) = <<Head(text)>> \o Inked(Tail(text))
<1>1. /\ Head(text) \in V /\ Tail(text) \in Seq(V) /\ text = <<Head(text)>> \o Tail(text)
  BY Ends
<1> DEFINE h == Head(text)
           t == Tail(text)
<1>2. h \in V /\ t \in Seq(V) /\ text = <<h>> \o t /\ h # Space
  BY <1>1
<1> HIDE DEF h, t
<1>3. <<h>> \in Seq(V)
  BY <1>2
<1>4. Inked(<<h>> \o t) = Inked(<<h>>) \o Inked(t)
  BY <1>2, <1>3, InkedConcat
<1>5. Inked(<<h>>) = <<h>>
  BY <1>2, SingleInk
<1>6. Inked(text) = <<h>> \o Inked(t)
  BY <1>2, <1>4, <1>5
<1> QED
  BY <1>6 DEF h, t

LEMMA WrapInk ==
  ASSUME NEW V, NEW a \in V, NEW s \in Seq(V), NEW b \in V, a # Space, b # Space
  PROVE  Wrapped(a, s, b) \in Seq(V) /\ Inked(Wrapped(a, s, b)) = Wrapped(a, Inked(s), b)
<1>1. <<a>> \in Seq(V) /\ <<b>> \in Seq(V)
  OBVIOUS
<1>2. <<a>> \o s \in Seq(V)
  BY <1>1
<1>3. (<<a>> \o s) \o <<b>> \in Seq(V)
  BY <1>1, <1>2
<1>4. Inked((<<a>> \o s) \o <<b>>) = (<<a>> \o Inked(s)) \o <<b>>
  <2>1. Inked((<<a>> \o s) \o <<b>>) = Inked(<<a>> \o s) \o Inked(<<b>>)
    BY <1>1, <1>2, InkedConcat
  <2>2. Inked(<<a>> \o s) = Inked(<<a>>) \o Inked(s)
    BY <1>1, InkedConcat
  <2>3. Inked(<<a>>) = <<a>> /\ Inked(<<b>>) = <<b>>
    BY SingleInk
  <2> QED
    BY <2>1, <2>2, <2>3
<1> QED
  BY <1>3, <1>4 DEF Wrapped

LEMMA BetweenEnds ==
  ASSUME NEW V, NEW text \in Seq(V), Len(text) >= 2
  PROVE  LET mid == SubSeq(text, 2, Len(text) - 1)
         IN mid \in Seq(V) /\ text = Wrapped(Head(text), mid, Last(text))
<1> DEFINE n   == Len(text)
           mid == SubSeq(text, 2, n - 1)
<1>1. n \in Nat /\ n >= 2 /\ text # << >>
  BY LenProperties
<1>2. /\ mid \in Seq(V) /\ Len(mid) = n - 2
      /\ \A i \in 1..(n - 2) : mid[i] = text[i + 1]
  <2>1. mid \in Seq(V)
    BY <1>1
  <2>2. Len(mid) = IF 2 <= n - 1 THEN ((n - 1) - 2) + 1 ELSE 0
    BY <1>1
  <2>3. \A i \in 1..Len(mid) : mid[i] = text[(2 + i) - 1]
    BY <1>1
  <2> HIDE DEF mid, n
  <2>4. Len(mid) = n - 2
    BY <1>1, <2>2
  <2>5. \A i \in 1..(n - 2) : (2 + i) - 1 = i + 1
    BY <1>1
  <2> QED
    BY <2>1, <2>3, <2>4, <2>5
<1>3. Head(text) = text[1] /\ Last(text) = text[n]
  BY <1>1, Ends
<1> HIDE DEF mid
<1> DEFINE w == Wrapped(text[1], mid, text[n])
<1>4. /\ IsSequence(w) /\ Len(w) = Len(mid) + 2 /\ w[1] = text[1] /\ w[Len(mid) + 2] = text[n]
      /\ \A i \in 1..Len(mid) : w[i + 1] = mid[i]
  BY <1>2, WrapShape, SequenceOver
<1> HIDE DEF w, n
<1>5. /\ (n - 2) + 2 = n
      /\ \A i \in 1..n : i = 1 \/ i = n \/ (i - 1 \in 1..(n - 2) /\ (i - 1) + 1 = i)
  BY <1>1
<1>6. Len(w) = n /\ w[n] = text[n] /\ \A i \in 1..(n - 2) : w[i + 1] = text[i + 1]
  BY <1>2, <1>4, <1>5
<1>7. \A i \in 1..n : text[i] = w[i]
  BY <1>4, <1>5, <1>6
<1>8. text = w
  BY <1>4, <1>6, <1>7, SequenceOver, SameElements DEF n
<1> QED
  BY <1>2, <1>3, <1>8 DEF w, mid, n

LEMMA UnquoteShape ==
  ASSUME NEW V, NEW text \in Seq(V)
  PROVE  Unquote(text) \in Seq(V)
BY BetweenEnds DEF Unquote

(* Quoted once, or not at all.                                             *)
Holds(ink, armor) ==
  ink = armor \/ \E pair \in QuotePairs : ink = Wrapped(pair[1], armor, pair[2])

LEMMA StrippedShape ==
  ASSUME NEW V, NEW text \in Seq(V)
  PROVE  LET inner == Stripped(text)
         IN inner \in Seq(V) /\ (inner # << >> => Head(inner) # Space)
<1>1. Unquote(TrimWhitespace(text)) \in Seq(V)
  BY TrimShape, UnquoteShape
<1> QED
  BY <1>1, TrimShape DEF Stripped

LEMMA StrippedOfArmor ==
  ASSUME NEW V, NEW text \in Seq(V), NEW armor, IsSequence(armor), Len(armor) > 0,
         armor[1] = Prefix, Holds(Inked(text), armor)
  PROVE  Inked(Stripped(text)) = armor
<1> DEFINE t == TrimWhitespace(text)
<1>1. /\ t \in Seq(V) /\ Inked(t) = Inked(text)
      /\ t # << >> => Head(t) # Space /\ Last(t) # Space
  BY TrimShape
<1>2. Stripped(text) = TrimWhitespace(Unquote(t)) /\ Unquote(t) \in Seq(V)
  BY <1>1, UnquoteShape DEF Stripped
<1>3. Inked(Stripped(text)) = Inked(Unquote(t))
  BY <1>2, TrimShape
<1> HIDE DEF t
<1>4. Inked(text) # << >>
  <2>1. armor # << >>
    OBVIOUS
  <2>2. \A pair \in QuotePairs : Wrapped(pair[1], armor, pair[2]) # << >>
    <3> SUFFICES ASSUME NEW pair \in QuotePairs, Wrapped(pair[1], armor, pair[2]) = << >>
                 PROVE  FALSE
      OBVIOUS
    <3>1. Len(<< >>) = Len(armor) + 2 /\ Len(<< >>) = 0 /\ Len(armor) \in Nat
      BY WrapShape, SequenceShape, SmallSequences
    <3> QED
      BY <3>1
  <2> QED
    BY <2>1, <2>2 DEF Holds
<1>5. t # << >> /\ Head(t) # Space /\ Last(t) # Space
  BY <1>1, <1>4, InkedNothing
<1>6. /\ Head(t) \in V /\ Last(t) \in V
      /\ Inked(t) = <<Head(t)>> \o Inked(Tail(t)) /\ Inked(Tail(t)) \in Seq(V \ {Space})
  BY <1>1, <1>5, Ends, FirstInk, InkedIn
<1>7. Inked(t)[1] = Head(t)
  BY <1>6
<1>8. CASE Inked(text) = armor
  <2>1. Head(t) = Prefix
    BY <1>1, <1>7, <1>8
  <2>2. <<Head(t), Last(t)>> \notin QuotePairs
    <3> SUFFICES ASSUME <<Head(t), Last(t)>> \in QuotePairs PROVE FALSE
      OBVIOUS
    <3>1. <<Head(t), Last(t)>>[1] # Prefix
      BY QuoteNumbers
    <3> QED
      BY <2>1, <3>1
  <2>3. Unquote(t) = t
    BY <2>2 DEF Unquote
  <2> QED
    BY <1>1, <1>3, <1>8, <2>3
<1>9. ASSUME NEW pair \in QuotePairs, Inked(text) = Wrapped(pair[1], armor, pair[2])
      PROVE  Inked(Stripped(text)) = armor
  <2>1. Len(t) >= 2
    <3>1. Len(t) \in Nat /\ Len(t) > 0
      BY <1>1, <1>5, Ends
    <3>2. Len(t) # 1
      <4> SUFFICES ASSUME Len(t) = 1 PROVE FALSE
        OBVIOUS
      <4>1. Tail(t) = << >>
        <5>1. Tail(t) \in Seq(V) /\ Len(Tail(t)) = Len(t) - 1
          BY <1>1, <1>5
        <5>2. Len(Tail(t)) = 0
          BY <5>1
        <5>3. \A rest \in Seq(V) : Len(rest) = 0 => rest = << >>
          OBVIOUS
        <5> QED
          BY <5>1, <5>2, <5>3
      <4>2. Inked(t) = <<Head(t)>>
        <5>1. <<Head(t)>> \o << >> = <<Head(t)>>
          OBVIOUS
        <5> QED
          BY <1>6, <4>1, <5>1, InkedNothing
      <4>3. Len(Inked(t)) = 1
        BY <4>2
      <4>4. Len(Inked(t)) = Len(armor) + 2 /\ Len(armor) \in Nat
        BY <1>1, <1>9, WrapShape, SequenceShape
      <4> QED
        BY <4>3, <4>4
    <3> DEFINE m == Len(t)
    <3>3. m \in Nat /\ m > 0 /\ m # 1
      BY <3>1, <3>2
    <3> HIDE DEF m
    <3>4. m >= 2
      BY <3>3
    <3> QED
      BY <3>4 DEF m
  <2> DEFINE mid == SubSeq(t, 2, Len(t) - 1)
  <2>2. mid \in Seq(V) /\ t = Wrapped(Head(t), mid, Last(t))
    BY <1>1, <2>1, BetweenEnds
  <2> HIDE DEF mid
  <2>3. Inked(t) = Wrapped(Head(t), Inked(mid), Last(t)) /\ IsSequence(Inked(mid))
    <3>1. Inked(Wrapped(Head(t), mid, Last(t))) = Wrapped(Head(t), Inked(mid), Last(t))
      BY <1>5, <1>6, <2>2, WrapInk
    <3>2. IsSequence(Inked(mid))
      BY <2>2, InkedIn, SequenceOver
    <3> QED
      BY <2>2, <3>1, <3>2
  <2>4. Head(t) = pair[1] /\ Last(t) = pair[2] /\ Inked(mid) = armor
    BY <1>1, <1>9, <2>3, WrapCancel
  <2>5. <<Head(t), Last(t)>> \in QuotePairs
    BY <2>4, QuoteNumbers
  <2>6. Unquote(t) = mid
    BY <2>1, <2>5 DEF Unquote, mid
  <2> QED
    BY <1>3, <2>4, <2>6
<1> QED
  BY <1>8, <1>9 DEF Holds

-------------------------------------------------------------------------------
(* Part 10: an armor is opened as what it holds.                           *)

Body(kind, payload) == <<kind>> \o payload \o Check(kind, payload)

LEMMA SliceShape ==
  ASSUME NEW V, NEW s \in Seq(V), NEW a \in 0..Len(s), NEW l \in 0..(Len(s) - a)
  PROVE  /\ SubSeq(s, a + 1, a + l) \in Seq(V) /\ Len(SubSeq(s, a + 1, a + l)) = l
         /\ \A i \in 1..l : SubSeq(s, a + 1, a + l)[i] = s[a + i]
<1> DEFINE t == SubSeq(s, a + 1, a + l)
           n == Len(s)
<1>1. n \in Nat /\ a \in Nat /\ l \in Nat /\ a + l <= n
  <2>1. n \in Nat
    BY LenProperties
  <2> HIDE DEF n
  <2> QED
    BY <2>1 DEF n
<1>2. t \in Seq(V)
  BY <1>1
<1>3. Len(t) = IF a + 1 <= a + l THEN ((a + l) - (a + 1)) + 1 ELSE 0
  BY <1>1
<1>4. \A i \in 1..l : t[i] = s[((a + 1) + i) - 1]
  <2> DEFINE p == a + 1
             q == a + l
  <2>1. p \in Nat /\ q \in Nat /\ \A i \in 1..l : i \in 1..((q - p) + 1)
    BY <1>1
  <2>2. t = SubSeq(s, p, q)
    OBVIOUS
  <2> HIDE DEF p, q, t, n
  <2>3. \A i \in 1..((q - p) + 1) : SubSeq(s, p, q)[i] = s[(p + i) - 1]
    BY <2>1
  <2>4. \A i \in 1..l : t[i] = s[(p + i) - 1]
    BY <2>1, <2>2, <2>3
  <2> QED
    BY <2>4 DEF p
<1> HIDE DEF t, n
<1>5. Len(t) = l
  BY <1>1, <1>3
<1>6. \A i \in 1..l : ((a + 1) + i) - 1 = a + i
  BY <1>1
<1> QED
  BY <1>2, <1>4, <1>5, <1>6 DEF t

LEMMA BodyShape ==
  ASSUME NEW kind, NEW payload, IsSequence(payload), IsSequence(Check(kind, payload))
  PROVE  LET body  == Body(kind, payload)
             check == Check(kind, payload)
         IN /\ IsSequence(body) /\ Len(body) = (1 + Len(payload)) + Len(check)
            /\ Range(body) = {kind} \cup Range(payload) \cup Range(check)
            /\ body[1] = kind
            /\ \A i \in 1..Len(payload) : body[1 + i] = payload[i]
            /\ \A i \in 1..Len(check) : body[(1 + Len(payload)) + i] = check[i]
<1> DEFINE h     == <<kind>> \o payload
           check == Check(kind, payload)
<1>1. IsSequence(<<kind>>) /\ Len(<<kind>>) = 1 /\ 1 \in 1..Len(<<kind>>) /\ <<kind>>[1] = kind
  <2>1. IsSequence(<<kind>>) /\ Len(<<kind>>) = 1
    BY SmallSequences
  <2>2. 1 \in 1..1 /\ <<kind>>[1] = kind
    OBVIOUS
  <2> QED
    BY <2>1, <2>2
<1>2. Range(<<kind>>) = {kind}
  <2>1. Range(<<kind>>) = {<<kind>>[i] : i \in 1..1}
    BY <1>1, SequenceShape
  <2>2. {<<kind>>[i] : i \in 1..1} = {kind}
    OBVIOUS
  <2> QED
    BY <2>1, <2>2
<1>3. /\ IsSequence(h) /\ Len(h) = 1 + Len(payload) /\ h[1] = kind
      /\ Range(h) = {kind} \cup Range(payload)
      /\ \A i \in 1..Len(payload) : h[1 + i] = payload[i]
  BY <1>1, <1>2, ConcatShape
<1> HIDE DEF h, check
<1>4. /\ IsSequence(h \o check) /\ Len(h \o check) = Len(h) + Len(check)
      /\ Range(h \o check) = Range(h) \cup Range(check)
      /\ \A i \in 1..Len(h) : (h \o check)[i] = h[i]
      /\ \A i \in 1..Len(check) : (h \o check)[Len(h) + i] = check[i]
  BY <1>3, ConcatShape DEF check
<1> DEFINE l == Len(payload)
<1>5. l \in Nat /\ Len(h) = 1 + l
  BY <1>3, SequenceShape
<1> HIDE DEF l
<1>6. 1 \in 1..(1 + l) /\ \A i \in 1..l : 1 + i \in 1..(1 + l)
  BY <1>5
<1>7. Body(kind, payload) = h \o check
  BY DEF Body, h, check
<1>8. (h \o check)[1] = kind
  BY <1>3, <1>4, <1>5, <1>6
<1>9. \A i \in 1..l : (h \o check)[1 + i] = payload[i]
  BY <1>3, <1>4, <1>5, <1>6 DEF l
<1>10. /\ Len(h \o check) = (1 + l) + Len(check)
       /\ \A i \in 1..Len(check) : (h \o check)[(1 + l) + i] = check[i]
  BY <1>4, <1>5
<1> QED
  BY <1>3, <1>4, <1>7, <1>8, <1>9, <1>10 DEF l, check

LEMMA KindIsOctet == Kinds \subseteq Octets
<1>1. ByteSize \in Nat /\ ByteSize > 8
  BY SizesExist DEF Sizes
<1> QED
  BY <1>1 DEF Kinds, Octets

LEMMA CheckShape ==
  ASSUME NEW a \in Armored
  PROVE  /\ a[1] \in Kinds /\ a[2] \in Seq(Octets)
         /\ Check(a[1], a[2]) \in Seq(Octets) /\ Len(Check(a[1], a[2])) = CheckLen
<1>1. a \in Kinds \X Seq(Octets) /\ Check(a[1], a[2]) \in [1..CheckLen -> Octets] /\ CheckLen \in Nat
  BY ArmorAssumption
<1> DEFINE c == Check(a[1], a[2])
<1>2. a[1] \in Kinds /\ a[2] \in Seq(Octets) /\ c \in [1..CheckLen -> Octets]
  BY <1>1
<1> HIDE DEF c
<1>3. c \in Seq(Octets) /\ Len(c) = CheckLen
  BY <1>1, <1>2, IsASeq, LenProperties
<1> QED
  BY <1>2, <1>3 DEF c

LEMMA OpenedBack ==
  ASSUME NEW a \in Armored
  PROVE  /\ Body(a[1], a[2]) \in Seq(Octets)
         /\ Opened(Body(a[1], a[2])) = [ok |-> TRUE, kind |-> a[1], payload |-> a[2]]
<1> DEFINE kind    == a[1]
           payload == a[2]
           check   == Check(kind, payload)
           bytes   == Body(kind, payload)
           l       == Len(payload)
<1>1. /\ kind \in Kinds /\ payload \in Seq(Octets) /\ check \in Seq(Octets)
      /\ Len(check) = CheckLen /\ CheckLen \in Nat
      /\ IsSequence(payload) /\ IsSequence(check) /\ l \in Nat
      /\ Range(payload) \subseteq Octets /\ Range(check) \subseteq Octets
  BY CheckShape, ArmorAssumption, SequenceOver, SequenceShape
<1>2. /\ IsSequence(bytes) /\ Len(bytes) = (1 + l) + CheckLen
      /\ Range(bytes) = {kind} \cup Range(payload) \cup Range(check)
      /\ bytes[1] = kind
      /\ \A i \in 1..l : bytes[1 + i] = payload[i]
      /\ \A i \in 1..CheckLen : bytes[(1 + l) + i] = check[i]
  <2>1. /\ IsSequence(bytes) /\ Len(bytes) = (1 + Len(payload)) + Len(check)
        /\ Range(bytes) = {kind} \cup Range(payload) \cup Range(check)
        /\ bytes[1] = kind
        /\ \A i \in 1..Len(payload) : bytes[1 + i] = payload[i]
        /\ \A i \in 1..Len(check) : bytes[(1 + Len(payload)) + i] = check[i]
    <3>1. IsSequence(payload) /\ IsSequence(check)
      BY <1>1
    <3> HIDE DEF kind, payload
    <3>2. IsSequence(payload) /\ IsSequence(Check(kind, payload))
      BY <3>1
    <3> QED
      BY <3>2, BodyShape
  <2> HIDE DEF bytes, check, payload, kind
  <2> QED
    BY <1>1, <2>1
<1>3. bytes \in Seq(Octets)
  BY <1>1, <1>2, KindIsOctet, SequenceIn
<1> HIDE DEF bytes
<1>4. SubSeq(bytes, 1 + 1, 1 + l) = payload
  <2> DEFINE k == 1
  <2>1. k \in Nat /\ \A i \in 1..Len(payload) : bytes[k + i] = payload[i]
    BY <1>2
  <2> HIDE DEF k, payload
  <2>2. SubSeq(bytes, k + 1, k + Len(payload)) = payload
    BY <1>1, <2>1, SliceIs
  <2> QED
    BY <2>2 DEF k
<1>5. SubSeq(bytes, (1 + l) + 1, (1 + l) + CheckLen) = check
  <2> DEFINE k == 1 + l
  <2>1. k \in Nat /\ \A i \in 1..CheckLen : bytes[k + i] = check[i]
    BY <1>1, <1>2
  <2> HIDE DEF k, check
  <2>2. SubSeq(bytes, k + 1, k + Len(check)) = check
    BY <1>1, <2>1, SliceIs
  <2> QED
    BY <1>1, <2>2 DEF k
<1> HIDE DEF l, check, payload, kind
<1> DEFINE n == Len(bytes)
<1>6. n = (1 + l) + CheckLen /\ l \in Nat /\ CheckLen \in Nat
  BY <1>1, <1>2
<1> HIDE DEF n
<1>7. /\ 1 + 1 = 2 /\ n - CheckLen = 1 + l /\ (n - CheckLen) + 1 = (1 + l) + 1
      /\ ~(n < 1 + CheckLen)
  BY <1>6
<1>8. /\ SubSeq(bytes, 2, n - CheckLen) = payload
      /\ SubSeq(bytes, (n - CheckLen) + 1, n) = check
  BY <1>4, <1>5, <1>6, <1>7
<1>9. Opened(bytes) = [ok |-> TRUE, kind |-> kind, payload |-> payload]
  BY <1>1, <1>2, <1>7, <1>8 DEF Opened, n, check
<1> QED
  BY <1>3, <1>9 DEF bytes, kind, payload

LEMMA OpenedSound ==
  ASSUME NEW bytes \in Seq(Octets), Opened(bytes).ok
  PROVE  bytes = Body(Opened(bytes).kind, Opened(bytes).payload)
<1> DEFINE n       == Len(bytes)
           kind    == bytes[1]
           payload == SubSeq(bytes, 2, n - CheckLen)
           tail    == SubSeq(bytes, (n - CheckLen) + 1, n)
           check   == Check(kind, payload)
<1>1. /\ ~(n < 1 + CheckLen) /\ tail = check
      /\ Opened(bytes) = [ok |-> TRUE, kind |-> kind, payload |-> payload]
  BY DEF Opened, Malformed
<1>2. n \in Nat /\ CheckLen \in Nat /\ IsSequence(bytes)
  BY ArmorAssumption, LenProperties, SequenceOver
<1> DEFINE l == (n - CheckLen) - 1
<1> HIDE DEF n
<1>3. /\ l \in Nat /\ 1 \in 0..n /\ l \in 0..(n - 1)
      /\ 1 + l \in 0..n /\ CheckLen \in 0..(n - (1 + l))
      /\ 1 + 1 = 2 /\ 1 + l = n - CheckLen /\ (1 + l) + 1 = (n - CheckLen) + 1
      /\ (1 + l) + CheckLen = n
  BY <1>1, <1>2
<1>4. /\ payload \in Seq(Octets) /\ Len(payload) = l
      /\ \A i \in 1..l : payload[i] = bytes[1 + i]
  <2>1. SubSeq(bytes, 1 + 1, 1 + l) = payload
    BY <1>3
  <2> DEFINE k == 1
  <2>2. k \in 0..Len(bytes) /\ l \in 0..(Len(bytes) - k) /\ SubSeq(bytes, k + 1, k + l) = payload
    BY <1>3, <2>1 DEF n
  <2> HIDE DEF l, payload, k
  <2>3. payload \in Seq(Octets) /\ Len(payload) = l /\ \A i \in 1..l : payload[i] = bytes[k + i]
    BY <2>2, SliceShape
  <2> QED
    BY <2>3 DEF k
<1>5. /\ tail \in Seq(Octets) /\ Len(tail) = CheckLen
      /\ \A i \in 1..CheckLen : tail[i] = bytes[(1 + l) + i]
  <2>1. SubSeq(bytes, (1 + l) + 1, (1 + l) + CheckLen) = tail
    BY <1>3
  <2> DEFINE k == 1 + l
  <2>2. /\ k \in 0..Len(bytes) /\ CheckLen \in 0..(Len(bytes) - k)
        /\ SubSeq(bytes, k + 1, k + CheckLen) = tail
    BY <1>3, <2>1 DEF n
  <2> HIDE DEF l, tail, k
  <2>3. /\ tail \in Seq(Octets) /\ Len(tail) = CheckLen
        /\ \A i \in 1..CheckLen : tail[i] = bytes[k + i]
    BY <2>2, SliceShape
  <2> QED
    BY <2>3 DEF k
<1> HIDE DEF l, payload, tail, kind
<1> DEFINE body == Body(kind, payload)
<1>6. IsSequence(payload) /\ IsSequence(check) /\ Len(check) = CheckLen
  BY <1>1, <1>4, <1>5, SequenceOver
<1>7. /\ IsSequence(body) /\ Len(body) = (1 + l) + CheckLen /\ body[1] = kind
      /\ \A i \in 1..l : body[1 + i] = payload[i]
      /\ \A i \in 1..CheckLen : body[(1 + l) + i] = check[i]
  <2>1. /\ IsSequence(body) /\ Len(body) = (1 + Len(payload)) + Len(check) /\ body[1] = kind
        /\ \A i \in 1..Len(payload) : body[1 + i] = payload[i]
        /\ \A i \in 1..Len(check) : body[(1 + Len(payload)) + i] = check[i]
    BY <1>6, BodyShape
  <2> HIDE DEF body, check
  <2> QED
    BY <1>4, <1>6, <2>1
<1> HIDE DEF body, check
<1>8. ASSUME NEW p \in 1..n PROVE bytes[p] = body[p]
  <2>1. CASE p = 1
    BY <1>7, <2>1 DEF kind
  <2>2. CASE p - 1 \in 1..l
    <3>1. 1 + (p - 1) = p
      BY <1>2
    <3> QED
      BY <1>4, <1>7, <2>2, <3>1
  <2>3. CASE p - (1 + l) \in 1..CheckLen
    <3>1. (1 + l) + (p - (1 + l)) = p
      BY <1>3
    <3> QED
      BY <1>1, <1>5, <1>7, <2>3, <3>1
  <2>4. p = 1 \/ p - 1 \in 1..l \/ p - (1 + l) \in 1..CheckLen
    BY <1>2, <1>3
  <2> QED
    BY <2>1, <2>2, <2>3, <2>4
<1>9. bytes = body
  BY <1>2, <1>3, <1>7, <1>8, SameElements DEF n
<1> QED
  BY <1>1, <1>9 DEF body, kind, payload

(* Unarmor, of a text stripped and without its whitespace.                 *)
Read(ink) ==
  IF \/ ink = << >> \/ Head(ink) # Prefix
     \/ \E i \in DOMAIN Tail(ink) : ~Sextet(Tail(ink)[i])
     \/ Len(Tail(ink)) % 4 = 1
  THEN Malformed
  ELSE Opened(Decoded(Tail(ink)))

LEMMA UnarmorReads ==
  ASSUME NEW V, NEW text \in Seq(V)
  PROVE  Unarmor(text) = Read(Inked(Stripped(text)))
<1> DEFINE inner == Stripped(text)
           chars == Inked(Tail(inner))
<1>1. inner \in Seq(V) /\ (inner # << >> => Head(inner) # Space)
  BY StrippedShape
<1>2. Unarmor(text) = IF \/ inner = << >> \/ Head(inner) # Prefix
                         \/ \E i \in DOMAIN chars : ~Sextet(chars[i])
                         \/ Len(chars) % 4 = 1
                      THEN Malformed ELSE Opened(Decoded(chars))
  BY DEF Unarmor, Decoded
<1> HIDE DEF inner
<1>3. CASE inner = << >>
  BY <1>2, <1>3, InkedNothing DEF Read, inner
<1>4. CASE inner # << >>
  <2>1. Inked(inner) = <<Head(inner)>> \o chars /\ chars \in Seq(V \ {Space})
    BY <1>1, <1>4, FirstInk, Ends, InkedIn
  <2> DEFINE h == Head(inner)
  <2> HIDE DEF chars, h
  <2>2. <<h>> \o chars # << >> /\ Head(<<h>> \o chars) = h /\ Tail(<<h>> \o chars) = chars
    BY <2>1
  <2>3. Inked(inner) = <<h>> \o chars
    BY <2>1 DEF h
  <2>4. Inked(inner) # << >> /\ Head(Inked(inner)) = h /\ Tail(Inked(inner)) = chars
    BY <2>2, <2>3
  <2>5. Unarmor(text) = Read(Inked(inner))
    BY <1>2, <1>4, <2>4 DEF Read, h
  <2> QED
    BY <2>5 DEF inner
<1> QED
  BY <1>3, <1>4

LEMMA ArmorShape ==
  ASSUME NEW kind, NEW payload, Body(kind, payload) \in Seq(Octets)
  PROVE  LET chars == Encoded(Body(kind, payload))
             armor == Armor(kind, payload)
         IN /\ armor = <<Prefix>> \o chars /\ chars \in Seq(Chars) /\ Len(chars) % 4 # 1
            /\ armor \in Seq(Chars \cup {Prefix}) /\ armor # << >>
            /\ Head(armor) = Prefix /\ Tail(armor) = chars
<1> DEFINE chars == Encoded(Body(kind, payload))
<1>1. Armor(kind, payload) = <<Prefix>> \o chars
  BY DEF Armor, Encoded, Body
<1>2. chars \in Seq(Chars) /\ Len(chars) % 4 # 1
  BY BodyBack
<1> HIDE DEF chars
<1>3. chars \in Seq(Chars \cup {Prefix})
  BY <1>2, WiderSequences
<1>4. /\ <<Prefix>> \o chars \in Seq(Chars \cup {Prefix}) /\ <<Prefix>> \o chars # << >>
      /\ Head(<<Prefix>> \o chars) = Prefix /\ Tail(<<Prefix>> \o chars) = chars
  BY <1>3
<1> QED
  BY <1>1, <1>2, <1>4 DEF chars

LEMMA ReadBack ==
  ASSUME NEW a \in Armored
  PROVE  Read(Armor(a[1], a[2])) = [ok |-> TRUE, kind |-> a[1], payload |-> a[2]]
<1> DEFINE body  == Body(a[1], a[2])
           chars == Encoded(body)
           armor == Armor(a[1], a[2])
<1>1. body \in Seq(Octets) /\ Opened(body) = [ok |-> TRUE, kind |-> a[1], payload |-> a[2]]
  BY OpenedBack
<1>2. /\ chars \in Seq(Chars) /\ Len(chars) % 4 # 1
      /\ armor # << >> /\ Head(armor) = Prefix /\ Tail(armor) = chars
  BY <1>1, ArmorShape
<1>3. Decoded(chars) = body
  BY <1>1, BodyBack
<1> HIDE DEF armor, chars, body
<1>4. \A i \in DOMAIN chars : Sextet(chars[i])
  <2>1. \A i \in DOMAIN chars : chars[i] \in Chars
    BY <1>2, ElementOfSeq, LenProperties
  <2> QED
    BY <2>1, SymbolNumbers
<1>5. Read(armor) = Opened(Decoded(chars))
  BY <1>2, <1>4 DEF Read
<1> QED
  BY <1>1, <1>3, <1>5 DEF armor

LEMMA SameArmorOf ==
  ASSUME NEW p, NEW chars \in Seq(Chars), NEW again \in Seq(Chars), AlmostSame(again, chars)
  PROVE  SameArmor(<<p>> \o chars, <<p>> \o again)
<1> DEFINE n     == Len(chars)
           text  == <<p>> \o chars
           armor == <<p>> \o again
           spare == SpareValues(n)
<1>1. /\ n \in Nat /\ Len(again) = n /\ IsSequence(chars) /\ IsSequence(again)
      /\ \A i \in 1..(n - 1) : again[i] = chars[i]
      /\ n > 0 => again[n] \div spare = chars[n] \div spare
  BY LenProperties, SequenceOver DEF AlmostSame
<1>2. IsSequence(<<p>>) /\ Len(<<p>>) = 1 /\ 1 \in 1..1 /\ <<p>>[1] = p
  <2>1. 1 \in 1..1 /\ <<p>>[1] = p
    OBVIOUS
  <2> QED
    BY <2>1, SmallSequences
<1>3. /\ IsSequence(text) /\ Len(text) = 1 + n /\ text[1] = p
      /\ \A i \in 1..n : text[1 + i] = chars[i]
  BY <1>1, <1>2, ConcatShape
<1>4. /\ IsSequence(armor) /\ Len(armor) = 1 + n /\ armor[1] = p
      /\ \A i \in 1..n : armor[1 + i] = again[i]
  <2>1. /\ IsSequence(armor) /\ Len(armor) = 1 + Len(again) /\ armor[1] = p
        /\ \A i \in 1..Len(again) : armor[1 + i] = again[i]
    BY <1>1, <1>2, ConcatShape
  <2> QED
    BY <1>1, <2>1
<1> HIDE DEF text, armor, n, spare
<1>5. /\ n \in 0..(1 + n) /\ (1 + n) - 1 = n
      /\ \A i \in 1..n : i = 1 \/ (i - 1 \in 1..(n - 1) /\ i - 1 \in 1..n /\ 1 + (i - 1) = i)
      /\ n > 0 => n \in 1..n
  BY <1>1
<1>6. ASSUME NEW i \in 1..n PROVE text[i] = armor[i]
  <2>1. CASE i = 1
    BY <1>3, <1>4, <2>1
  <2>2. CASE i - 1 \in 1..(n - 1) /\ i - 1 \in 1..n /\ 1 + (i - 1) = i
    <3>1. text[1 + (i - 1)] = chars[i - 1] /\ armor[1 + (i - 1)] = again[i - 1]
      BY <1>3, <1>4, <2>2
    <3> QED
      BY <1>1, <2>2, <3>1
  <2> QED
    BY <1>5, <2>1, <2>2
<1>7. Front(text) = Front(armor)
  <2>1. /\ IsSequence(SubSeq(text, 1, n)) /\ Len(SubSeq(text, 1, n)) = n
        /\ \A i \in 1..n : SubSeq(text, 1, n)[i] = text[i]
    BY <1>3, <1>5, PrefixShape
  <2>2. /\ IsSequence(SubSeq(armor, 1, n)) /\ Len(SubSeq(armor, 1, n)) = n
        /\ \A i \in 1..n : SubSeq(armor, 1, n)[i] = armor[i]
    BY <1>4, <1>5, PrefixShape
  <2>3. SubSeq(text, 1, n) = SubSeq(armor, 1, n)
    BY <1>6, <2>1, <2>2, SameElements
  <2>4. Front(text) = SubSeq(text, 1, n) /\ Front(armor) = SubSeq(armor, 1, n)
    BY <1>3, <1>4, <1>5 DEF Front
  <2> QED
    BY <2>3, <2>4
<1>8. Last(text) \div spare = Last(armor) \div spare
  <2>1. Last(text) = text[1 + n] /\ Last(armor) = armor[1 + n]
    BY <1>3, <1>4 DEF Last
  <2>2. CASE n = 0
    <3>1. 1 + n = 1
      BY <2>2
    <3> QED
      BY <1>3, <1>4, <2>1, <3>1
  <2>3. CASE n > 0
    BY <1>1, <1>3, <1>4, <1>5, <2>1, <2>3
  <2> QED
    BY <1>1, <2>2, <2>3
<1>9. spare = SpareValues(Len(armor) - 1)
  BY <1>4, <1>5 DEF spare
<1>10. SameArmor(text, armor)
  BY <1>3, <1>4, <1>7, <1>8, <1>9 DEF SameArmor
<1> QED
  BY <1>10 DEF text, armor

LEMMA ReadSound ==
  ASSUME NEW ink \in Seq(Symbols), Read(ink).ok
  PROVE  SameArmor(ink, Armor(Read(ink).kind, Read(ink).payload))
<1> DEFINE chars == Tail(ink)
           bytes == Decoded(chars)
<1>1. /\ ink # << >> /\ Head(ink) = Prefix /\ \A i \in DOMAIN chars : Sextet(chars[i])
      /\ Len(chars) % 4 # 1 /\ Read(ink) = Opened(bytes)
  BY DEF Read, Malformed
<1>2. chars \in Seq(Symbols) /\ ink = <<Prefix>> \o chars
  BY <1>1, Ends
<1> HIDE DEF chars
<1>3. chars \in Seq(Chars)
  <2>1. \A i \in 1..Len(chars) : chars[i] \in Chars
    BY <1>1, <1>2, ElementOfSeq, LenProperties, SymbolNumbers
  <2> QED
    BY <1>2, <2>1, ElementsIn
<1>4. /\ bytes \in Seq(Octets) /\ AlmostSame(Encoded(bytes), chars)
      /\ Encoded(bytes) \in Seq(Chars)
  BY <1>1, <1>3, BodyRead
<1> HIDE DEF bytes
<1>5. bytes = Body(Read(ink).kind, Read(ink).payload)
  BY <1>1, <1>4, OpenedSound
<1>6. Armor(Read(ink).kind, Read(ink).payload) = <<Prefix>> \o Encoded(bytes)
  BY <1>4, <1>5, ArmorShape
<1>7. SameArmor(<<Prefix>> \o chars, <<Prefix>> \o Encoded(bytes))
  BY <1>3, <1>4, SameArmorOf
<1> QED
  BY <1>2, <1>6, <1>7

-------------------------------------------------------------------------------
(* Part 11: what the channel carries as text.                              *)

TextInv ==
  sent.layer = "text" =>
    /\ wire \in Seq(Symbols)
    /\ harmless => /\ <<sent.kind, sent.payload>> \in Armored
                   /\ Holds(Inked(wire), Armor(sent.kind, sent.payload))

LEMMA ArmorIsInk ==
  ASSUME NEW kind, NEW payload, <<kind, payload>> \in Armored
  PROVE  LET armor == Armor(kind, payload)
         IN /\ armor \in Seq(Chars \cup {Prefix}) /\ armor \in Seq(Symbols)
            /\ IsSequence(armor) /\ Len(armor) > 0 /\ armor[1] = Prefix
            /\ Inked(armor) = armor
            /\ Read(armor) = [ok |-> TRUE, kind |-> kind, payload |-> payload]
<1> DEFINE a     == <<kind, payload>>
           armor == Armor(kind, payload)
<1>1. a \in Armored /\ a[1] = kind /\ a[2] = payload
  OBVIOUS
<1> HIDE DEF a
<1>2. /\ Body(kind, payload) \in Seq(Octets)
      /\ Read(armor) = [ok |-> TRUE, kind |-> kind, payload |-> payload]
  BY <1>1, OpenedBack, ReadBack
<1>3. armor \in Seq(Chars \cup {Prefix}) /\ armor # << >> /\ Head(armor) = Prefix
  BY <1>2, ArmorShape
<1> HIDE DEF armor
<1>4. Space \notin Chars \cup {Prefix} /\ Chars \cup {Prefix} \subseteq Symbols
  BY SymbolNumbers
<1>5. armor \in Seq(Symbols) /\ Inked(armor) = armor
  BY <1>3, <1>4, WiderSequences, InkedOfInk
<1>6. IsSequence(armor) /\ Len(armor) > 0 /\ armor[1] = Prefix
  BY <1>3, Ends, SequenceOver
<1> QED
  BY <1>2, <1>3, <1>5, <1>6 DEF armor

LEMMA SendTextKeeps ==
  ASSUME NEW a \in Armored, SendText(a[1], a[2])
  PROVE  TextInv'
<1>1. /\ sent' = [layer |-> "text", kind |-> a[1], payload |-> a[2]]
      /\ wire' = Armor(a[1], a[2])
  BY DEF SendText, Send
<1>2. <<a[1], a[2]>> \in Armored
  BY ArmorAssumption
<1>3. sent'.kind = a[1] /\ sent'.payload = a[2]
  BY <1>1
<1> DEFINE armor == Armor(a[1], a[2])
<1>4. armor \in Seq(Symbols) /\ Inked(armor) = armor
  BY <1>2, ArmorIsInk
<1>5. Holds(Inked(armor), armor)
  BY <1>4 DEF Holds
<1> HIDE DEF armor
<1> QED
  BY <1>1, <1>2, <1>3, <1>4, <1>5 DEF TextInv, armor

LEMMA SplitAt ==
  ASSUME NEW V, NEW s \in Seq(V), NEW i \in 1..(Len(s) + 1)
  PROVE  LET pre  == SubSeq(s, 1, i - 1)
             post == SubSeq(s, i, Len(s))
         IN pre \in Seq(V) /\ post \in Seq(V) /\ s = pre \o post
<1> DEFINE n    == Len(s)
           k    == i - 1
           l    == n - k
           pre  == SubSeq(s, 1, k)
           post == SubSeq(s, i, n)
<1>1. n \in Nat /\ IsSequence(s)
  BY LenProperties, SequenceOver
<1> HIDE DEF n
<1>2. k \in 0..n /\ l \in 0..(n - k) /\ k + 1 = i /\ k + l = n
  BY <1>1 DEF n
<1>3. /\ pre \in Seq(V) /\ IsSequence(pre) /\ Len(pre) = k
      /\ \A j \in 1..k : pre[j] = s[j]
  <2>1. IsSequence(pre) /\ Len(pre) = k /\ \A j \in 1..k : pre[j] = s[j]
    <3> HIDE DEF k
    <3> QED
      BY <1>1, <1>2, PrefixShape DEF n
  <2>2. pre \in Seq(V)
    BY <1>2 DEF n
  <2> QED
    BY <2>1, <2>2
<1>4. /\ post \in Seq(V) /\ IsSequence(post) /\ Len(post) = l
      /\ \A j \in 1..l : post[j] = s[k + j]
  <2>1. post = SubSeq(s, k + 1, k + l)
    BY <1>2
  <2>2. k \in 0..Len(s) /\ l \in 0..(Len(s) - k)
    BY <1>2 DEF n
  <2> HIDE DEF k, l, post
  <2>3. post \in Seq(V) /\ Len(post) = l /\ \A j \in 1..l : post[j] = s[k + j]
    BY <2>1, <2>2, SliceShape
  <2> QED
    BY <2>3, SequenceOver
<1> HIDE DEF k, l, pre, post
<1>5. /\ IsSequence(pre \o post) /\ Len(pre \o post) = Len(pre) + Len(post)
      /\ \A j \in 1..Len(pre) : (pre \o post)[j] = pre[j]
      /\ \A j \in 1..Len(post) : (pre \o post)[Len(pre) + j] = post[j]
  <2>1. IsSequence(pre) /\ IsSequence(post)
    BY <1>3, <1>4
  <2> QED
    BY <2>1, ConcatShape
<1>6. Len(pre \o post) = n
  BY <1>2, <1>3, <1>4, <1>5
<1>7. ASSUME NEW j \in 1..n PROVE s[j] = (pre \o post)[j]
  <2>1. CASE j \in 1..k
    BY <1>3, <1>5, <2>1
  <2>2. CASE j - k \in 1..l /\ k + (j - k) = j
    <3>1. (pre \o post)[k + (j - k)] = post[j - k] /\ post[j - k] = s[k + (j - k)]
      BY <1>3, <1>4, <1>5, <2>2
    <3> QED
      BY <2>2, <3>1
  <2>3. j \in 1..k \/ (j - k \in 1..l /\ k + (j - k) = j)
    BY <1>1, <1>2
  <2> QED
    BY <2>1, <2>2, <2>3
<1>8. s = pre \o post
  BY <1>1, <1>5, <1>6, <1>7, SameElements DEF n
<1> QED
  BY <1>3, <1>4, <1>8 DEF pre, post, k, n

LEMMA InsertedSpace ==
  ASSUME NEW V, Space \in V, NEW text \in Seq(V), NEW i \in 1..(Len(text) + 1)
  PROVE  InsertAt(text, i, Space) \in Seq(V) /\ Inked(InsertAt(text, i, Space)) = Inked(text)
<1> DEFINE pre  == SubSeq(text, 1, i - 1)
           post == SubSeq(text, i, Len(text))
<1>1. pre \in Seq(V) /\ post \in Seq(V) /\ text = pre \o post
  BY SplitAt
<1>2. pre \in Seq(V) /\ post \in Seq(V) /\ <<Space>> \in Seq(V)
  <2>1. <<Space>> \in Seq(V)
    OBVIOUS
  <2> QED
    BY <1>1, <2>1
<1>3. text = pre \o post
  BY <1>1
<1>4. InsertAt(text, i, Space) = (pre \o <<Space>>) \o post
  BY DEF InsertAt
<1> HIDE DEF pre, post
<1>5. pre \o <<Space>> \in Seq(V)
  BY <1>2
<1>6. (pre \o <<Space>>) \o post \in Seq(V)
  BY <1>2, <1>5
<1>7. Inked((pre \o <<Space>>) \o post) = (Inked(pre) \o Inked(<<Space>>)) \o Inked(post)
  <2>1. Inked((pre \o <<Space>>) \o post) = Inked(pre \o <<Space>>) \o Inked(post)
    BY <1>2, <1>5, InkedConcat
  <2>2. Inked(pre \o <<Space>>) = Inked(pre) \o Inked(<<Space>>)
    BY <1>2, InkedConcat
  <2> QED
    BY <2>1, <2>2
<1>8. Inked(pre \o post) = Inked(pre) \o Inked(post)
  BY <1>2, InkedConcat
<1>9. Inked(<<Space>>) = << >>
  <2>1. <<Space>> \in Seq({Space})
    OBVIOUS
  <2> QED
    BY <2>1, InkedBlank
<1>10. Inked(pre) \in Seq(V \ {Space}) /\ Inked(pre) \o << >> = Inked(pre)
  <2>1. Inked(pre) \in Seq(V \ {Space})
    BY <1>2, InkedIn
  <2> QED
    BY <2>1
<1> QED
  BY <1>3, <1>4, <1>6, <1>7, <1>8, <1>9, <1>10

LEMMA RewrapKeeps ==
  ASSUME TextInv, NEW i \in 1..(Len(wire) + 1), Rewrap(i)
  PROVE  TextInv'
<1>1. /\ sent.layer = "text" /\ wire' = InsertAt(wire, i, Space)
      /\ sent' = sent /\ harmless' = harmless
  BY DEF Rewrap
<1>2. wire \in Seq(Symbols) /\ Space \in Symbols
  BY <1>1, SymbolNumbers DEF TextInv
<1>3. wire' \in Seq(Symbols) /\ Inked(wire') = Inked(wire)
  BY <1>1, <1>2, InsertedSpace
<1> QED
  BY <1>1, <1>3 DEF TextInv

LEMMA QuoteKeeps ==
  ASSUME TextInv, NEW pair \in QuotePairs, Quote(pair)
  PROVE  TextInv'
<1> DEFINE p == pair[1]
           q == pair[2]
           armor == Armor(sent.kind, sent.payload)
<1>1. /\ sent.layer = "text" /\ wire' = Wrapped(p, wire, q) /\ sent' = sent
      /\ harmless' => harmless /\ ToSet(wire) \cap {Straight, OpenQuote} = {}
  BY DEF Quote, Wrapped
<1>2. wire \in Seq(Symbols)
  BY <1>1 DEF TextInv
<1>3. p \in Symbols /\ q \in Symbols /\ p # Space /\ q # Space
  BY QuoteNumbers
<1>4. wire' \in Seq(Symbols) /\ Inked(wire') = Wrapped(p, Inked(wire), q)
  BY <1>1, <1>2, <1>3, WrapInk
<1>5. ASSUME harmless'
      PROVE  <<sent.kind, sent.payload>> \in Armored /\ Holds(Inked(wire'), armor)
  <2>1. <<sent.kind, sent.payload>> \in Armored /\ Holds(Inked(wire), armor)
    BY <1>1, <1>5 DEF TextInv
  <2>2. IsSequence(armor)
    BY <2>1, ArmorIsInk
  <2> HIDE DEF armor
  <2>3. ASSUME NEW other \in QuotePairs, Inked(wire) = Wrapped(other[1], armor, other[2])
        PROVE  FALSE
    <3>1. Inked(wire)[1] = other[1] /\ Len(Inked(wire)) = Len(armor) + 2 /\ Len(armor) \in Nat
      BY <2>2, <2>3, WrapShape, SequenceShape
    <3>2. wire \in Seq(ToSet(wire))
      <4>1. IsSequence(wire) /\ Range(wire) = {wire[k] : k \in 1..Len(wire)}
            /\ DOMAIN wire = 1..Len(wire)
        BY <1>2, SequenceOver, SequenceShape
      <4>2. Range(wire) \subseteq ToSet(wire)
        BY <4>1 DEF ToSet
      <4> QED
        BY <4>1, <4>2, SequenceIn
    <3>3. Inked(wire) \in Seq(ToSet(wire) \ {Space})
      BY <3>2, InkedIn
    <3>4. 1 \in 1..Len(Inked(wire))
      BY <3>1
    <3>5. other[1] \in ToSet(wire)
      BY <3>1, <3>3, <3>4, ElementOfSeq
    <3> QED
      BY <1>1, <1>5, <3>5, QuoteNumbers
  <2>4. Inked(wire) = armor
    BY <2>1, <2>3 DEF Holds
  <2>5. Inked(wire') = Wrapped(pair[1], armor, pair[2])
    BY <1>4, <2>4
  <2> QED
    BY <2>1, <2>5 DEF Holds
<1> QED
  BY <1>1, <1>4, <1>5 DEF TextInv

LEMMA DamageKeepsText ==
  ASSUME NEW damaged, Damage(damaged), sent.layer = "text" => damaged \in Seq(Symbols)
  PROVE  TextInv'
BY DEF Damage, TextInv

LEMMA TextInvIsInductive ==
  ASSUME TextInv, [Next]_vars
  PROVE  TextInv'
<1>1. ASSUME NEW format, NEW fields, SendBytes(format, fields) PROVE TextInv'
  <2>1. sent'.layer = "bytes"
    BY <1>1 DEF SendBytes, Send
  <2> QED
    BY <2>1 DEF TextInv
<1>2. ASSUME NEW a \in Armored, SendText(a[1], a[2]) PROVE TextInv'
  BY <1>2, SendTextKeeps
<1>3. ASSUME NEW values \in Absorbed, Hash(values) PROVE TextInv'
  <2>1. sent'.layer = "hash"
    BY <1>3 DEF Hash, Send
  <2> QED
    BY <2>1 DEF TextInv
<1>4. ASSUME NEW i \in 1..(Len(wire) + 1), Rewrap(i) PROVE TextInv'
  BY <1>4, RewrapKeeps
<1>5. ASSUME NEW pair \in QuotePairs, Quote(pair) PROVE TextInv'
  BY <1>5, QuoteKeeps
<1>6. ASSUME NEW i \in DOMAIN wire, Damage(RemoveAt(wire, i)) PROVE TextInv'
  <2>1. sent.layer = "text" => RemoveAt(wire, i) \in Seq(Symbols)
    <3> SUFFICES ASSUME sent.layer = "text" PROVE RemoveAt(wire, i) \in Seq(Symbols)
      OBVIOUS
    <3>1. wire \in Seq(Symbols) /\ i \in 1..Len(wire)
      BY LenProperties DEF TextInv
    <3>2. /\ SubSeq(wire, 1, i - 1) \in Seq(Symbols)
          /\ SubSeq(wire, i + 1, Len(wire)) \in Seq(Symbols)
      BY <3>1
    <3> QED
      BY <3>2 DEF RemoveAt
  <2> QED
    BY <1>6, <2>1, DamageKeepsText
<1>7. ASSUME NEW i \in DOMAIN wire, NEW char \in Alphabet, Damage([wire EXCEPT ![i] = char])
      PROVE  TextInv'
  <2>1. sent.layer = "text" => [wire EXCEPT ![i] = char] \in Seq(Symbols)
    <3> SUFFICES ASSUME sent.layer = "text" PROVE [wire EXCEPT ![i] = char] \in Seq(Symbols)
      OBVIOUS
    <3>1. wire \in Seq(Symbols) /\ i \in 1..Len(wire) /\ char \in Symbols
      BY LenProperties DEF TextInv, Alphabet
    <3> QED
      BY <3>1
  <2> QED
    BY <1>7, <2>1, DamageKeepsText
<1>8. ASSUME NEW i \in 1..(Len(wire) + 1), NEW char \in Alphabet, Damage(InsertAt(wire, i, char))
      PROVE  TextInv'
  <2>1. sent.layer = "text" => InsertAt(wire, i, char) \in Seq(Symbols)
    <3> SUFFICES ASSUME sent.layer = "text" PROVE InsertAt(wire, i, char) \in Seq(Symbols)
      OBVIOUS
    <3>1. wire \in Seq(Symbols) /\ char \in Symbols /\ Len(wire) \in Nat
      BY LenProperties DEF TextInv, Alphabet
    <3>2. /\ SubSeq(wire, 1, i - 1) \in Seq(Symbols) /\ <<char>> \in Seq(Symbols)
          /\ SubSeq(wire, i, Len(wire)) \in Seq(Symbols)
      BY <3>1
    <3> QED
      BY <3>2 DEF InsertAt
  <2> QED
    BY <1>8, <2>1, DamageKeepsText
<1>9. CASE UNCHANGED vars
  BY <1>9 DEF vars, TextInv
<1> QED
  BY <1>1, <1>2, <1>3, <1>4, <1>5, <1>6, <1>7, <1>8, <1>9 DEF Next

LEMMA RecoveredFromTextInv ==
  ASSUME TextInv
  PROVE  ArmorIsRecovered
<1> SUFFICES ASSUME sent.layer = "text" PROVE ArmorIsRecovered
  BY DEF ArmorIsRecovered
<1>1. /\ wire \in Seq(Symbols)
      /\ harmless => /\ <<sent.kind, sent.payload>> \in Armored
                     /\ Holds(Inked(wire), Armor(sent.kind, sent.payload))
  BY DEF TextInv
<1>2. Unarmor(wire) = Read(Inked(Stripped(wire)))
  BY <1>1, UnarmorReads
<1>3. harmless => Unarmor(wire) = [ok |-> TRUE, kind |-> sent.kind, payload |-> sent.payload]
  <2> SUFFICES ASSUME harmless
               PROVE  Unarmor(wire) = [ok |-> TRUE, kind |-> sent.kind, payload |-> sent.payload]
    OBVIOUS
  <2> DEFINE armor == Armor(sent.kind, sent.payload)
  <2>1. /\ IsSequence(armor) /\ Len(armor) > 0 /\ armor[1] = Prefix
        /\ Read(armor) = [ok |-> TRUE, kind |-> sent.kind, payload |-> sent.payload]
    BY <1>1, ArmorIsInk
  <2>2. Holds(Inked(wire), armor)
    BY <1>1
  <2> HIDE DEF armor
  <2>3. Inked(Stripped(wire)) = armor
    BY <1>1, <2>1, <2>2, StrippedOfArmor
  <2> QED
    BY <1>2, <2>1, <2>3
<1>4. ASSUME Unarmor(wire).ok
      PROVE  SameArmor(Inked(Stripped(wire)), Armor(Unarmor(wire).kind, Unarmor(wire).payload))
  <2>1. Stripped(wire) \in Seq(Symbols)
    BY <1>1, StrippedShape
  <2>2. Inked(Stripped(wire)) \in Seq(Symbols \ {Space})
    BY <2>1, InkedIn
  <2>3. Inked(Stripped(wire)) \in Seq(Symbols)
    BY <2>2, WiderSequences
  <2> QED
    BY <1>2, <1>4, <2>3, ReadSound
<1> QED
  BY <1>3, <1>4 DEF ArmorIsRecovered

(* Whitespace anywhere and one pair of quotes never lose an armored        *)
(* artifact (armor::decode strips what a client adds), and damaged text    *)
(* that decodes at all is the armor of what it decodes as, but for bits    *)
(* of its last character that no byte uses.                                *)
THEOREM ArmorIsRecoveredInvariant == Spec => []ArmorIsRecovered
<1>1. Init => TextInv
  BY DEF Init, Nothing, TextInv
<1>2. TextInv /\ [Next]_vars => TextInv'
  BY TextInvIsInductive
<1>3. TextInv => ArmorIsRecovered
  BY RecoveredFromTextInv
<1> QED
  BY <1>1, <1>2, <1>3, PTL DEF Spec

===============================================================================
