------------------------------ MODULE WireFormats ------------------------------
(***************************************************************************)
(* What travels between clients as bytes and as pasted text: the bundle,   *)
(* the invitation and the migration handoff (nymora-core), the text armor  *)
(* around an artifact (nymora-crypto/src/armor.rs), and the framing every  *)
(* byte hash absorbs its inputs under (nymora-crypto/src/hash.rs).  A      *)
(* sender encodes, the channel wraps or damages what it carries, and the   *)
(* receiver decodes whatever is there.                                     *)
(*                                                                         *)
(* Widths are constants: 32 for a digest, 8 for a length and a u64 in the  *)
(* code.  In armor a byte has 4 bits and a character 3, so that three      *)
(* bytes are four characters as they are with 8 and 6.  An encoder's and   *)
(* a decoder's caller always offers a buffer that is long enough.          *)
(***************************************************************************)
EXTENDS Integers, SequencesExt

CONSTANTS
  Radix,         \* a byte is 0..(Radix - 1)
  DigestLen,     \* DIGEST_LEN
  LengthPrefix,  \* LENGTH_PREFIX: bytes of a length
  U64Len,        \* bytes of a u64 field
  USizeMax,      \* usize::MAX on the decoding host
  NotUtf8,       \* the byte strings that are not UTF-8
  Bundles, Invitations, Handoffs,  \* what is sent: the fields in order
  ByteSize,      \* armor: 256 in the code
  CharSize,      \* armor: the characters of the alphabet, 64 in the code
  CheckLen,      \* CHECK_LEN: bytes of an armor's checksum
  Digest(_),     \* the first of a list of byte strings' hash, CheckLen of them
  Armored,       \* pairs of a kind and a payload
  Absorbed,      \* sequences of byte strings a hash absorbs, the domain tag first
  MaxEdits       \* bound: what the channel does to one artifact

VARIABLES
  sent,      \* the artifact: its layer and its content
  wire,      \* what the channel carries
  harmless,  \* the channel has only wrapped it as clients do
  edits
vars == <<sent, wire, harmless, edits>>

Malformed == [ok |-> FALSE]

-------------------------------------------------------------------------------
(* Fields.                                                                 *)

Bytes == 0..(Radix - 1)

\* to_le_bytes and from_le_bytes: the lowest digit first.
LE(n, width) ==
  LET left[i \in 0..width] == IF i = 0 THEN n ELSE left[i - 1] \div Radix
  IN [i \in 1..width |-> left[i - 1] % Radix]

Number(bytes) ==
  LET value[i \in 0..Len(bytes)] ==
        IF i = 0 THEN 0 ELSE value[i - 1] * Radix + bytes[Len(bytes) - i + 1]
  IN value[Len(bytes)]

Framed(body) == LE(Len(body), LengthPrefix) \o body

\* A version is a byte, and a length prefix holds every length the host has.
ASSUME WidthAssumption ==
  /\ Radix \in Nat /\ Radix > 2
  /\ DigestLen \in Nat /\ U64Len \in Nat /\ LengthPrefix \in Nat /\ LengthPrefix > 0
  /\ USizeMax \in Nat
  /\ \E digits \in [1..LengthPrefix -> Bytes] : USizeMax <= Number(digits)

Take(rest, n) ==
  IF n > Len(rest) THEN Malformed
  ELSE [ok |-> TRUE, value |-> SubSeq(rest, 1, n), rest |-> SubSeq(rest, n + 1, Len(rest))]

TakeDigest(rest) == Take(rest, DigestLen)

TakeU64(rest) == Take(rest, U64Len)

\* Faulty: the declared length is cast to usize, not converted.
FaultyTakeFramed(rest) ==
  LET prefix == Take(rest, LengthPrefix)
  IN IF ~prefix.ok THEN Malformed ELSE Take(prefix.rest, Number(prefix.value) % (USizeMax + 1))

TakeFramed(rest) ==
  LET prefix == Take(rest, LengthPrefix)
  IN IF ~prefix.ok \/ Number(prefix.value) > USizeMax THEN Malformed
     ELSE Take(prefix.rest, Number(prefix.value))

-------------------------------------------------------------------------------
(* The three formats: a version byte, then the fields.                     *)

FormatVersion     == 1
InvitationVersion == 1
HandoffVersion    == 2

BundleFields     == <<"framed", "digest", "framed", "digest", "digest">>
InvitationFields == <<"digest", "digest", "digest", "digest", "digest",
                      "u64", "u64", "u64", "framed">>
HandoffFields    == <<"digest", "digest", "digest", "framed", "framed", "framed">>

Version(format) ==
  CASE format = "bundle"     -> FormatVersion
    [] format = "invitation" -> InvitationVersion
    [] format = "handoff"    -> HandoffVersion

Layout(format) ==
  CASE format = "bundle"     -> BundleFields
    [] format = "invitation" -> InvitationFields
    [] format = "handoff"    -> HandoffFields

\* put: the framed fields carry their length.
Put(kind, value) == IF kind = "framed" THEN Framed(value) ELSE value

Encode(format, fields) ==
  <<Version(format)>> \o
    FlattenSeq([i \in DOMAIN fields |-> Put(Layout(format)[i], fields[i])])

TakeField(kind, rest) ==
  CASE kind = "digest" -> TakeDigest(rest)
    [] kind = "u64"    -> TakeU64(rest)
    [] kind = "framed" -> TakeFramed(rest)

\* The fields read so far and the next one, or nothing at all.
Extended(read, kind) ==
  LET field == IF read.ok THEN TakeField(kind, read.rest) ELSE Malformed
  IN IF field.ok THEN [ok |-> TRUE, value |-> Append(read.value, field.value), rest |-> field.rest]
     ELSE Malformed

TakeFields(format, bytes) ==
  LET read[i \in 0..Len(Layout(format))] ==
        IF i = 0 THEN [ok |-> TRUE, value |-> << >>, rest |-> bytes]
        ELSE Extended(read[i - 1], Layout(format)[i])
  IN read[Len(Layout(format))]

\* The fetch key's window is not empty, and the address is UTF-8.
InvitationHolds(fields) == Number(fields[8]) >= Number(fields[6]) /\ fields[9] \notin NotUtf8

\* What a sender can name: a byte string per field, as long as its kind has it.
Fits(kind, value) ==
  CASE kind = "digest" -> Len(value) = DigestLen
    [] kind = "u64"    -> Len(value) = U64Len
    [] kind = "framed" -> Len(value) <= USizeMax

Sendable(format, fields) ==
  /\ fields \in Seq(Seq(Bytes)) /\ Len(fields) = Len(Layout(format))
  /\ \A i \in DOMAIN fields : Fits(Layout(format)[i], fields[i])
  /\ format = "invitation" => InvitationHolds(fields)

ASSUME ArtifactAssumption ==
  /\ \A b \in Bundles : Sendable("bundle", b)
  /\ \A b \in Invitations : Sendable("invitation", b)
  /\ \A b \in Handoffs : Sendable("handoff", b)
  /\ \A values \in Absorbed :
       values \in Seq(Seq(Bytes)) /\ \A i \in DOMAIN values : Fits("framed", values[i])

\* Faulty: trailing bytes are ignored.
FaultyDecode(format, bytes) ==
  LET read == IF bytes = << >> \/ Head(bytes) # Version(format) THEN Malformed
              ELSE TakeFields(format, Tail(bytes))
  IN IF ~read.ok \/ (format = "invitation" /\ ~InvitationHolds(read.value)) THEN Malformed
     ELSE [ok |-> TRUE, value |-> read.value]

Decode(format, bytes) ==
  LET read == IF bytes = << >> \/ Head(bytes) # Version(format) THEN Malformed
              ELSE TakeFields(format, Tail(bytes))
  IN IF \/ ~read.ok \/ read.rest # << >>
        \/ format = "invitation" /\ ~InvitationHolds(read.value)
     THEN Malformed
     ELSE [ok |-> TRUE, value |-> read.value]

-------------------------------------------------------------------------------
(* Byte hashes: the preimage a hasher absorbs, the domain tag first.       *)

\* Faulty: values are concatenated bare.
FaultyPreimage(values) == FlattenSeq(values)
Preimage(values) == FlattenSeq([i \in DOMAIN values |-> Framed(values[i])])

-------------------------------------------------------------------------------
(* The text armor.  A character is its value in the alphabet, or one of    *)
(* the symbols below; the prefix "nymora1" is one symbol.                  *)

Space      == CharSize
Straight   == CharSize + 1
OpenQuote  == CharSize + 2
CloseQuote == CharSize + 3
Other      == CharSize + 4
Prefix     == CharSize + 5
Symbols    == 0..Prefix

Kinds  == 1..8
Octets == 0..(ByteSize - 1)

\* The framed prefix, kind and payload; the prefix is the same in all of them.
Check(kind, payload) == Digest(<<<<kind>>, payload>>)

\* A character is three quarters of a byte, and a kind is a byte.
ASSUME ArmorAssumption ==
  /\ ByteSize \in Nat
  /\ \E d \in 2..ByteSize : CharSize = d * d * d /\ ByteSize = CharSize * d
  /\ CheckLen \in Nat
  /\ Armored \subseteq Kinds \X Seq(Octets)
  /\ \A a \in Armored : Check(a[1], a[2]) \in [1..CheckLen -> Octets]

GroupsOf(s, n) ==
  [g \in 1..((Len(s) + n - 1) \div n) |->
     SubSeq(s, n * (g - 1) + 1, IF n * g < Len(s) THEN n * g ELSE Len(s))]

\* A group's bits, most significant first, missing digits zero.
Digit(group, i) == IF i <= Len(group) THEN group[i] ELSE 0

BitsOfBytes(bytes) ==
  (Digit(bytes, 1) * ByteSize + Digit(bytes, 2)) * ByteSize + Digit(bytes, 3)

BitsOfChars(chars) ==
  ((Digit(chars, 1) * CharSize + Digit(chars, 2)) * CharSize
      + Digit(chars, 3)) * CharSize + Digit(chars, 4)

EncodeGroup(bytes) ==
  LET low  == BitsOfBytes(bytes)
      mid  == low \div CharSize
      high == mid \div CharSize
  IN SubSeq(<<(high \div CharSize) % CharSize, high % CharSize, mid % CharSize, low % CharSize>>,
            1, Len(bytes) + 1)

DecodeGroup(chars) ==
  LET low == BitsOfChars(chars)
      mid == low \div ByteSize
  IN SubSeq(<<(mid \div ByteSize) % ByteSize, mid % ByteSize, low % ByteSize>>, 1, Len(chars) - 1)

Armor(kind, payload) ==
  LET groups == GroupsOf(<<kind>> \o payload \o Check(kind, payload), 3)
  IN <<Prefix>> \o FlattenSeq([g \in DOMAIN groups |-> EncodeGroup(groups[g])])

IsSpace(char) == char = Space
Sextet(char)  == char < CharSize

TrimWhitespace(text) ==
  LET inked == {i \in DOMAIN text : ~IsSpace(text[i])}
  IN IF inked = {} THEN << >> ELSE SubSeq(text, Min(inked), Max(inked))

QuotePairs == {<<Straight, Straight>>, <<OpenQuote, CloseQuote>>}

Unquote(text) ==
  IF Len(text) >= 2 /\ <<Head(text), Last(text)>> \in QuotePairs
  THEN SubSeq(text, 2, Len(text) - 1) ELSE text

Inked(text) == FlattenSeq([i \in DOMAIN text |-> IF IsSpace(text[i]) THEN << >> ELSE <<text[i]>>])

\* Faulty: a checksum that is not there is not missed.
FaultyOpened(bytes) ==
  LET payload == SubSeq(bytes, 2, Len(bytes) - CheckLen)
  IN IF Len(bytes) < 1 + CheckLen \/ bytes[1] \notin Kinds THEN Malformed
     ELSE [ok |-> TRUE, kind |-> bytes[1], payload |-> payload]

\* kind, payload and check, once decoded.
Opened(bytes) ==
  LET payload == SubSeq(bytes, 2, Len(bytes) - CheckLen)
  IN IF \/ Len(bytes) < 1 + CheckLen \/ bytes[1] \notin Kinds
        \/ SubSeq(bytes, Len(bytes) - CheckLen + 1, Len(bytes)) # Check(bytes[1], payload)
     THEN Malformed
     ELSE [ok |-> TRUE, kind |-> bytes[1], payload |-> payload]

\* Faulty: only the ends are stripped of whitespace, the first quote before it.
FaultyStripped(text) == TrimWhitespace(Unquote(text))
Stripped(text) == TrimWhitespace(Unquote(TrimWhitespace(text)))

Unarmor(text) ==
  LET inner == Stripped(text)
      chars == Inked(Tail(inner))
      groups == GroupsOf(chars, 4)
  IN IF \/ inner = << >> \/ Head(inner) # Prefix
        \/ \E i \in DOMAIN chars : ~Sextet(chars[i])
        \/ Len(chars) % 4 = 1
     THEN Malformed
     ELSE Opened(FlattenSeq([g \in DOMAIN groups |-> DecodeGroup(groups[g])]))

-------------------------------------------------------------------------------
(* The channel.                                                            *)

Nothing == [layer |-> "none"]

Init == sent = Nothing /\ wire = << >> /\ harmless = TRUE /\ edits = 0

Send(artifact, encoding) ==
  /\ sent = Nothing
  /\ sent' = artifact /\ wire' = encoding
  /\ UNCHANGED <<harmless, edits>>

SendBytes(format, fields) ==
  Send([layer |-> "bytes", format |-> format, fields |-> fields], Encode(format, fields))

SendText(kind, payload) ==
  Send([layer |-> "text", kind |-> kind, payload |-> payload], Armor(kind, payload))

Hash(values) == Send([layer |-> "hash", values |-> values], Preimage(values))

\* What a client does to text it passes on.
Rewrap(i) ==
  /\ sent.layer = "text" /\ edits < MaxEdits
  /\ wire' = InsertAt(wire, i, Space)
  /\ edits' = edits + 1
  /\ UNCHANGED <<sent, harmless>>

Quote(pair) ==
  /\ sent.layer = "text" /\ edits < MaxEdits
  /\ wire' = <<pair[1]>> \o wire \o <<pair[2]>>
  /\ harmless' = (harmless /\ ToSet(wire) \cap {Straight, OpenQuote} = {})
  /\ edits' = edits + 1
  /\ UNCHANGED sent

Alphabet == IF sent.layer = "text" THEN Symbols ELSE Bytes

Damage(damaged) ==
  /\ sent.layer \in {"bytes", "text"} /\ edits < MaxEdits
  /\ wire' = damaged
  /\ harmless' = FALSE /\ edits' = edits + 1
  /\ UNCHANGED sent

Next ==
  \/ \E b \in Bundles : SendBytes("bundle", b)
  \/ \E b \in Invitations : SendBytes("invitation", b)
  \/ \E b \in Handoffs : SendBytes("handoff", b)
  \/ \E a \in Armored : SendText(a[1], a[2])
  \/ \E values \in Absorbed : Hash(values)
  \/ \E i \in 1..(Len(wire) + 1) : Rewrap(i)
  \/ \E pair \in QuotePairs : Quote(pair)
  \/ \E i \in DOMAIN wire : Damage(RemoveAt(wire, i))
  \/ \E i \in DOMAIN wire, char \in Alphabet : Damage([wire EXCEPT ![i] = char])
  \/ \E i \in 1..(Len(wire) + 1), char \in Alphabet : Damage(InsertAt(wire, i, char))

Spec == Init /\ [][Next]_vars

-------------------------------------------------------------------------------
(* Properties.                                                             *)

(* The property each decoder's module states: every accepted encoding      *)
(* re-encodes to itself, byte for byte, whatever reached the decoder and   *)
(* however narrow its usize; and what was sent undamaged is what is read.  *)
(* Likewise a hash's preimage belongs to one domain and one list of        *)
(* values: no boundary between two of them can be moved.                   *)
EncodingsAreCanonical ==
  /\ sent.layer = "bytes" =>
       /\ \A format \in {"bundle", "invitation", "handoff"} :
            LET read == Decode(format, wire) IN read.ok => Encode(format, read.value) = wire
       /\ harmless => Decode(sent.format, wire) = [ok |-> TRUE, value |-> sent.fields]
  /\ sent.layer = "hash" =>
       \A values \in Absorbed : Preimage(values) = wire => values = sent.values

(* Wrapping and one pair of quotes never lose an armored artifact, and     *)
(* text that is accepted is the armor of what it is read as, character by  *)
(* character, but for the bits of the last character no byte uses.         *)
SpareValues(chars) == CASE chars % 4 = 2 -> (CharSize * CharSize) \div ByteSize
                        [] chars % 4 = 3 -> (CharSize * CharSize * CharSize) \div (ByteSize * ByteSize)
                        [] OTHER         -> 1

SameArmor(text, armor) ==
  LET spare == SpareValues(Len(armor) - 1)
  IN /\ Len(text) = Len(armor) /\ Front(text) = Front(armor)
     /\ Last(text) \div spare = Last(armor) \div spare

ArmorIsRecovered ==
  sent.layer = "text" =>
    LET read == Unarmor(wire)
    IN /\ harmless => read = [ok |-> TRUE, kind |-> sent.kind, payload |-> sent.payload]
       /\ read.ok => SameArmor(Inked(Stripped(wire)), Armor(read.kind, read.payload))
===============================================================================
