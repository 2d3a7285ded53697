----------------------------- MODULE MCWireFormats -----------------------------
(* Three byte values and lengths of two bytes, so that 0 to 8 can be       *)
(* declared, on a host whose usize ends at 2.  Digests are opaque.         *)
EXTENDS WireFormats

Strings(n)   == UNION {[1..k -> 0..1] : k \in 0..n}
D            == <<1>>
MCNotUtf8    == {<<1, 1>>}
MCBundles    == {<<c, D, p, D, D>> : c \in Strings(2), p \in Strings(1)}
MCInvitations == {i \in {<<D, D, D, D, D, <<e>>, <<1>>, <<v>>, s>> :
                           e \in 0..1, v \in 0..1, s \in Strings(2)} : InvitationHolds(i)}
MCHandoffs   == {<<D, D, D, <<1>>, c, r>> : c \in Strings(2), r \in Strings(1)}
MCDigest(values) ==
  <<FoldLeftDomain(LAMBDA sum, i : sum + (i + 1) * values[2][i], values[1][1], values[2]) % ByteSize>>
MCArmored    == {1, 8} \X {<< >>, <<5>>, <<0, 15>>, <<1, 2, 3>>}
MCAbsorbed   == UNION {[1..k -> Strings(2)] : k \in 1..3}
===============================================================================
