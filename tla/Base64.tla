------------------------------- MODULE Base64 -------------------------------
(***************************************************************************)
(* util/base64: Base64Encode, Base64Decode and the modp_b64 routines under *)
(* them.  A byte is a number in 0..255; an encoded character is its index  *)
(* in the alphabet of modp_b64_data.h, 0..63, or CHARPAD, or any character *)
(* outside the alphabet, BADCHAR.                                          *)
(***************************************************************************)
EXTENDS Integers, Sequences, SequencesExt

CHARPAD == 64
BADCHAR == 65
Alphabet == 0..63

modp_b64_encode_len(n) == ((n + 2) \div 3) * 4 + 1
modp_b64_decode_len(n) == (n \div 4) * 3 + 2

\* e0 is indexed by the byte and holds the character of its high six bits;
\* e1 and e2 hold the character of the low six bits.
e0(t) == t \div 4
e1(t) == t % 64

\* One round of the loop, and the two cases of a remainder.
EncodeGroup(s) ==
    LET t1 == s[1]
        t2 == IF Len(s) > 1 THEN s[2] ELSE 0
        t3 == IF Len(s) > 2 THEN s[3] ELSE 0
    IN  <<e0(t1), e1((t1 % 4) * 16 + t2 \div 16),
          IF Len(s) > 1 THEN e1((t2 % 16) * 4 + t3 \div 64) ELSE CHARPAD,
          IF Len(s) > 2 THEN e1(t3) ELSE CHARPAD>>

RECURSIVE modp_b64_encode(_)
modp_b64_encode(s) ==
    IF s = <<>> THEN <<>>
    ELSE EncodeGroup(SubSeq(s, 1, Min({3, Len(s)})))
           \o modp_b64_encode(SubSeq(s, 4, Len(s)))

\* Base64Encode: x is encode_len bytes, of which the text and its NUL are
\* written and the text is kept.
Base64Encode(s) ==
    [ok |-> TRUE, value |-> modp_b64_encode(s), used |-> Len(modp_b64_encode(s)) + 1,
     room |-> modp_b64_encode_len(Len(s))]

\* At most two pad characters at the end are dropped.
Stripped(s) ==
    CASE Last(s) # CHARPAD -> s
      [] Last(s) = CHARPAD /\ Last(Front(s)) # CHARPAD -> Front(s)
      [] OTHER -> Front(Front(s))

\* d0 | d1 | d2 | d3: the whole bytes of a group of up to four characters.
DecodeGroup(g) ==
    LET c(k) == IF k <= Len(g) THEN g[k] ELSE 0
    IN  SubSeq(<<c(1) * 4 + c(2) \div 16, (c(2) % 16) * 16 + c(3) \div 4, (c(3) % 4) * 64 + c(4)>>,
               1, (6 * Len(g)) \div 8)

Rejected == [ok |-> FALSE, value |-> <<>>, used |-> 0]

\* The groups of four, the last of which may be two or three characters.
GroupsOf(s) ==
    [i \in 1..((Len(s) + 3) \div 4) |-> SubSeq(s, 4 * i - 3, Min({4 * i, Len(s)}))]

\* Every group but the last is stored as a word of four bytes, three of which count.
modp_b64_decode(s) ==
    IF s = <<>> THEN [ok |-> TRUE, value |-> <<>>, used |-> 0]
    ELSE IF Len(s) < 4 \/ Len(s) % 4 # 0 \/ Range(Stripped(s)) \ Alphabet # {} THEN Rejected
    ELSE LET groups == GroupsOf(Stripped(s))
             out    == FlattenSeq([i \in DOMAIN groups |-> DecodeGroup(groups[i])])
         IN  [ok    |-> TRUE,
              value |-> out,
              used  |-> Max({Len(out)} \cup {3 * i + 1 : i \in 1..(Len(groups) - 1)})]

\* Base64Decode, with the buffer it gives to modp_b64_decode.
Base64Decode(s) == [room |-> modp_b64_decode_len(Len(s))] @@ modp_b64_decode(s)
=============================================================================
