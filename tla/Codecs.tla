------------------------------- MODULE Codecs -------------------------------
(***************************************************************************)
(* The conversions of voyager/util in use: a writer encodes what it is     *)
(* given, the bytes may be torn (a reader sees a proper prefix), a reader  *)
(* decodes; and a checksum is kept over a stream that arrives in pieces.   *)
(***************************************************************************)
EXTENDS Integers, Sequences, SequencesExt

CONSTANTS
    Integers32, Integers64,  \* numbers, as the sets of their one-bits
    Slices,                  \* strings of bytes, a byte as such a set
    Pieces,                  \* likewise, the pieces a checksummed stream comes in
    Octets,                  \* strings of bytes, a byte as a number
    Values, Texts,           \* JSON values of strings, objects, non-empty arrays; JSON texts
    MaxPieces                \* bound on the pieces of a stream

C == INSTANCE Crc32c
B == INSTANCE Base64
J == INSTANCE Json
H == INSTANCE HttpParser

VARIABLES
    codec, given,  \* the conversion, and what is to be encoded
    phase,         \* "given", then "encoded", then "decoded"
    wire, torn,    \* the encoding, and whether its end is lost
    got            \* what the decoder answers

vars == <<codec, given, phase, wire, torn, got>>

Given ==
    [fixed32 |-> Integers32, varint32 |-> Integers32, fixed64 |-> Integers64,
     varint64 |-> Integers64, slice |-> Slices, base64 |-> Octets, json |-> Values,
     text |-> Texts, crc32c |-> {<<>>}, method |-> DOMAIN H!MethodNames,
     version |-> DOMAIN H!VersionNames]

Init ==
    /\ codec \in DOMAIN Given
    /\ given \in Given[codec]
    /\ phase = "given"
    /\ wire = <<>>
    /\ torn = FALSE
    /\ got = [ok |-> FALSE, value |-> {}]

Encode ==
    /\ codec # "crc32c"
    /\ phase = "given"
    /\ phase' = "encoded"
    /\ wire' = CASE codec = "fixed32" -> C!EncodeFixed(given, 4)
                 [] codec = "fixed64" -> C!EncodeFixed(given, 8)
                 [] codec = "varint32" -> C!EncodeVarint32(given)
                 [] codec = "varint64" -> C!EncodeVarint64(given)
                 [] codec = "slice" -> C!PutLengthPrefixedSlice(given)
                 [] codec = "base64" -> B!Base64Encode(given).value
                 [] codec = "json" -> J!Stringify(given)
                 [] codec = "method" -> H!MethodToString(given)
                 [] codec = "version" -> H!VersionToString(given)
                 [] codec = "text" -> given
    /\ UNCHANGED <<codec, given, torn, got>>

\* A file or a stream that ends early.  (A fixed length integer may only be read where
\* its bytes are known to be: DecodeFixed32 and DecodeFixed64 look at no bound.  An HTTP
\* method or version may be cut short: SetMethod and SetVersion take an abbreviation for
\* the first name it fits.)
Tear ==
    /\ codec \notin {"fixed32", "fixed64", "crc32c", "text", "method", "version"}
    /\ phase = "encoded" /\ ~torn
    /\ torn' = TRUE
    /\ \E n \in 0..(Len(wire) - 1) : wire' = SubSeq(wire, 1, n)
    /\ UNCHANGED <<codec, given, phase, got>>

Fixed(n) == [ok |-> TRUE, value |-> C!DecodeFixed(wire, n)]

Decode ==
    /\ codec # "crc32c"
    /\ phase = "encoded"
    /\ phase' = "decoded"
    /\ got' = CASE codec = "fixed32" -> Fixed(4)
                [] codec = "fixed64" -> Fixed(8)
                [] codec = "varint32" -> C!GetVarint32Ptr(wire)
                [] codec = "varint64" -> C!GetVarint(wire, 64)
                [] codec = "slice" -> C!GetLengthPrefixedSlice(wire)
                [] codec = "base64" -> B!Base64Decode(wire)
                [] codec = "method" -> H!SetMethod(wire)
                [] codec = "version" -> H!SetVersion(wire)
                [] codec \in {"json", "text"} -> J!Parse(wire)
    /\ UNCHANGED <<codec, given, wire, torn>>

\* The next piece lies at some address; given counts the pieces, wire is the
\* stream so far and got its checksum.
Checksum ==
    /\ codec = "crc32c"
    /\ Len(given) < MaxPieces
    /\ \E piece \in Pieces, pval \in 0..7, accelerated \in BOOLEAN :
          /\ given' = Append(given, Len(piece))
          /\ wire' = wire \o piece
          /\ got' = [ok |-> TRUE, value |-> IF accelerated THEN C!AcceleratedExtend(got.value, pval, piece)
                                            ELSE C!Extend(got.value, pval, piece)]
    /\ UNCHANGED <<codec, phase, torn>>

Next == Encode \/ Tear \/ Decode \/ Checksum

Spec == Init /\ [][Next]_vars

(***************************************************************************)
(* Properties                                                              *)
(***************************************************************************)
Decoded == codec # "text" /\ phase = "decoded"

\* What was encoded whole is decoded to the same value: fixed and variable
\* length integers of both widths at every boundary, length-prefixed slices,
\* base64 of every remainder, and JSON whose strings need every kind of escape.
\* So are HTTP methods and versions, which are told apart by comparing prefixes.
\* VarintLength says how long a varint is.
\* modp_b64_encode and modp_b64_decode write within the buffers Base64Encode
\* and Base64Decode size for them, the NUL and the whole words included.
RoundTrip ==
    /\ Decoded /\ ~torn => got.ok /\ got.value = given
    /\ codec \in {"varint32", "varint64"} /\ phase = "encoded" /\ ~torn =>
          Len(wire) = C!VarintLength(given)
    /\ codec = "base64" /\ phase = "decoded" =>
          /\ B!Base64Encode(given).used <= B!Base64Encode(given).room
          /\ got.used <= got.room

\* A torn encoding of an integer of variable length, a length-prefixed slice, base64 or
\* JSON is refused, never taken for a shorter value (coding.cc, modp_b64.cc, json.cc);
\* torn base64 may give the bytes of its whole groups.  (A bare JSON string is not claimed:
\* GetString takes an escaped quote at the end for the closing one.)
TornRefused ==
    Decoded /\ torn /\ got.ok =>
        \/ codec = "base64" /\ Len(wire) % 4 = 0 /\ IsPrefix(got.value, given)
        \/ codec = "json" /\ given.type = "string"

RECURSIVE Plain(_)
Plain(v) ==
    /\ v.type \in {"string", "array", "obj"}
    /\ \A i \in DOMAIN v.elems : Plain(v.elems[i])
    /\ \A p \in v.members : Plain(p[2])

\* Whatever text Parse accepts, writing its value gives a text that Parse reads
\* as that value, with one member per key, for values of strings, arrays and
\* objects (numbers are dropped, and booleans and null cannot be read back;
\* an empty array is refused when nothing follows it).
JsonStable ==
    codec = "text" /\ got.ok /\ Plain(got.value) /\ got.value # J!Array(<<>>) =>
        LET again == J!Parse(J!Stringify(got.value))
        IN  /\ again.ok /\ again.value = got.value
            /\ \A p, q \in got.value.members : p[1] = q[1] => p = q

\* The checksum of a stream does not depend on how it was cut, on where its
\* pieces lay, or on which implementation extended it: it is the remainder of
\* the whole stream; and a masked checksum is recovered.
ChecksumOfStream ==
    codec = "crc32c" =>
        /\ got.ok => got.value = C!Xor(C!CrcInstruction(C!Ones, wire), C!Ones)
        /\ C!Unmask(C!Mask(got.value)) = got.value
=============================================================================
