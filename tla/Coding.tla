------------------------------- MODULE Coding -------------------------------
(***************************************************************************)
(* util/coding.cc: the integer encodings.  An unsigned integer is the set  *)
(* of its one-bits, so that 32- and 64-bit values keep their exact width;  *)
(* a byte is such a set within 0..7 and a string a sequence of bytes.      *)
(***************************************************************************)
EXTENDS Integers, Sequences, SequencesExt

Low(v, n) == v \cap (0..n-1)
Shr(v, n) == {b - n : b \in {c \in v : c >= n}}
Shl(v, n, w) == {b + n : b \in v} \cap (0..w-1)

\* A string's size() as an integer, and back; sizes are below 2^16 here.
BitsOf(n) == {b \in 0..15 : (n \div 2^b) % 2 = 1}
NatOf(v) == FoldSet(LAMBDA b, n : n + 2^b, 0, v)

\* EncodeFixed32/64 (n = 4, 8): memcpy on a little-endian machine and the
\* shifts on a big-endian one store the same bytes.
EncodeFixed(v, n) == [k \in 1..n |-> Low(Shr(v, 8 * (k - 1)), 8)]
DecodeFixed(s, n) == UNION {Shl(s[k], 8 * (k - 1), 8 * n) : k \in 1..n}

\* The shift of the k-th group of a varint.
GroupShift(k) == 7 * (k - 1)

\* EncodeVarint32: the first of 2^7, 2^14, 2^21, 2^28 above v gives the length.
EncodeVarint32(v) ==
    LET len == Min({k \in 1..4 : v \subseteq 0..(7 * k - 1)} \cup {5})
    IN  [k \in 1..len |-> Low(Shr(v, GroupShift(k)), 8)
                            \cup (IF k < len THEN {7} ELSE {})]

RECURSIVE EncodeVarint64(_)
EncodeVarint64(v) ==
    IF v \subseteq 0..6 THEN <<v>>
    ELSE <<Low(v, 7) \cup {7}>> \o EncodeVarint64(Shr(v, 7))

RECURSIVE VarintLength(_)
VarintLength(v) == IF v \subseteq 0..6 THEN 1 ELSE 1 + VarintLength(Shr(v, 7))

\* A mutant: the decoder stops one group early.
GroupsOneShort(w) == w \div 7

\* shift <= 28 and shift <= 63: as many groups as w bits need.
Groups(w) == (w + 6) \div 7

\* A mutant: the end of the input ends a number.
StopsAtEnd(s, w) == {k \in 1..Min({Len(s), Groups(w)}) : 7 \notin s[k] \/ k = Len(s)}

\* The bytes without the high bit among those the loop may read.
Stops(s, w) == {k \in 1..Min({Len(s), Groups(w)}) : 7 \notin s[k]}

\* GetVarint32PtrFallback and GetVarint64: the groups up to the first byte
\* without the high bit, cut to w bits; or a failure.
GetVarint(s, w) ==
    LET stops == Stops(s, w)
    IN  IF stops = {} THEN [ok |-> FALSE, value |-> {}, rest |-> s]
        ELSE [ok    |-> TRUE,
              value |-> UNION {Shl(Low(s[k], 7), GroupShift(k), w) : k \in 1..Min(stops)},
              rest  |-> SubSeq(s, Min(stops) + 1, Len(s))]

\* GetVarint32, which takes a number of one byte by a path of its own.
GetVarint32Ptr(s) ==
    IF s # <<>> /\ 7 \notin s[1] THEN [ok |-> TRUE, value |-> s[1], rest |-> Tail(s)]
    ELSE GetVarint(s, 32)

PutLengthPrefixedSlice(s) == EncodeVarint32(BitsOf(Len(s))) \o s

\* The slice, and what is left of the input; a failure keeps what was left after
\* the length.
GetLengthPrefixedSlice(s) ==
    LET r == GetVarint32Ptr(s)
        n == NatOf(r.value)
    IN  IF r.ok /\ n <= Len(r.rest)
        THEN [ok |-> TRUE, value |-> SubSeq(r.rest, 1, n), rest |-> SubSeq(r.rest, n + 1, Len(r.rest))]
        ELSE [ok |-> FALSE, value |-> <<>>, rest |-> r.rest]
=============================================================================
