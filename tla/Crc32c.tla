------------------------------- MODULE Crc32c -------------------------------
(***************************************************************************)
(* util/crc32c.cc and crc32c.h.  A 32-bit word is the set of its one-bits  *)
(* (module Coding), so exclusive or is the symmetric difference.           *)
(***************************************************************************)
EXTENDS Coding

Xor(a, b) == (a \ b) \cup (b \ a)
Ones == 0..31

\* n bits of division by the (reflected) Castagnoli polynomial, 0x82f63b78.
Poly == {3, 4, 5, 6, 8, 9, 11, 12, 13, 17, 18, 20, 21, 22, 23, 25, 31}
RECURSIVE Divided(_, _)
Divided(l, n) ==
    IF n = 0 THEN l
    ELSE IF 0 \in l THEN Divided(Xor(Shr(l, 1), Poly), n - 1)
    ELSE Divided(Shr(l, 1), n - 1)

\* table0_ is the remainder of each byte; each further table is the one before
\* moved on by one zero byte.
table0_ == [c \in SUBSET (0..7) |-> Divided(c, 8)]
NextTable(t) == [c \in SUBSET (0..7) |-> Xor(table0_[Low(t[c], 8)], Shr(t[c], 8))]
table1_ == NextTable(table0_)
table2_ == NextTable(table1_)
table3_ == NextTable(table2_)

\* A step taken for each byte of a string in turn.
Over(Step(_, _), l, s) ==
    LET r[k \in 0..Len(s)] == IF k = 0 THEN l ELSE Step(r[k - 1], s[k]) IN r[Len(s)]

STEP1(l, byte) == Xor(table0_[Xor(Low(l, 8), byte)], Shr(l, 8))

\* A mutant: the tables are used in the order of the bytes.
STEP4Swapped(l, s) ==
    LET c == EncodeFixed(Xor(l, DecodeFixed(s, 4)), 4)
    IN  Xor(Xor(table0_[c[1]], table1_[c[2]]), Xor(table2_[c[3]], table3_[c[4]]))

STEP4(l, s) ==
    LET c == EncodeFixed(Xor(l, DecodeFixed(s, 4)), 4)
    IN  Xor(Xor(table3_[c[1]], table2_[c[2]]), Xor(table1_[c[3]], table0_[c[4]]))

Bytewise(l, s) == Over(STEP1, l, s)

RECURSIVE Wordwise(_, _)
Wordwise(l, s) ==
    IF Len(s) < 4 THEN Bytewise(l, s)
    ELSE Wordwise(STEP4(l, SubSeq(s, 1, 4)), SubSeq(s, 5, Len(s)))

\* The bytes before the first address that is a multiple of n, unless the
\* string ends before it (x <= e).
Lead(pval, s, n) ==
    LET k == (-pval) % n IN IF k <= Len(s) THEN k ELSE 0

\* Extend: single bytes up to a 4-byte boundary, words (the loop of sixteen
\* bytes is four of them), single bytes again.
Extend(crc, pval, s) ==
    LET k == Lead(pval, s, 4)
    IN  Xor(Wordwise(Bytewise(Xor(crc, Ones), SubSeq(s, 1, k)),
                     SubSeq(s, k + 1, Len(s))), Ones)

\* The SSE4.2 instructions divide 8 bits, or 64.
CrcInstruction(l, s) == Over(LAMBDA m, byte : Divided(Xor(m, byte), 8), l, s)

RECURSIVE Accelerated(_, _)
Accelerated(l, s) ==
    IF Len(s) >= 16
    THEN Accelerated(CrcInstruction(CrcInstruction(l, SubSeq(s, 1, 8)), SubSeq(s, 9, 16)),
                     SubSeq(s, 17, Len(s)))
    ELSE CrcInstruction(l, s)

AcceleratedExtend(crc, pval, s) ==
    LET k == Lead(pval, s, 8)
        l == CrcInstruction(Xor(crc, Ones), SubSeq(s, 1, k))
    IN  Xor(Accelerated(l, SubSeq(s, k + 1, Len(s))), Ones)

\* Addition modulo 2^32 with a carry, and its inverse.
Carry(a, b, in) ==
    LET c[i \in 0..32] == IF i = 0 THEN in
                          ELSE LET n == {x \in {1, 2, 3} : \/ x = 1 /\ (i - 1) \in a
                                                           \/ x = 2 /\ (i - 1) \in b
                                                           \/ x = 3 /\ c[i - 1]}
                               IN Cardinality(n) >= 2
    IN  {i \in Ones : c[i]}
Plus(a, b) == Xor(Xor(a, b), Carry(a, b, FALSE))
Minus(a, b) == Low(Xor(Xor(a, Ones \ b), Carry(a, Ones \ b, TRUE)), 32)

kMaskDelta == {3, 4, 6, 7, 9, 11, 13, 14, 15, 17, 23, 25, 29, 31}
RotateRight(v, n) == Shr(v, n) \cup Shl(v, 32 - n, 32)

Mask(crc) == Plus(RotateRight(crc, 15), kMaskDelta)
Unmask(masked) == RotateRight(Minus(masked, kMaskDelta), 17)
=============================================================================
