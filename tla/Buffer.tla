------------------------------- MODULE Buffer -------------------------------
(***************************************************************************)
(* voyager/core/buffer.h and buffer.cc: a byte queue in a vector with two  *)
(* indices.  Positions are the code's, from 0; buf_[i] in the code is      *)
(* buf_[i + 1] here.  Bytes are named 1, 2, 3, ... in the order in which   *)
(* they arrive; 0 is what a vector holds where nothing was written.        *)
(***************************************************************************)
EXTENDS Naturals, Sequences

CONSTANTS
    InitSize,     \* kInitBufferSize
    BackupSize,   \* kBackupBufferSize
    MaxAppend,    \* bound: bytes in one Append
    MaxBytes      \* bound: bytes put in in a behaviour

ASSUME SizesAssumption ==
    /\ InitSize \in Nat /\ BackupSize \in Nat \ {0}
    /\ MaxAppend \in Nat /\ MaxBytes \in Nat

VARIABLES
    buf_, read_index_, write_index_,
    taken,   \* history: the bytes handed out, in order
    count,   \* bytes put in so far
    peak     \* history: the most bytes that were readable at a time

bufferVars == <<buf_, read_index_, write_index_, taken, count, peak>>

\* The indices stay in order and inside the vector, which is what keeps the
\* unsigned ReadableSize() and WritableSize() from wrapping around.
BufferTypeOK ==
    /\ buf_ \in Seq(0..MaxBytes)
    /\ write_index_ \in 0..Len(buf_)
    /\ read_index_ \in 0..write_index_
    /\ taken \in Seq(0..MaxBytes)
    /\ count \in 0..MaxBytes
    /\ peak \in Nat

Zeros(n) == [i \in 1..n |-> 0]

BufferInit ==
    /\ buf_ = Zeros(InitSize)
    /\ read_index_ = 0
    /\ write_index_ = 0
    /\ taken = <<>>
    /\ count = 0
    /\ peak = 0

ReadableSize == write_index_ - read_index_
WritableSize == Len(buf_) - write_index_

\* The next k bytes to arrive.
Fresh(k) == [i \in 1..k |-> count + i]

\* buf with data copied to position at; there is room for it.
Overwrite(buf, at, data) ==
    [i \in 1..Len(buf) |-> IF i > at /\ i <= at + Len(data) THEN data[i - at] ELSE buf[i]]

\* vector::resize to a larger size.
Resize(buf, size) == [i \in 1..size |-> IF i <= Len(buf) THEN buf[i] ELSE 0]

MakeSpaceNoMove(buf, r, w, size) ==
    IF Len(buf) - w + r < size
    THEN [buf |-> Resize(buf, w + size), r |-> r, w |-> w]
    ELSE [buf |-> buf, r |-> 0, w |-> w - r]

MakeSpaceNoReuse(buf, r, w, size) ==
    [buf |-> Resize(buf, w + size), r |-> r, w |-> w]

\* MakeSpace: grow behind the data, or move the data to the front.
MakeSpace(buf, r, w, size) ==
    IF Len(buf) - w + r < size
    THEN [buf |-> Resize(buf, w + size), r |-> r, w |-> w]
    ELSE [buf |-> Overwrite(buf, 0, SubSeq(buf, r + 1, w)), r |-> 0, w |-> w - r]

\* Append of data to a buffer in the given state.
AppendTo(buf, r, w, data) ==
    LET s == IF Len(buf) - w < Len(data)
             THEN MakeSpace(buf, r, w, Len(data))
             ELSE [buf |-> buf, r |-> r, w |-> w]
    IN  [buf |-> Overwrite(s.buf, s.w, data), r |-> s.r, w |-> s.w + Len(data)]

\* k bytes have arrived and the buffer is now in state s.
Becomes(s, k) ==
    /\ buf_' = s.buf
    /\ read_index_' = s.r
    /\ write_index_' = s.w
    /\ count' = count + k
    /\ peak' = IF s.w - s.r > peak THEN s.w - s.r ELSE peak
    /\ UNCHANGED taken

Append_(k) ==
    /\ count + k <= MaxBytes
    /\ Becomes(AppendTo(buf_, read_index_, write_index_, Fresh(k)), k)

\* ReadV: readv() puts n bytes behind the data and what does not fit there
\* into the backup buffer, if that is in use; the rest is appended.
ReadV(n) ==
    LET writable == WritableSize IN
    /\ count + n <= MaxBytes
    /\ n <= IF writable < BackupSize THEN writable + BackupSize ELSE writable
    /\ LET fill == IF n <= writable THEN n ELSE writable
           data == Fresh(n)
           filled == Overwrite(buf_, write_index_, SubSeq(data, 1, fill))
       IN  IF n <= writable
           THEN Becomes([buf |-> filled, r |-> read_index_, w |-> write_index_ + n], n)
           ELSE Becomes(AppendTo(filled, read_index_, Len(buf_),
                                 SubSeq(data, fill + 1, n)), n)

\* RetrieveAsString and, for callers that look with Peek first, Retrieve and
\* RetrieveUntil; emptying the buffer resets both indices.
Retrieve(size) ==
    /\ size \in 0..ReadableSize
    /\ taken' = taken \o SubSeq(buf_, read_index_ + 1, read_index_ + size)
    /\ IF size < ReadableSize
       THEN read_index_' = read_index_ + size /\ UNCHANGED write_index_
       ELSE read_index_' = 0 /\ write_index_' = 0
    /\ UNCHANGED <<buf_, count, peak>>

BufferNext ==
    \/ \E k \in 0..MaxAppend : Append_(k)
    \/ \E n \in 0..MaxBytes : ReadV(n)
    \/ \E size \in 0..MaxBytes : Retrieve(size)

BufferSpec == BufferInit /\ [][BufferNext]_bufferVars

-----------------------------------------------------------------------------
(* Properties.                                                             *)

\* A Buffer is a byte queue: growing, moving to the front, the split of a
\* readv() over two buffers and the reset of the indices lose, repeat and
\* reorder nothing (buffer.h:35-42, 56-63, 103-115; buffer.cc:47-66).
BQ == INSTANCE ByteQueue
      WITH queue <- SubSeq(buf_, read_index_ + 1, write_index_), MaxPut <- MaxBytes

ByteQueueSpec == BQ!Spec

\* The vector stays within a constant of the most bytes that were ever
\* waiting in it: space in front of the data is used before it grows.
Larger(x, y) == IF x > y THEN x ELSE y
CapacityBounded ==
    /\ BufferTypeOK
    /\ Len(buf_) <= Larger(InitSize, peak + Larger(MaxAppend, BackupSize))
=============================================================================
