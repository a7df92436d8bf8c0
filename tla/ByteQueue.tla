------------------------------ MODULE ByteQueue ------------------------------
(***************************************************************************)
(* What a Buffer promises: bytes come out in the order in which they were  *)
(* put in, each once.  The bytes put in are named 1, 2, 3, ...             *)
(***************************************************************************)
EXTENDS Naturals, Sequences

CONSTANT MaxPut   \* the most bytes put in at once

VARIABLES
    queue,   \* the bytes that are in, oldest first
    taken,   \* the bytes that were taken out, in order
    count    \* number of bytes put in

vars == <<queue, taken, count>>

Init ==
    /\ queue = <<>>
    /\ taken = <<>>
    /\ count = 0

Put(k) ==
    /\ count' = count + k
    /\ queue' = queue \o [i \in 1..k |-> count + i]
    /\ UNCHANGED taken

Take(k) ==
    /\ taken' = taken \o SubSeq(queue, 1, k)
    /\ queue' = SubSeq(queue, k + 1, Len(queue))
    /\ UNCHANGED count

Next == \/ \E k \in 0..MaxPut : Put(k)
        \/ \E k \in 0..Len(queue) : Take(k)

Spec == Init /\ [][Next]_vars
=============================================================================
