------------------------------ MODULE LoopProofs ------------------------------
(***************************************************************************)
(* Theorems about what a loop thread works with.                           *)
(*                                                                         *)
(* EventLoop, for every set of threads, every bound and every pipe         *)
(* capacity: it implements TaskQueue, and no wakeup and no Exit() is lost. *)
(*                                                                         *)
(* Buffer, for every initial size, every size of the backup buffer and     *)
(* every bound on what is put in: it implements ByteQueue, and its vector  *)
(* stays within a constant of what was waiting in it.                      *)
(*                                                                         *)
(* Pollers, for any set of descriptors: all four watch the same events.    *)
(***************************************************************************)
EXTENDS EventLoop, Buffer, Pollers, SequenceTheorems, TLAPS

-----------------------------------------------------------------------------
(* EventLoop.                                                              *)

\* Every initial state satisfies the inductive invariant.
LEMMA InitIInv == Init => IInv
<1> SUFFICES ASSUME Init PROVE IInv
  OBVIOUS
<1> USE DEF Init
<1>1. exit_ \in BOOLEAN /\ run_ \in BOOLEAN /\ woken \in BOOLEAN
  BY Zenon
<1>2. tpc \in [Threads -> {"idle", "wake"}] /\ pipe \in 0..PipeCap
  BY PipeAssumption
<1>3. TypeOK
  BY <1>1, <1>2, BoundsAssumption DEF TypeOK
<1>4. FlagsInv /\ WakeUpInv /\ NoLostExit
  BY DEF FlagsInv, WakeUpInv, NoLostExit, FuncWaiting
<1> QED
  BY <1>3, <1>4 DEF IInv

\* Appending to funcs_ keeps the functions that were there.
LEMMA AppendWaiting ==
  ASSUME NEW S, NEW s \in Seq(S), NEW x \in S, NEW i \in 1..Len(Append(s, x)),
         Append(s, x)[i] # x
  PROVE  i \in 1..Len(s) /\ Append(s, x)[i] = s[i]
  BY AppendProperties

\* A step keeps the types.
LEMMA NextTypeOK == IInv /\ [Next]_vars => TypeOK'
<1> SUFFICES ASSUME IInv, [Next]_vars PROVE TypeOK'
  OBVIOUS
<1> USE BoundsAssumption, PipeAssumption DEF IInv, TypeOK, FlagsInv
<1>1. CASE Enter
  <2>1. exit_' \in BOOLEAN
    BY <1>1, Zenon DEF Enter
  <2> QED
    BY <1>1, <2>1 DEF Enter
<1>2. CASE Test
  BY <1>2 DEF Test
<1>3. CASE PollWoken
  BY <1>3 DEF PollWoken
<1>4. CASE PollOther
  BY <1>4 DEF PollOther
<1>5. CASE HandleRead
  <2>1. woken' \in BOOLEAN
    BY <1>5, Zenon DEF HandleRead
  <2>2. pipe' \in 0..PipeCap
    BY <1>5 DEF HandleRead
  <2> QED
    BY <1>5, <2>1, <2>2 DEF HandleRead
<1>6. CASE LoopQueueInLoop
  <2>1. ntasks' \in 1..MaxTasks
    BY <1>6 DEF LoopQueueInLoop
  <2>2. funcs_' \in Seq(1..MaxTasks)
    BY <1>6, <2>1, AppendProperties DEF LoopQueueInLoop
  <2>3. pc' \in {pc, "wakeup"} /\ early' \in SUBSET (1..MaxTasks)
    BY <1>6, <2>1 DEF LoopQueueInLoop
  <2> QED
    BY <1>6, <2>1, <2>2, <2>3 DEF LoopQueueInLoop, WakeUpNeeded
<1>7. CASE LoopRunInLoop
  <2>1. ntasks' \in 1..MaxTasks
    BY <1>7 DEF LoopRunInLoop
  <2>2. ran' \in Seq(1..MaxTasks)
    BY <1>7, <2>1, AppendProperties DEF LoopRunInLoop
  <2> QED
    BY <1>7, <2>1, <2>2 DEF LoopRunInLoop
<1>8. CASE LoopWakeUp
  BY <1>8 DEF LoopWakeUp
<1>9. CASE LoopExit
  BY <1>9 DEF LoopExit
<1>10. CASE RunFuncs
  BY <1>10 DEF RunFuncs
<1>11. CASE StartTask
  <2>1. Head(batch) \in 1..MaxTasks /\ batch' \in Seq(1..MaxTasks)
    BY <1>11, HeadTailProperties DEF StartTask
  <2>2. ran' \in Seq(1..MaxTasks)
    BY <1>11, <2>1, AppendProperties DEF StartTask
  <2> QED
    BY <1>11, <2>1, <2>2 DEF StartTask
<1>12. CASE EndTask
  BY <1>12 DEF EndTask
<1>13. CASE EndRunFuncs
  BY <1>13 DEF EndRunFuncs
<1>14. CASE \E t \in Threads : QueueInLoop(t)
  <2>1. PICK t \in Threads : QueueInLoop(t)
    BY <1>14
  <2>2. ntasks' \in 1..MaxTasks
    BY <2>1 DEF QueueInLoop
  <2>3. funcs_' \in Seq(1..MaxTasks)
    BY <2>1, <2>2, AppendProperties DEF QueueInLoop
  <2> QED
    BY <2>1, <2>2, <2>3 DEF QueueInLoop, loopVars
<1>15. CASE \E t \in Threads : Exit(t)
  BY <1>15 DEF Exit
<1>16. CASE \E t \in Threads : WakeUp(t)
  BY <1>16 DEF WakeUp, loopVars
<1>17. CASE Returned \/ UNCHANGED vars
  BY <1>17 DEF Returned, vars
<1> QED
  BY <1>1, <1>2, <1>3, <1>4, <1>5, <1>6, <1>7, <1>8, <1>9, <1>10, <1>11,
     <1>12, <1>13, <1>14, <1>15, <1>16, <1>17
     DEF Next, LoopStep, LoopCall, ThreadStep

\* A step keeps run_, woken and batch in agreement with pc.
LEMMA NextFlagsInv == IInv /\ [Next]_vars => FlagsInv'
<1> SUFFICES ASSUME IInv, [Next]_vars PROVE FlagsInv'
  OBVIOUS
<1> USE PipeAssumption DEF IInv, TypeOK, FlagsInv
<1>1. CASE LoopStep
  <2>1. CASE StartTask
    BY <2>1 DEF StartTask
  <2>2. CASE Test \/ PollWoken \/ HandleRead \/ LoopWakeUp
    BY <2>2 DEF Test, PollWoken, HandleRead, LoopWakeUp
  <2>3. CASE RunFuncs \/ EndTask \/ EndRunFuncs
    BY <2>3 DEF RunFuncs, EndTask, EndRunFuncs
  <2> QED
    BY <1>1, <2>1, <2>2, <2>3 DEF LoopStep
<1>2. CASE PollOther
  BY <1>2 DEF PollOther
<1>3. CASE LoopCall
  BY <1>3 DEF LoopCall, Enter, LoopQueueInLoop, LoopRunInLoop, LoopExit, WakeUpNeeded
<1>4. CASE \E t \in Threads : ThreadStep(t)
  <2>1. PICK t \in Threads : ThreadStep(t)
    BY <1>4
  <2>2. pc' = pc /\ run_' = run_ /\ batch' = batch /\ woken' = woken
    BY <2>1 DEF ThreadStep, QueueInLoop, Exit, WakeUp, loopVars
  <2>3. pipe' = pipe \/ pipe' = pipe + 1
    BY <2>1 DEF ThreadStep, QueueInLoop, Exit, WakeUp
  <2> QED
    BY <2>2, <2>3
<1>5. CASE Returned \/ UNCHANGED vars
  BY <1>5 DEF Returned, vars
<1> QED
  BY <1>1, <1>2, <1>3, <1>4, <1>5 DEF Next

\* A step keeps the wakeups that waiting functions depend on.
LEMMA NextWakeUpInv == IInv /\ [Next]_vars => WakeUpInv'
<1> SUFFICES ASSUME IInv, [Next]_vars, pc' # "handle", FuncWaiting'
             PROVE  WakeUpComing' \/ pc' = "wakeup"
  BY DEF WakeUpInv
<1> USE DEF IInv, TypeOK, FlagsInv, WakeUpInv, FuncWaiting, WakeUpComing
<1>1. CASE LoopStep
  <2>1. CASE Test \/ LoopWakeUp \/ StartTask
    BY <2>1 DEF Test, LoopWakeUp, StartTask
  <2>2. CASE PollWoken \/ HandleRead
    BY <2>2 DEF PollWoken, HandleRead
  <2>3. CASE RunFuncs
    BY <2>3 DEF RunFuncs
  <2>4. CASE EndTask \/ EndRunFuncs
    BY <2>4 DEF EndTask, EndRunFuncs
  <2> QED
    BY <1>1, <2>1, <2>2, <2>3, <2>4 DEF LoopStep
<1>2. CASE PollOther
  BY <1>2 DEF PollOther
<1>3. CASE LoopCall
  <2>1. CASE Enter \/ LoopRunInLoop \/ LoopExit
    BY <2>1 DEF Enter, LoopRunInLoop, LoopExit
  <2>2. CASE LoopQueueInLoop /\ pc # "out"
    BY <2>2 DEF LoopQueueInLoop, WakeUpNeeded
  <2>3. CASE LoopQueueInLoop /\ pc = "out"
    <3>1. ntasks' \in 1..MaxTasks /\ funcs_' = Append(funcs_, ntasks')
      BY <2>3, BoundsAssumption DEF LoopQueueInLoop
    <3>2. PICK i \in 1..Len(funcs_') : funcs_'[i] \notin early'
      OBVIOUS
    <3>3. early' = early \cup {ntasks'}
      BY <2>3 DEF LoopQueueInLoop
    <3>4. i \in 1..Len(funcs_) /\ funcs_'[i] = funcs_[i]
      BY <3>1, <3>2, <3>3, AppendWaiting
    <3>5. FuncWaiting
      BY <3>2, <3>3, <3>4
    <3> QED
      BY <2>3, <3>5 DEF LoopQueueInLoop
  <2> QED
    BY <1>3, <2>1, <2>2, <2>3 DEF LoopCall
<1>4. CASE \E t \in Threads : ThreadStep(t)
  <2>1. PICK t \in Threads : ThreadStep(t)
    BY <1>4
  <2>2. CASE QueueInLoop(t)
    BY <2>2 DEF QueueInLoop, WakeUpNeeded
  <2>3. CASE Exit(t)
    BY <2>3 DEF Exit
  <2>4. CASE WakeUp(t)
    BY <2>4 DEF WakeUp
  <2> QED
    BY <2>1, <2>2, <2>3, <2>4 DEF ThreadStep
<1>5. CASE Returned \/ UNCHANGED vars
  BY <1>5 DEF Returned, vars
<1> QED
  BY <1>1, <1>2, <1>3, <1>4, <1>5 DEF Next

\* A step keeps the wakeup that an Exit() depends on.
LEMMA NextNoLostExit == IInv /\ [Next]_vars => NoLostExit'
<1> SUFFICES ASSUME IInv, [Next]_vars, pc' = "poll", exit_'
             PROVE  WakeUpComing'
  BY DEF NoLostExit
<1> USE DEF IInv, TypeOK, FlagsInv, NoLostExit, WakeUpComing
<1>1. CASE LoopStep
  BY <1>1 DEF LoopStep, Test, PollWoken, HandleRead, LoopWakeUp, RunFuncs,
              StartTask, EndTask, EndRunFuncs
<1>2. CASE PollOther \/ LoopCall
  BY <1>2 DEF PollOther, LoopCall, Enter, LoopQueueInLoop, LoopRunInLoop, LoopExit
<1>3. CASE \E t \in Threads : ThreadStep(t)
  <2>1. PICK t \in Threads : ThreadStep(t)
    BY <1>3
  <2>2. CASE QueueInLoop(t) \/ Exit(t)
    BY <2>2 DEF QueueInLoop, Exit, WakeUpNeeded
  <2>3. CASE WakeUp(t)
    BY <2>3 DEF WakeUp
  <2> QED
    BY <2>1, <2>2, <2>3 DEF ThreadStep
<1>4. CASE Returned \/ UNCHANGED vars
  BY <1>4 DEF Returned, vars
<1> QED
  BY <1>1, <1>2, <1>3, <1>4 DEF Next

\* The inductive invariant holds of every behaviour of the loop.
THEOREM Invariance == Spec => []IInv
<1>1. Init => IInv
  BY InitIInv
<1>2. IInv /\ [Next]_vars => IInv'
  BY NextTypeOK, NextFlagsInv, NextWakeUpInv, NextNoLostExit DEF IInv
<1> QED
  BY <1>1, <1>2, PTL DEF Spec

\* For any number of threads, functions and pipe words, the loop thread never
\* sleeps in Poll() on a function handed to it through QueueInLoop while it is
\* inside Loop(): the wakeup rule of eventloop.cc:150 loses none.
THEOREM WakeUpsSuffice == Spec => []NoLostWakeup
<1>1. IInv => NoLostWakeup
  BY DEF IInv, WakeUpInv, NoLostWakeup
<1> QED
  BY <1>1, Invariance, PTL

\* The loop thread never sleeps in Poll() after an Exit() of a running loop.
THEOREM ExitsSuffice == Spec => []NoLostExit
<1>1. IInv => NoLostExit
  BY DEF IInv
<1> QED
  BY <1>1, Invariance, PTL

-----------------------------------------------------------------------------
(* The refinement of TaskQueue.                                            *)

\* Appending to the second part of a concatenation appends to the whole.
LEMMA ConcatAppend ==
  ASSUME NEW S, NEW s \in Seq(S), NEW t \in Seq(S), NEW x \in S
  PROVE  s \o Append(t, x) = Append(s \o t, x)
  BY AppendIsConcat, ConcatAssociative, ConcatProperties, <<x>> \in Seq(S)

\* Head and tail of a concatenation are those of its first part.
LEMMA ConcatHeadTail ==
  ASSUME NEW S, NEW s \in Seq(S), NEW t \in Seq(S), s # <<>>
  PROVE  /\ s \o t # <<>>
         /\ Head(s \o t) = Head(s)
         /\ Tail(s \o t) = Tail(s) \o t
<1>1. s \o t \in Seq(S) /\ Len(s \o t) = Len(s) + Len(t) /\ Len(s) > 0
  BY ConcatProperties, EmptySeq, LenProperties
<1>2. s \o t # <<>>
  BY <1>1, EmptySeq, LenProperties
<1>3. Head(s \o t) = Head(s)
  BY <1>1, <1>2, ConcatProperties, LenProperties
<1>4. /\ Tail(s \o t) \in Seq(S) /\ Tail(s) \in Seq(S)
      /\ Len(Tail(s \o t)) = Len(s) + Len(t) - 1 /\ Len(Tail(s)) = Len(s) - 1
      /\ \A i \in 1..Len(Tail(s \o t)) : Tail(s \o t)[i] = (s \o t)[i + 1]
      /\ \A i \in 1..Len(Tail(s)) : Tail(s)[i] = s[i + 1]
  BY <1>1, <1>2, HeadTailProperties
<1>5. /\ Tail(s) \o t \in Seq(S)
      /\ Len(Tail(s) \o t) = Len(s) + Len(t) - 1
      /\ \A i \in 1..(Len(s) + Len(t) - 1) :
            (Tail(s) \o t)[i] = IF i <= Len(s) - 1 THEN s[i + 1] ELSE t[i - (Len(s) - 1)]
  BY <1>4, ConcatProperties, LenProperties
<1>6. \A i \in 1..(Len(s) + Len(t) - 1) : Tail(s \o t)[i] = (Tail(s) \o t)[i]
  BY <1>1, <1>4, <1>5, ConcatProperties, LenProperties
<1>7. Tail(s \o t) = Tail(s) \o t
  BY <1>4, <1>5, <1>6, SeqEqual
<1> QED
  BY <1>2, <1>3, <1>7

\* EventLoop implements TaskQueue: across the swap in RunFuncs, the pushes of
\* all threads and nested calls, functions run at most once and in order.
THEOREM ImplementsTaskQueue == Spec => TaskQueueSpec
<1>1. Init => TQ!Init
  BY DEF Init, TQ!Init
<1>2. IInv /\ [Next]_vars => [TQ!Next]_(TQ!vars)
  <2> SUFFICES ASSUME IInv, [Next]_vars PROVE [TQ!Next]_(TQ!vars)
    OBVIOUS
  <2> USE DEF IInv, TypeOK, FlagsInv
  <2>1. CASE RunFuncs
    <3>1. batch = <<>> /\ batch' = funcs_ /\ funcs_' = <<>> /\ UNCHANGED <<ran, ntasks>>
      BY <2>1 DEF RunFuncs
    <3>2. batch' \o funcs_' = batch \o funcs_
      BY <3>1, ConcatEmptySeq
    <3> QED
      BY <3>1, <3>2 DEF TQ!vars
  <2>2. CASE StartTask
    BY <2>2, ConcatHeadTail DEF StartTask, TQ!Next, TQ!Execute
  <2>3. CASE LoopQueueInLoop \/ \E t \in Threads : QueueInLoop(t)
    <3>1. /\ ntasks < MaxTasks /\ ntasks' = ntasks + 1
          /\ funcs_' = Append(funcs_, ntasks') /\ UNCHANGED <<batch, ran>>
      BY <2>3 DEF LoopQueueInLoop, QueueInLoop, loopVars
    <3>2. ntasks' \in 1..MaxTasks
      BY <3>1, BoundsAssumption
    <3>3. batch' \o funcs_' = Append(batch \o funcs_, ntasks')
      BY <3>1, <3>2, ConcatAppend
    <3> QED
      BY <3>1, <3>3 DEF TQ!Next, TQ!Submit
  <2>4. CASE LoopRunInLoop
    BY <2>4 DEF LoopRunInLoop, TQ!Next, TQ!RunNow
  <2>5. CASE Test \/ PollWoken \/ PollOther \/ HandleRead \/ LoopWakeUp \/ EndTask \/ EndRunFuncs
    BY <2>5 DEF Test, PollWoken, PollOther, HandleRead, LoopWakeUp, EndTask,
                EndRunFuncs, TQ!vars
  <2>6. CASE Enter \/ LoopExit \/ Returned \/ UNCHANGED vars
    BY <2>6 DEF Enter, LoopExit, Returned, vars, TQ!vars
  <2>7. CASE \E t \in Threads : Exit(t) \/ WakeUp(t)
    BY <2>7 DEF Exit, WakeUp, loopVars, TQ!vars
  <2> QED
    BY <2>1, <2>2, <2>3, <2>4, <2>5, <2>6, <2>7
       DEF Next, LoopStep, LoopCall, ThreadStep
<1> QED
  BY <1>1, <1>2, Invariance, PTL DEF Spec, TQ!Spec, TaskQueueSpec

-----------------------------------------------------------------------------
(* Buffer.                                                                 *)

Bytes == 0..MaxBytes

-----------------------------------------------------------------------------
(* The operators on vectors.                                               *)

\* A function on 1..n is a sequence of length n.
LEMMA FunctionIsSeq ==
  ASSUME NEW S, NEW n \in Nat, NEW f \in [1..n -> S]
  PROVE  f \in Seq(S) /\ Len(f) = n
OBVIOUS

\* The bytes from position r up to position w.
LEMMA WindowProperties ==
  ASSUME NEW S, NEW s \in Seq(S), NEW w \in 0..Len(s), NEW r \in 0..w
  PROVE  /\ SubSeq(s, r + 1, w) \in Seq(S)
         /\ Len(SubSeq(s, r + 1, w)) = w - r
         /\ \A i \in 1..w - r : SubSeq(s, r + 1, w)[i] = s[r + i]
<1>1. Len(s) \in Nat /\ w \in Int /\ r + 1 \in Int
  BY LenProperties
<1>2. \A i \in (r + 1)..w : s[i] \in S
  BY <1>1, ElementOfSeq
<1>3. /\ SubSeq(s, r + 1, w) \in Seq(S)
      /\ Len(SubSeq(s, r + 1, w)) = IF r + 1 <= w THEN w - (r + 1) + 1 ELSE 0
      /\ \A i \in 1..w - (r + 1) + 1 : SubSeq(s, r + 1, w)[i] = s[(r + 1) + i - 1]
  BY <1>1, <1>2, SubSeqProperties
<1>4. \A i \in 1..w - r : (r + 1) + i - 1 = r + i
  BY <1>1
<1> QED
  BY <1>1, <1>3, <1>4

\* Copying data into a vector changes the positions it is copied to and no other.
LEMMA OverwriteProperties ==
  ASSUME NEW S, NEW buf \in Seq(S), NEW data \in Seq(S), NEW at \in Nat,
         at + Len(data) <= Len(buf)
  PROVE  /\ Overwrite(buf, at, data) \in Seq(S)
         /\ Len(Overwrite(buf, at, data)) = Len(buf)
         /\ \A i \in 1..Len(buf) : Overwrite(buf, at, data)[i] =
               IF i > at /\ i <= at + Len(data) THEN data[i - at] ELSE buf[i]
<1>1. Len(buf) \in Nat /\ Len(data) \in Nat
  BY LenProperties
<1>2. ASSUME NEW i \in 1..Len(buf)
      PROVE  (IF i > at /\ i <= at + Len(data) THEN data[i - at] ELSE buf[i]) \in S
  <2>1. CASE i > at /\ i <= at + Len(data)
    <3>1. i - at \in 1..Len(data)
      BY <1>1, <2>1
    <3> QED
      BY <2>1, <3>1, ElementOfSeq
  <2>2. CASE ~(i > at /\ i <= at + Len(data))
    BY <2>2, ElementOfSeq
  <2> QED
    BY <2>1, <2>2
<1>3. Overwrite(buf, at, data) \in [1..Len(buf) -> S]
  BY <1>2 DEF Overwrite
<1> QED
  BY <1>1, <1>3, FunctionIsSeq DEF Overwrite

\* Resizing keeps what the vector holds.
LEMMA ResizeProperties ==
  ASSUME NEW S, NEW buf \in Seq(S), 0 \in S, NEW size \in Nat, Len(buf) <= size
  PROVE  /\ Resize(buf, size) \in Seq(S)
         /\ Len(Resize(buf, size)) = size
         /\ \A i \in 1..Len(buf) : Resize(buf, size)[i] = buf[i]
<1>1. Len(buf) \in Nat
  BY LenProperties
<1>2. ASSUME NEW i \in 1..size PROVE (IF i <= Len(buf) THEN buf[i] ELSE 0) \in S
  BY <1>1, ElementOfSeq
<1>3. Resize(buf, size) \in [1..size -> S]
  BY <1>2 DEF Resize
<1> QED
  BY <1>1, <1>3, FunctionIsSeq DEF Resize

\* The state m has room for size bytes and the readable ones of buf.  If its vector
\* is larger there were fewer than size free bytes in front of the data.
SpaceMade(S, buf, r, w, size, m) ==
    \E b \in Seq(S) : \E v \in 0..Len(b) : \E q \in 0..v :
       /\ m = [buf |-> b, r |-> q, w |-> v]
       /\ v + size <= Len(b)
       /\ v - q = w - r
       /\ SubSeq(b, q + 1, v) = SubSeq(buf, r + 1, w)
       /\ Len(b) = Len(buf) \/ (Len(b) = w + size /\ r < size)

\* The state a has data behind the readable bytes of buf.  If its vector is larger,
\* it is at most as much larger than what is readable as the data is long.
Appended(S, buf, r, w, data, a) ==
    \E b \in Seq(S) : \E v \in 0..Len(b) : \E q \in 0..v :
       /\ a = [buf |-> b, r |-> q, w |-> v]
       /\ v - q = w - r + Len(data)
       /\ SubSeq(b, q + 1, v) = SubSeq(buf, r + 1, w) \o data
       /\ Len(b) = Len(buf) \/ Len(b) <= v - q + Len(data)

\* MakeSpace makes room for size bytes and keeps the readable ones.
LEMMA MakeSpaceProperties ==
  ASSUME NEW S, 0 \in S, NEW buf \in Seq(S), NEW w \in 0..Len(buf), NEW r \in 0..w,
         NEW size \in Nat, Len(buf) - w < size
  PROVE  SpaceMade(S, buf, r, w, size, MakeSpace(buf, r, w, size))
<1>0. Len(buf) \in Nat /\ w \in Nat /\ r \in Nat
  BY LenProperties
<1> DEFINE d == SubSeq(buf, r + 1, w)
<1>1. d \in Seq(S) /\ Len(d) = w - r /\ \A i \in 1..w - r : d[i] = buf[r + i]
  BY WindowProperties
<1> HIDE DEF d
<1>2. CASE Len(buf) - w + r < size
  <2> DEFINE b == Resize(buf, w + size)
             e == SubSeq(b, r + 1, w)
  <2>1. MakeSpace(buf, r, w, size) = [buf |-> b, r |-> r, w |-> w]
    BY <1>2 DEF MakeSpace
  <2>2. w + size \in Nat /\ Len(buf) <= w + size /\ r < size
    BY <1>0, <1>2
  <2>3. /\ b \in Seq(S) /\ Len(b) = w + size
        /\ \A i \in 1..Len(buf) : b[i] = buf[i]
    BY <2>2, ResizeProperties
  <2> HIDE DEF b
  <2>4. w \in 0..Len(b)
    BY <1>0, <2>3
  <2>5. e \in Seq(S) /\ Len(e) = w - r /\ \A i \in 1..w - r : e[i] = b[r + i]
    BY <2>3, <2>4, WindowProperties
  <2>6. \A i \in 1..w - r : r + i \in 1..Len(buf)
    BY <1>0
  <2>7. \A i \in 1..w - r : e[i] = d[i]
    BY <1>1, <2>3, <2>5, <2>6
  <2> HIDE DEF e
  <2>8. e = d
    BY <1>1, <2>5, <2>7, SeqEqual
  <2>9. SubSeq(b, r + 1, w) = SubSeq(buf, r + 1, w) /\ w + size <= Len(b)
    BY <1>0, <2>3, <2>8 DEF d, e
  <2> QED
    BY <2>1, <2>2, <2>3, <2>4, <2>9 DEF SpaceMade
<1>3. CASE ~(Len(buf) - w + r < size)
  <2> DEFINE b == Overwrite(buf, 0, d)
             v == w - r
             e == SubSeq(b, 0 + 1, v)
  <2>1. MakeSpace(buf, r, w, size) = [buf |-> b, r |-> 0, w |-> v]
    BY <1>3 DEF MakeSpace, d
  <2>2. 0 + Len(d) <= Len(buf)
    BY <1>0, <1>1
  <2>3. /\ b \in Seq(S) /\ Len(b) = Len(buf)
        /\ \A i \in 1..Len(buf) : b[i] = IF i > 0 /\ i <= 0 + Len(d) THEN d[i - 0] ELSE buf[i]
    BY <1>1, <2>2, OverwriteProperties
  <2> HIDE DEF b
  <2>4. /\ v \in 0..Len(b) /\ 0 \in 0..v /\ v + size <= Len(b)
        /\ v - 0 = w - r /\ \A i \in 1..v : 0 + i = i
    BY <1>0, <1>3, <2>3
  <2>5. e \in Seq(S) /\ Len(e) = v - 0 /\ \A i \in 1..v - 0 : e[i] = b[0 + i]
    BY <2>3, <2>4, WindowProperties
  <2>6. ASSUME NEW i \in 1..v PROVE b[i] = d[i]
    <3>1. i \in 1..Len(buf) /\ i > 0 /\ i <= 0 + Len(d) /\ i - 0 = i
      BY <1>0, <1>1
    <3> QED
      BY <2>3, <3>1
  <2> HIDE DEF e
  <2>7. e = d
    BY <1>1, <2>4, <2>5, <2>6, SeqEqual
  <2>8. SubSeq(b, 0 + 1, v) = SubSeq(buf, r + 1, w)
    BY <2>7 DEF d, e
  <2> HIDE DEF v
  <2> QED
    BY <2>1, <2>3, <2>4, <2>8 DEF SpaceMade
<1> QED
  BY <1>2, <1>3

\* Copying data behind the readable bytes of a vector puts it behind them.
LEMMA CopyBehind ==
  ASSUME NEW S, NEW buf \in Seq(S), NEW data \in Seq(S), NEW w \in 0..Len(buf), NEW r \in 0..w,
         w + Len(data) <= Len(buf)
  PROVE  SubSeq(Overwrite(buf, w, data), r + 1, w + Len(data)) = SubSeq(buf, r + 1, w) \o data
<1> DEFINE d == SubSeq(buf, r + 1, w)
           o == Overwrite(buf, w, data)
           e == SubSeq(o, r + 1, w + Len(data))
<1>1. Len(buf) \in Nat /\ Len(data) \in Nat /\ w \in Nat /\ r \in Nat
  BY LenProperties
<1>2. d \in Seq(S) /\ Len(d) = w - r /\ \A i \in 1..w - r : d[i] = buf[r + i]
  BY WindowProperties
<1>3. /\ o \in Seq(S) /\ Len(o) = Len(buf)
      /\ \A i \in 1..Len(buf) : o[i] = IF i > w /\ i <= w + Len(data) THEN data[i - w] ELSE buf[i]
  BY <1>1, OverwriteProperties
<1> HIDE DEF d, o
<1>4. w + Len(data) \in 0..Len(o) /\ r \in 0..w + Len(data)
  BY <1>1, <1>3
<1>5. /\ e \in Seq(S) /\ Len(e) = w + Len(data) - r
      /\ \A i \in 1..w + Len(data) - r : e[i] = o[r + i]
  BY <1>3, <1>4, WindowProperties
<1>6. /\ d \o data \in Seq(S) /\ Len(d \o data) = Len(d) + Len(data)
      /\ \A i \in 1..Len(d) + Len(data) :
            (d \o data)[i] = IF i <= Len(d) THEN d[i] ELSE data[i - Len(d)]
  BY <1>2, ConcatProperties
<1> HIDE DEF e
<1>7. Len(e) = Len(d \o data) /\ Len(d) + Len(data) = w + Len(data) - r
  BY <1>1, <1>2, <1>5, <1>6
<1>8. ASSUME NEW i \in 1..Len(e) PROVE e[i] = (d \o data)[i]
  <2>1. i \in 1..w + Len(data) - r /\ i \in 1..Len(d) + Len(data) /\ r + i \in 1..Len(buf)
    BY <1>1, <1>5, <1>7
  <2>2. e[i] = IF r + i > w /\ r + i <= w + Len(data) THEN data[r + i - w] ELSE buf[r + i]
    BY <1>3, <1>5, <2>1
  <2>3. CASE i <= Len(d)
    <3>1. i \in 1..w - r /\ ~(r + i > w)
      BY <1>1, <1>2, <2>3
    <3> QED
      BY <1>2, <1>6, <2>1, <2>2, <2>3, <3>1
  <2>4. CASE ~(i <= Len(d))
    <3>1. r + i > w /\ r + i <= w + Len(data) /\ r + i - w = i - Len(d)
      BY <1>1, <1>2, <2>1, <2>4
    <3>2. e[i] = data[i - Len(d)]
      BY <2>2, <3>1
    <3> QED
      BY <1>6, <2>1, <2>4, <3>2
  <2> QED
    BY <2>3, <2>4
<1>9. e = d \o data
  BY <1>5, <1>6, <1>7, <1>8, SeqEqual
<1> QED
  BY <1>9 DEF d, e, o

\* Append puts the data behind the readable bytes.
LEMMA AppendToProperties ==
  ASSUME NEW S, 0 \in S, NEW buf \in Seq(S), NEW data \in Seq(S),
         NEW w \in 0..Len(buf), NEW r \in 0..w
  PROVE  Appended(S, buf, r, w, data, AppendTo(buf, r, w, data))
<1>1. Len(buf) \in Nat /\ Len(data) \in Nat /\ w \in Nat /\ r \in Nat
  BY LenProperties
<1> DEFINE m == IF Len(buf) - w < Len(data)
                THEN MakeSpace(buf, r, w, Len(data))
                ELSE [buf |-> buf, r |-> r, w |-> w]
<1>2. SpaceMade(S, buf, r, w, Len(data), m)
  <2>1. CASE Len(buf) - w < Len(data)
    BY <1>1, <2>1, MakeSpaceProperties
  <2>2. CASE ~(Len(buf) - w < Len(data))
    <3>1. m = [buf |-> buf, r |-> r, w |-> w] /\ w + Len(data) <= Len(buf)
      BY <1>1, <2>2
    <3> HIDE DEF m
    <3> QED
      BY <3>1 DEF SpaceMade
  <2> QED
    BY <2>1, <2>2
<1>3. AppendTo(buf, r, w, data)
         = [buf |-> Overwrite(m.buf, m.w, data), r |-> m.r, w |-> m.w + Len(data)]
  BY DEF AppendTo
<1> HIDE DEF m
<1>4. PICK b, v, q :
         /\ b \in Seq(S) /\ v \in 0..Len(b) /\ q \in 0..v
         /\ m = [buf |-> b, r |-> q, w |-> v]
         /\ v + Len(data) <= Len(b)
         /\ v - q = w - r
         /\ SubSeq(b, q + 1, v) = SubSeq(buf, r + 1, w)
         /\ Len(b) = Len(buf) \/ (Len(b) = w + Len(data) /\ r < Len(data))
  BY <1>2 DEF SpaceMade
<1> DEFINE o == Overwrite(b, v, data)
           z == v + Len(data)
<1>5. AppendTo(buf, r, w, data) = [buf |-> o, r |-> q, w |-> z]
  BY <1>3, <1>4
<1>6. Len(b) \in Nat /\ v \in Nat /\ q \in Nat /\ q <= v
  BY <1>4, LenProperties
<1>7. o \in Seq(S) /\ Len(o) = Len(b)
  BY <1>4, <1>6, OverwriteProperties
<1>8. SubSeq(o, q + 1, z) = SubSeq(buf, r + 1, w) \o data
  <2>1. /\ b \in Seq(S) /\ v \in 0..Len(b) /\ q \in 0..v /\ v + Len(data) <= Len(b)
        /\ SubSeq(b, q + 1, v) = SubSeq(buf, r + 1, w)
    BY <1>4
  <2>2. SubSeq(o, q + 1, z) = SubSeq(b, q + 1, v) \o data
    BY <2>1, CopyBehind
  <2> QED
    BY <2>1, <2>2
<1>9. z \in 0..Len(o) /\ q \in 0..z /\ z - q = w - r + Len(data)
  <2>1. z \in 0..Len(b) /\ q \in 0..z
    BY <1>1, <1>4, <1>6
  <2>2. z - q = w - r + Len(data)
    <3>1. v - q = w - r
      BY <1>4
    <3> QED
      BY <1>1, <1>6, <3>1
  <2> QED
    BY <1>7, <2>1, <2>2
<1>10. Len(o) = Len(buf) \/ Len(o) <= z - q + Len(data)
  <2>1. CASE Len(b) = Len(buf)
    BY <1>7, <2>1
  <2>2. CASE Len(b) = w + Len(data) /\ r < Len(data)
    <3>1. w + Len(data) <= (w - r + Len(data)) + Len(data)
      BY <1>1, <2>2
    <3> QED
      BY <1>7, <1>9, <2>2, <3>1
  <2> QED
    BY <1>4, <2>1, <2>2
<1> HIDE DEF o, z
<1> QED
  BY <1>5, <1>7, <1>8, <1>9, <1>10 DEF Appended

-----------------------------------------------------------------------------
(* Putting bytes in.                                                       *)

MaxPiece == Larger(MaxAppend, BackupSize)

\* The larger of two numbers.
LEMMA LargerProperties ==
  ASSUME NEW x \in Nat, NEW y \in Nat
  PROVE  /\ Larger(x, y) \in Nat /\ x <= Larger(x, y) /\ y <= Larger(x, y)
         /\ Larger(x, y) = x \/ Larger(x, y) = y
BY DEF Larger

\* The bytes that arrive are bytes.
LEMMA FreshProperties ==
  ASSUME BufferTypeOK, NEW k \in Nat, count + k <= MaxBytes
  PROVE  Fresh(k) \in Seq(Bytes) /\ Len(Fresh(k)) = k
<1>1. Fresh(k) \in [1..k -> Bytes]
  BY SizesAssumption DEF BufferTypeOK, Fresh, Bytes
<1> QED
  BY <1>1, FunctionIsSeq

\* A state of the vector with k bytes that have arrived behind the readable ones.
Put(s, k) ==
    \E b \in Seq(Bytes) : \E v \in 0..Len(b) : \E q \in 0..v :
       /\ s = [buf |-> b, r |-> q, w |-> v]
       /\ SubSeq(b, q + 1, v) = SubSeq(buf_, read_index_ + 1, write_index_) \o Fresh(k)
       /\ Len(b) = Len(buf_) \/ Len(b) <= v - q + MaxPiece

\* A step to such a state is a Put of ByteQueue and keeps the vector bounded.
LEMMA PutStep ==
  ASSUME CapacityBounded, NEW k \in Nat, count + k <= MaxBytes,
         NEW s, Put(s, k), Becomes(s, k)
  PROVE  CapacityBounded' /\ BQ!Put(k)
<1>0. BufferTypeOK /\ Len(buf_) \in Nat /\ MaxPiece \in Nat /\ InitSize \in Nat
  BY SizesAssumption, LenProperties DEF CapacityBounded, BufferTypeOK, MaxPiece, Larger
<1>1. PICK b, v, q :
         /\ b \in Seq(Bytes) /\ v \in 0..Len(b) /\ q \in 0..v
         /\ s = [buf |-> b, r |-> q, w |-> v]
         /\ SubSeq(b, q + 1, v) = SubSeq(buf_, read_index_ + 1, write_index_) \o Fresh(k)
         /\ Len(b) = Len(buf_) \/ Len(b) <= v - q + MaxPiece
  BY DEF Put
<1>2. /\ buf_' = b /\ read_index_' = q /\ write_index_' = v
      /\ count' = count + k /\ taken' = taken
      /\ peak' = IF v - q > peak THEN v - q ELSE peak
  BY <1>1 DEF Becomes
<1>3. Len(b) \in Nat /\ v \in Nat /\ q \in Nat /\ q <= v /\ v - q \in Nat
  BY <1>1, LenProperties
<1>4. /\ peak \in Nat /\ peak' \in Nat /\ peak <= peak' /\ v - q <= peak'
  BY <1>0, <1>2, <1>3 DEF BufferTypeOK
<1>5. BufferTypeOK'
  BY <1>0, <1>1, <1>2, <1>4, SizesAssumption DEF BufferTypeOK, Bytes
<1>6. Len(b) <= Larger(InitSize, peak' + MaxPiece)
  <2> DEFINE d == v - q
             p == peak
             pp == peak'
             M == MaxPiece
  <2>0. /\ d \in Nat /\ d <= pp /\ p \in Nat /\ pp \in Nat /\ p <= pp /\ M \in Nat
        /\ Len(buf_) <= Larger(InitSize, p + M)
    BY <1>0, <1>3, <1>4 DEF CapacityBounded, MaxPiece
  <2> SUFFICES Len(b) <= Larger(InitSize, pp + M)
    OBVIOUS
  <2> HIDE DEF d, p, pp, M
  <2>1. p + M \in Nat /\ pp + M \in Nat /\ p + M <= pp + M /\ d + M <= pp + M
    BY <2>0
  <2>2. /\ Larger(InitSize, p + M) = InitSize \/ Larger(InitSize, p + M) = p + M
        /\ Larger(InitSize, pp + M) \in Nat /\ InitSize <= Larger(InitSize, pp + M)
        /\ pp + M <= Larger(InitSize, pp + M)
    BY <1>0, <2>1, LargerProperties
  <2>3. CASE Len(b) = Len(buf_)
    BY <1>0, <2>0, <2>1, <2>2, <2>3
  <2>4. CASE Len(b) <= d + M
    BY <1>0, <1>3, <2>0, <2>1, <2>2, <2>4
  <2> QED
    BY <1>1, <2>3, <2>4 DEF d, M
<1>7. CapacityBounded'
  BY <1>2, <1>5, <1>6 DEF CapacityBounded, MaxPiece
<1>8. BQ!Put(k)
  BY <1>1, <1>2 DEF BQ!Put, Fresh
<1> QED
  BY <1>7, <1>8

\* Append puts the bytes in.
LEMMA AppendPuts ==
  ASSUME CapacityBounded, NEW k \in 0..MaxAppend, Append_(k)
  PROVE  CapacityBounded' /\ BQ!Put(k)
<1> DEFINE s == AppendTo(buf_, read_index_, write_index_, Fresh(k))
<1>1. /\ k \in Nat /\ count + k <= MaxBytes /\ Becomes(s, k)
      /\ BufferTypeOK /\ k <= MaxPiece /\ MaxPiece \in Nat
  BY SizesAssumption DEF Append_, CapacityBounded, MaxPiece, Larger
<1>2. Fresh(k) \in Seq(Bytes) /\ Len(Fresh(k)) = k
  BY <1>1, FreshProperties
<1>3. /\ 0 \in Bytes /\ buf_ \in Seq(Bytes) /\ write_index_ \in 0..Len(buf_)
      /\ read_index_ \in 0..write_index_
  BY <1>1, SizesAssumption DEF BufferTypeOK, Bytes
<1>4. Appended(Bytes, buf_, read_index_, write_index_, Fresh(k), s)
  BY <1>2, <1>3, AppendToProperties
<1> HIDE DEF s
<1>5. PICK b, v, q :
         /\ b \in Seq(Bytes) /\ v \in 0..Len(b) /\ q \in 0..v
         /\ s = [buf |-> b, r |-> q, w |-> v]
         /\ SubSeq(b, q + 1, v) = SubSeq(buf_, read_index_ + 1, write_index_) \o Fresh(k)
         /\ Len(b) = Len(buf_) \/ Len(b) <= v - q + Len(Fresh(k))
  BY <1>4 DEF Appended
<1>6. Len(b) = Len(buf_) \/ Len(b) <= v - q + MaxPiece
  <2>1. Len(b) \in Nat /\ v \in Nat /\ q \in Nat
    BY <1>5, LenProperties
  <2> QED
    BY <1>1, <1>2, <1>5, <2>1
<1>7. Put(s, k)
  BY <1>5, <1>6 DEF Put
<1> QED
  BY <1>1, <1>7, PutStep

\* ReadV puts the bytes in, those that went to the backup buffer too.
LEMMA ReadVPuts ==
  ASSUME CapacityBounded, NEW n \in 0..MaxBytes, ReadV(n)
  PROVE  CapacityBounded' /\ BQ!Put(n)
<1> DEFINE fill == IF n <= WritableSize THEN n ELSE WritableSize
           front == SubSeq(Fresh(n), 1, fill)
           rest == SubSeq(Fresh(n), fill + 1, n)
           filled == Overwrite(buf_, write_index_, front)
           old == SubSeq(buf_, read_index_ + 1, write_index_)
<1>1. /\ n \in Nat /\ count + n <= MaxBytes /\ BufferTypeOK
      /\ MaxPiece \in Nat /\ BackupSize <= MaxPiece
  BY SizesAssumption DEF ReadV, CapacityBounded, MaxPiece, Larger
<1>2. Fresh(n) \in Seq(Bytes) /\ Len(Fresh(n)) = n
  BY <1>1, FreshProperties
<1>3. /\ 0 \in Bytes /\ buf_ \in Seq(Bytes) /\ write_index_ \in 0..Len(buf_)
      /\ read_index_ \in 0..write_index_
  BY <1>1, SizesAssumption DEF BufferTypeOK, Bytes
<1>4. Len(buf_) \in Nat /\ write_index_ \in Nat /\ read_index_ \in Nat /\ WritableSize \in Nat
  BY <1>3, LenProperties DEF WritableSize
<1>5. old \in Seq(Bytes)
  BY <1>3, WindowProperties
<1>6. CASE n <= WritableSize
  <2> DEFINE b == Overwrite(buf_, write_index_, Fresh(n))
             v == write_index_ + n
             s == [buf |-> b, r |-> read_index_, w |-> v]
  <2>1. SubSeq(Fresh(n), 1, n) = Fresh(n)
    BY <1>2, SubSeqFull
  <2>2. Becomes(s, n)
    BY <1>6, <2>1 DEF ReadV
  <2>3. v <= Len(buf_) /\ v \in Nat
    BY <1>1, <1>4, <1>6 DEF WritableSize
  <2>4. b \in Seq(Bytes) /\ Len(b) = Len(buf_)
    BY <1>2, <1>3, <1>4, <2>3, OverwriteProperties
  <2>5. SubSeq(b, read_index_ + 1, v) = old \o Fresh(n)
    BY <1>2, <1>3, <2>3, CopyBehind
  <2> HIDE DEF b
  <2>6. v \in 0..Len(b) /\ read_index_ \in 0..v
    BY <1>1, <1>3, <1>4, <2>3, <2>4
  <2> HIDE DEF v
  <2>7. Put(s, n)
    BY <2>4, <2>5, <2>6 DEF Put
  <2> HIDE DEF s
  <2> QED
    BY <1>1, <2>2, <2>7, PutStep
<1>7. CASE ~(n <= WritableSize)
  <2>1. fill = WritableSize /\ fill \in 0..n /\ n - fill <= BackupSize
    BY <1>1, <1>4, <1>7, SizesAssumption DEF ReadV
  <2> DEFINE s == AppendTo(filled, read_index_, Len(buf_), rest)
  <2>2. Becomes(s, n)
    BY <1>7 DEF ReadV
  <2> HIDE DEF fill
  <2>3. /\ front \in Seq(Bytes) /\ Len(front) = fill
        /\ rest \in Seq(Bytes) /\ Len(rest) = n - fill
    <3>1. fill \in 0..Len(Fresh(n)) /\ n \in 0..Len(Fresh(n)) /\ 0 \in 0..fill /\ fill \in 0..n
      BY <1>1, <1>2, <2>1
    <3>2. SubSeq(Fresh(n), 0 + 1, fill) \in Seq(Bytes) /\ Len(SubSeq(Fresh(n), 0 + 1, fill)) = fill - 0
      BY <1>2, <3>1, WindowProperties
    <3>3. rest \in Seq(Bytes) /\ Len(rest) = n - fill
      BY <1>2, <3>1, WindowProperties
    <3>4. 0 + 1 = 1 /\ fill - 0 = fill
      BY <2>1
    <3> QED
      BY <3>2, <3>3, <3>4
  <2>4. front \o rest = Fresh(n)
    <3>1. /\ 1 \in 1..Len(Fresh(n)) + 1 /\ fill \in 1 - 1..Len(Fresh(n))
          /\ n \in fill..Len(Fresh(n))
      BY <1>1, <1>2, <2>1
    <3>2. front \o rest = SubSeq(Fresh(n), 1, n)
      BY <1>2, <3>1, ConcatAdjacentSubSeq
    <3>3. SubSeq(Fresh(n), 1, n) = Fresh(n)
      BY <1>2, SubSeqFull
    <3> QED
      BY <3>2, <3>3
  <2> HIDE DEF front, rest
  <2>5. write_index_ + Len(front) = Len(buf_) /\ write_index_ + Len(front) <= Len(buf_)
    BY <1>4, <2>1, <2>3 DEF WritableSize
  <2>6. filled \in Seq(Bytes) /\ Len(filled) = Len(buf_)
    BY <1>3, <1>4, <2>3, <2>5, OverwriteProperties
  <2>7. SubSeq(filled, read_index_ + 1, Len(buf_)) = old \o front
    BY <1>3, <2>3, <2>5, CopyBehind
  <2> HIDE DEF filled
  <2>8. Len(buf_) \in 0..Len(filled) /\ read_index_ \in 0..Len(buf_)
    BY <1>3, <1>4, <2>6
  <2>9. Appended(Bytes, filled, read_index_, Len(buf_), rest, s)
    BY <1>3, <2>3, <2>6, <2>8, AppendToProperties
  <2> HIDE DEF s
  <2>10. PICK b, v, q :
            /\ b \in Seq(Bytes) /\ v \in 0..Len(b) /\ q \in 0..v
            /\ s = [buf |-> b, r |-> q, w |-> v]
            /\ SubSeq(b, q + 1, v) = SubSeq(filled, read_index_ + 1, Len(buf_)) \o rest
            /\ Len(b) = Len(filled) \/ Len(b) <= v - q + Len(rest)
    BY <2>9 DEF Appended
  <2> HIDE DEF old
  <2>11. SubSeq(b, q + 1, v) = old \o Fresh(n)
    <3>1. (old \o front) \o rest = old \o (front \o rest)
      <4>1. \A s1, s2, s3 \in Seq(Bytes) : (s1 \o s2) \o s3 = s1 \o (s2 \o s3)
        BY ConcatAssociative, SMTT(20)
      <4> QED
        BY <1>5, <2>3, <4>1, Zenon
    <3> QED
      BY <2>4, <2>7, <2>10, <3>1
  <2>12. Len(b) = Len(buf_) \/ Len(b) <= v - q + MaxPiece
    <3>1. Len(b) \in Nat /\ v \in Nat /\ q \in Nat
      BY <2>10, LenProperties
    <3>2. Len(rest) \in Nat /\ Len(rest) <= MaxPiece
      BY <1>1, <2>1, <2>3, SizesAssumption
    <3>3. CASE Len(b) <= v - q + Len(rest)
      BY <1>1, <3>1, <3>2, <3>3
    <3> QED
      BY <2>6, <2>10, <3>3
  <2>13. Put(s, n)
    BY <2>10, <2>11, <2>12 DEF Put, old
  <2> QED
    BY <1>1, <2>2, <2>13, PutStep
<1> QED
  BY <1>6, <1>7

-----------------------------------------------------------------------------
(* Taking bytes out, and the theorems.                                     *)

\* A part of the readable bytes is a part of the vector.
LEMMA WindowOfWindow ==
  ASSUME NEW S, NEW s \in Seq(S), NEW w \in 0..Len(s), NEW r \in 0..w,
         NEW j \in 0..w - r, NEW i \in 0..j
  PROVE  SubSeq(SubSeq(s, r + 1, w), i + 1, j) = SubSeq(s, (r + i) + 1, r + j)
<1> DEFINE d == SubSeq(s, r + 1, w)
           e == SubSeq(d, i + 1, j)
           f == SubSeq(s, (r + i) + 1, r + j)
<1>1. Len(s) \in Nat /\ w \in Nat /\ r \in Nat /\ i \in Nat /\ j \in Nat /\ i <= j /\ j <= w - r
  BY LenProperties
<1>2. d \in Seq(S) /\ Len(d) = w - r /\ \A n \in 1..w - r : d[n] = s[r + n]
  BY WindowProperties
<1> HIDE DEF d
<1>3. e \in Seq(S) /\ Len(e) = j - i /\ \A n \in 1..j - i : e[n] = d[i + n]
  BY <1>2, WindowProperties
<1>4. r + j \in 0..Len(s) /\ r + i \in 0..r + j /\ (r + j) - (r + i) = j - i
  BY <1>1
<1>5. /\ f \in Seq(S) /\ Len(f) = (r + j) - (r + i)
      /\ \A n \in 1..(r + j) - (r + i) : f[n] = s[(r + i) + n]
  BY <1>4, WindowProperties
<1> HIDE DEF e, f
<1>6. ASSUME NEW n \in 1..j - i PROVE e[n] = f[n]
  <2>1. i + n \in 1..w - r /\ r + (i + n) = (r + i) + n
    BY <1>1
  <2> QED
    BY <1>2, <1>3, <1>4, <1>5, <2>1
<1>7. e = f
  BY <1>3, <1>4, <1>5, <1>6, SeqEqual
<1> QED
  BY <1>7 DEF d, e, f

\* Retrieve takes the oldest bytes out.
LEMMA RetrieveTakes ==
  ASSUME CapacityBounded, NEW size \in 0..MaxBytes, Retrieve(size)
  PROVE  /\ CapacityBounded' /\ BQ!Take(size)
         /\ size \in 0..Len(SubSeq(buf_, read_index_ + 1, write_index_))
<1> DEFINE r == read_index_
           w == write_index_
           queue == SubSeq(buf_, r + 1, w)
<1>1. buf_ \in Seq(Bytes) /\ w \in 0..Len(buf_) /\ r \in 0..w /\ BufferTypeOK
  BY DEF CapacityBounded, BufferTypeOK, Bytes
<1>2. Len(buf_) \in Nat /\ w \in Nat /\ r \in Nat /\ r <= w /\ w <= Len(buf_)
  BY <1>1, LenProperties
<1>3. queue \in Seq(Bytes) /\ Len(queue) = w - r
  BY <1>1, WindowProperties
<1>4. size \in 0..w - r
  BY DEF Retrieve, ReadableSize
<1>5. SubSeq(queue, 1, size) = SubSeq(buf_, r + 1, r + size)
  <2>1. 0 \in 0..size /\ 0 + 1 = 1 /\ r + 0 = r
    BY <1>2, <1>4
  <2>2. SubSeq(queue, 0 + 1, size) = SubSeq(buf_, (r + 0) + 1, r + size)
    BY <1>1, <1>4, <2>1, WindowOfWindow
  <2> QED
    BY <2>1, <2>2
<1>6. taken' = taken \o SubSeq(queue, 1, size)
  BY <1>5 DEF Retrieve
<1>7. SubSeq(buf_, read_index_ + 1, write_index_)' = SubSeq(queue, size + 1, Len(queue))
  <2>1. CASE size < ReadableSize
    <3>1. read_index_' = r + size /\ write_index_' = w /\ buf_' = buf_
      BY <2>1 DEF Retrieve
    <3>2. w - r \in 0..w - r /\ size \in 0..w - r /\ r + (w - r) = w
      BY <1>2, <1>4
    <3>3. SubSeq(queue, size + 1, w - r) = SubSeq(buf_, (r + size) + 1, r + (w - r))
      BY <1>1, <3>2, WindowOfWindow
    <3> QED
      BY <1>3, <3>1, <3>2, <3>3
  <2>2. CASE ~(size < ReadableSize)
    <3>1. read_index_' = 0 /\ write_index_' = 0 /\ buf_' = buf_
      BY <2>2 DEF Retrieve
    <3>2. size = w - r
      BY <1>2, <1>4, <2>2 DEF ReadableSize
    <3>3. SubSeq(queue, size + 1, Len(queue)) = << >>
      BY <1>2, <1>3, <3>2, SubSeqEmpty
    <3>4. SubSeq(buf_, 0 + 1, 0) = << >>
      BY SubSeqEmpty
    <3> QED
      BY <3>1, <3>3, <3>4
  <2> QED
    BY <2>1, <2>2
<1>8. BufferTypeOK'
  <2>1. SubSeq(queue, 1, size) \in Seq(Bytes)
    <3>1. size \in 0..Len(queue) /\ 0 \in 0..size /\ 0 + 1 = 1
      BY <1>3, <1>4
    <3>2. SubSeq(queue, 0 + 1, size) \in Seq(Bytes)
      BY <1>3, <3>1, WindowProperties
    <3> QED
      BY <3>1, <3>2
  <2>2. taken' \in Seq(Bytes)
    BY <1>1, <1>6, <2>1, ConcatProperties DEF BufferTypeOK, Bytes
  <2>3. /\ buf_' = buf_ /\ write_index_' \in 0..Len(buf_) /\ read_index_' \in 0..write_index_'
        /\ count' = count /\ peak' = peak
    BY <1>2, <1>4 DEF Retrieve, ReadableSize
  <2> QED
    BY <1>1, <2>2, <2>3 DEF BufferTypeOK, Bytes
<1>9. CapacityBounded'
  BY <1>8 DEF CapacityBounded, Retrieve
<1>10. BQ!Take(size)
  BY <1>6, <1>7 DEF BQ!Take, Retrieve
<1> QED
  BY <1>3, <1>4, <1>9, <1>10

\* An empty vector is an empty queue and is as large as a Buffer begins.
LEMMA InitBuffer == BufferInit => CapacityBounded /\ BQ!Init
<1> SUFFICES ASSUME BufferInit PROVE CapacityBounded /\ BQ!Init
  OBVIOUS
<1>1. buf_ \in [1..InitSize -> Bytes]
  BY SizesAssumption DEF BufferInit, Zeros, Bytes
<1>2. buf_ \in Seq(Bytes) /\ Len(buf_) = InitSize
  BY <1>1, SizesAssumption, FunctionIsSeq
<1>3. BufferTypeOK
  BY <1>2, SizesAssumption DEF BufferInit, BufferTypeOK, Bytes
<1>4. MaxPiece \in Nat
  BY SizesAssumption, LargerProperties DEF MaxPiece
<1>5. Len(buf_) <= Larger(InitSize, peak + MaxPiece)
  BY <1>2, <1>4, SizesAssumption, LargerProperties DEF BufferInit
<1>6. SubSeq(buf_, 0 + 1, 0) = << >>
  BY SubSeqEmpty
<1>7. BQ!Init
  BY <1>6 DEF BufferInit, BQ!Init
<1> QED
  BY <1>3, <1>5, <1>7 DEF CapacityBounded, MaxPiece

\* A step of Buffer is a step of ByteQueue and keeps the vector bounded.
LEMMA NextBuffer ==
  CapacityBounded /\ [BufferNext]_bufferVars => CapacityBounded' /\ [BQ!Next]_(BQ!vars)
<1> SUFFICES ASSUME CapacityBounded, [BufferNext]_bufferVars
             PROVE  CapacityBounded' /\ [BQ!Next]_(BQ!vars)
  OBVIOUS
<1>1. ASSUME NEW k \in 0..MaxAppend, Append_(k) PROVE CapacityBounded' /\ BQ!Next
  <2>1. k \in 0..MaxBytes
    BY <1>1, SizesAssumption DEF Append_, CapacityBounded, BufferTypeOK
  <2> QED
    BY <1>1, <2>1, AppendPuts DEF BQ!Next
<1>2. ASSUME NEW n \in 0..MaxBytes, ReadV(n) PROVE CapacityBounded' /\ BQ!Next
  BY <1>2, ReadVPuts DEF BQ!Next
<1>3. ASSUME NEW size \in 0..MaxBytes, Retrieve(size) PROVE CapacityBounded' /\ BQ!Next
  BY <1>3, RetrieveTakes DEF BQ!Next
<1>4. CASE UNCHANGED bufferVars
  BY <1>4 DEF bufferVars, BQ!vars, CapacityBounded, BufferTypeOK
<1> QED
  BY <1>1, <1>2, <1>3, <1>4 DEF BufferNext

\* The vector never exceeds its initial size or, if larger, the most that was ever
\* readable by more than one piece: MakeSpace uses the space in front of the data.
THEOREM CapacityInvariance == BufferSpec => []CapacityBounded
BY InitBuffer, NextBuffer, PTL DEF BufferSpec

\* A Buffer is a byte queue: nothing is lost, repeated or reordered, however its
\* bytes are moved, its vector grows or a readv() is split.
THEOREM BufferIsByteQueue == BufferSpec => ByteQueueSpec
<1>1. CapacityBounded /\ [BufferNext]_bufferVars => [BQ!Next]_(BQ!vars)
  BY NextBuffer
<1>2. BufferInit => BQ!Init
  BY InitBuffer
<1> QED
  BY <1>1, <1>2, CapacityInvariance, PTL DEF BufferSpec, ByteQueueSpec, BQ!Spec

-----------------------------------------------------------------------------
(* Pollers.                                                                *)

Modifies == {"kNoModify", "kAddRead", "kAddWrite", "kDeleteRead", "kDeleteWrite",
             "kEnableWrite", "kDisableWrite", "kDeleteAll"}
LiveDispatches ==
    [is : {"live"}, events : SUBSET Events, addWrite : BOOLEAN, modify : Modifies]
Entries == [fd : Int, events : SUBSET Events]

\* A Dispatch that no poller knows of asks for nothing; add_write_ covers a write.
DispatchInv ==
    /\ dispatch \in [Fds -> LiveDispatches \cup {NoDispatch}]
    /\ added \subseteq Fds
    /\ \A f \in Fds :
          /\ Live(f) => /\ "write" \in dispatch[f].events => dispatch[f].addWrite
                        /\ f \notin added => dispatch[f].events = {} /\ ~dispatch[f].addWrite
          /\ f \in added => Live(f)

EntryOf(f, d) == [fd |-> IF d.events = {} THEN Ignored(f) ELSE f, events |-> d.events]

\* index_ is a bijection between the Dispatches of EventPoll and its entries.
PollInv ==
    /\ index_ \in [Fds -> Nat \cup {-1}]
    /\ pollfds_ \in Seq(Entries)
    /\ \A f \in Fds : Live(f) /\ f \notin added => index_[f] = -1
    /\ \A f \in added : /\ index_[f] + 1 \in 1..Len(pollfds_)
                        /\ pollfds_[index_[f] + 1] = EntryOf(f, dispatch[f])
    /\ \A i \in 1..Len(pollfds_) : \E f \in added : index_[f] + 1 = i

Greatest(n, v) == n \in v /\ \A f \in v : n >= f

\* Every part of worker_map_ has a last key; nfds_ is beyond all of them.
SelectInv ==
    /\ select \in [read : SUBSET Fds, write : SUBSET Fds, workers : SUBSET Fds, nfds : Nat]
    /\ \A f \in select.workers : f < select.nfds
    /\ \A v \in SUBSET select.workers : v = {} \/ \E n \in v : Greatest(n, v)
    /\ \A f \in Fds :
          /\ f \in select.read <=> Live(f) /\ "read" \in dispatch[f].events
          /\ f \in select.write <=> Live(f) /\ "write" \in dispatch[f].events
          /\ f \in select.workers <=> Live(f) /\ dispatch[f].events # {}

\* A write that was enabled and is not asked for now has a filter that is off.
Filters(k, d) ==
    IF d = NoDispatch
    THEN \A e \in Events : k[e] = "no"
    ELSE /\ k["read"] = IF "read" \in d.events THEN "on" ELSE "no"
         /\ k["write"] = IF "write" \in d.events THEN "on" ELSE IF d.addWrite THEN "off" ELSE "no"

KqueueInv ==
    /\ kq \in [Fds -> [Events -> {"no", "on", "off"}]]
    /\ \A f \in Fds : Filters(kq[f], dispatch[f])

\* What EventEpoll knows of a Dispatch; index_ tells whether the kernel knows it, too.
Registered(p, d) ==
    IF d = NoDispatch
    THEN p.interest = {}
    ELSE /\ p.events = d.events /\ p.interest = d.events
         /\ p.addWrite <=> d.addWrite
         /\ p.inKernel <=> p.index = "kAdded"
         /\ p.index # "kAdded" => d.events = {}

EpollInv ==
    /\ epoll \in [Fds -> E!Dispatches]
    /\ \A f \in Fds : Registered(epoll[f], dispatch[f])

PollersInv == DispatchInv /\ PollInv /\ SelectInv /\ KqueueInv /\ EpollInv

-----------------------------------------------------------------------------
(* What each operation makes of a Dispatch.                                *)

\* d and p are a Dispatch after an operation on f, as the pollers are told of it and as
\* EventEpoll has it; the changes `modify` stands for lead to what it asks for.
Told(f, d, p) ==
    /\ d \in LiveDispatches /\ p \in E!Dispatches
    /\ "write" \in d.events => d.addWrite
    /\ f \notin added => d.events # {}
    /\ KqueueChange(kq[f], d.modify) \in [Events -> {"no", "on", "off"}]
    /\ Filters(KqueueChange(kq[f], d.modify), d)
    /\ Registered(p, d)
    /\ f \in Modified(select, f, d.modify).read <=> "read" \in d.events
    /\ f \in Modified(select, f, d.modify).write <=> "write" \in d.events

\* Registering a Dispatch whose events have changed.
LEMMA Reregistered ==
  ASSUME NEW p \in E!Dispatches, NEW q \in E!Dispatches,
         p.interest = p.events, p.inKernel <=> p.index = "kAdded",
         q.index = p.index, q.inKernel = p.inKernel, q.interest = p.interest
  PROVE  LET r == E!UpdateDispatch(q)
         IN  /\ r \in E!Dispatches
             /\ r.events = q.events /\ r.interest = q.events /\ r.addWrite = q.addWrite
             /\ r.inKernel <=> r.index = "kAdded"
             /\ r.index # "kAdded" => q.events = {}
<1> DEFINE r == E!UpdateDispatch(q)
<1>1. CASE q.index = "kAdded" /\ q.events = {}
  <2>1. r = [q EXCEPT !.inKernel = FALSE, !.interest = {}, !.index = "kDeleted"]
    BY <1>1 DEF E!UpdateDispatch, E!CtlDel, E!Dispatches
  <2> QED
    BY <1>1, <2>1 DEF E!Dispatches
<1>2. CASE q.index = "kAdded" /\ q.events # {}
  <2>1. r = [q EXCEPT !.interest = q.events]
    BY <1>2 DEF E!UpdateDispatch, E!CtlMod, E!Dispatches
  <2> QED
    BY <1>2, <2>1 DEF E!Dispatches
<1>3. CASE q.index # "kAdded"
  <2>1. r = [q EXCEPT !.index = "kAdded", !.mapped = TRUE, !.inKernel = TRUE, !.interest = q.events]
    BY <1>3 DEF E!UpdateDispatch, E!CtlAdd, E!Dispatches
  <2> QED
    BY <1>3, <2>1 DEF E!Dispatches
<1> QED
  BY <1>1, <1>2, <1>3

\* What the invariant says of a Dispatch that is there.
LEMMA KnownOfLive ==
  ASSUME PollersInv, NEW f \in Fds, Live(f)
  PROVE  /\ dispatch[f] \in LiveDispatches /\ epoll[f] \in E!Dispatches
         /\ kq[f] \in [Events -> {"no", "on", "off"}]
         /\ "write" \in dispatch[f].events => dispatch[f].addWrite
         /\ f \notin added => dispatch[f].events = {} /\ ~dispatch[f].addWrite
         /\ Filters(kq[f], dispatch[f]) /\ Registered(epoll[f], dispatch[f])
         /\ select \in [read : SUBSET Fds, write : SUBSET Fds, workers : SUBSET Fds, nfds : Nat]
         /\ f \in select.read <=> "read" \in dispatch[f].events
         /\ f \in select.write <=> "write" \in dispatch[f].events
BY DEF PollersInv, DispatchInv, SelectInv, KqueueInv, EpollInv, Live

\* A Dispatch that is there is not NoDispatch.
LEMMA LiveIsSome == \A d \in LiveDispatches : d # NoDispatch
<1>1. \A d \in LiveDispatches : d.is = "live"
  BY DEF LiveDispatches
<1>2. NoDispatch.is = "none"
  BY DEF NoDispatch
<1> QED
  BY <1>1, <1>2

\* How a change moves f in and out of the descriptor sets of EventSelect.
LEMMA ModifiedSets ==
  ASSUME NEW s \in [read : SUBSET Fds, write : SUBSET Fds, workers : SUBSET Fds, nfds : Nat],
         NEW f \in Fds, NEW m \in Modifies
  PROVE  /\ Modified(s, f, m) \in
               [read : SUBSET Fds, write : SUBSET Fds, workers : SUBSET Fds, nfds : Nat]
         /\ \A g \in Fds : g # f => /\ g \in Modified(s, f, m).read <=> g \in s.read
                                    /\ g \in Modified(s, f, m).write <=> g \in s.write
         /\ m = "kAddRead" => f \in Modified(s, f, m).read
         /\ m \in {"kDeleteRead", "kDeleteAll"} => f \notin Modified(s, f, m).read
         /\ m \notin {"kAddRead", "kDeleteRead", "kDeleteAll"} =>
               (f \in Modified(s, f, m).read <=> f \in s.read)
         /\ m \in {"kAddWrite", "kEnableWrite"} => f \in Modified(s, f, m).write
         /\ m \in {"kDeleteWrite", "kDisableWrite", "kDeleteAll"} => f \notin Modified(s, f, m).write
         /\ m \in {"kNoModify", "kAddRead", "kDeleteRead"} =>
               (f \in Modified(s, f, m).write <=> f \in s.write)
<1> DEFINE r == IF m = "kAddRead" THEN s.read \cup {f}
                ELSE IF m \in {"kDeleteRead", "kDeleteAll"} THEN s.read \ {f} ELSE s.read
           w == IF m \in {"kAddWrite", "kEnableWrite"} THEN s.write \cup {f}
                ELSE IF m \in {"kDeleteWrite", "kDisableWrite", "kDeleteAll"}
                THEN s.write \ {f} ELSE s.write
<1>1. Modified(s, f, m) = [s EXCEPT !.read = r, !.write = w]
  BY DEF Modified
<1>2. r \in SUBSET Fds /\ w \in SUBSET Fds
  OBVIOUS
<1>3. Modified(s, f, m).read = r /\ Modified(s, f, m).write = w
  BY <1>1
<1>4. Modified(s, f, m) \in [read : SUBSET Fds, write : SUBSET Fds, workers : SUBSET Fds, nfds : Nat]
  <2> HIDE DEF r, w
  <2> QED
    BY <1>1, <1>2
<1> QED
  BY <1>3, <1>4 DEF Modifies

\* EventEpoll is told of a Dispatch d, which it has as q before it calls epoll_ctl.
LEMMA RegisteredAnew ==
  ASSUME PollersInv, NEW f \in Fds, Live(f), NEW d \in LiveDispatches, NEW q \in E!Dispatches,
         q.events = d.events, q.addWrite <=> d.addWrite, q.index = epoll[f].index,
         q.inKernel = epoll[f].inKernel, q.interest = epoll[f].interest
  PROVE  E!UpdateDispatch(q) \in E!Dispatches /\ Registered(E!UpdateDispatch(q), d)
<1>1. /\ epoll[f] \in E!Dispatches /\ Registered(epoll[f], dispatch[f])
      /\ dispatch[f] # NoDispatch /\ d # NoDispatch
  BY KnownOfLive, LiveIsSome DEF Live
<1> QED
  BY <1>1, Reregistered DEF Registered

\* EnableRead adds the read filter.
LEMMA ToldEnableRead ==
  ASSUME PollersInv, NEW f \in Fds, EnableRead(f)
  PROVE  \E d, p : UpdateEvents(f, d, p) /\ Told(f, d, p)
<1> DEFINE D == dispatch[f]
           P == epoll[f]
           d == [D EXCEPT !.events = @ \cup {"read"}, !.modify = "kAddRead"]
           q == [P EXCEPT !.events = @ \cup {"read"}]
           p == E!EnableRead(P)
<1>1. /\ D \in LiveDispatches /\ P \in E!Dispatches /\ D # NoDispatch
      /\ "write" \in D.events => D.addWrite
      /\ f \notin added => D.events = {} /\ ~D.addWrite
      /\ kq[f] \in [Events -> {"no", "on", "off"}] /\ Filters(kq[f], D)
      /\ P.events = D.events /\ (P.addWrite <=> D.addWrite)
  BY KnownOfLive, LiveIsSome DEF EnableRead, Registered
<1>2. d \in LiveDispatches /\ d.events = D.events \cup {"read"} /\ d.modify = "kAddRead" /\ d.addWrite = D.addWrite
  BY <1>1 DEF LiveDispatches, Modifies, Events, E!Events, Live
<1>3. p \in E!Dispatches /\ Registered(p, d)
  <2>1. q \in E!Dispatches /\ q.events = d.events /\ (q.addWrite <=> d.addWrite) /\ p = E!UpdateDispatch(q)
    BY <1>1, <1>2 DEF E!Dispatches, E!EnableRead, E!Events
  <2>2. q.index = P.index /\ q.inKernel = P.inKernel /\ q.interest = P.interest
    BY <1>1 DEF E!Dispatches
  <2> HIDE DEF q, p, d
  <2> QED
    BY <1>2, <2>1, <2>2, RegisteredAnew DEF EnableRead
<1> HIDE DEF d, p
<1>4. d # NoDispatch
  BY <1>2, LiveIsSome
<1>5. /\ KqueueChange(kq[f], d.modify) \in [Events -> {"no", "on", "off"}]
      /\ Filters(KqueueChange(kq[f], d.modify), d)
  <2>1. KqueueChange(kq[f], d.modify) = [kq[f] EXCEPT !["read"] = "on"]
    BY <1>1, <1>2 DEF KqueueChange, EvAdd
  <2> QED
    BY <1>1, <1>2, <1>4, <2>1 DEF Filters, Events, E!Events
<1>6. /\ f \in Modified(select, f, d.modify).read <=> "read" \in d.events
      /\ f \in Modified(select, f, d.modify).write <=> "write" \in d.events
  BY <1>1, <1>2, KnownOfLive, ModifiedSets DEF EnableRead, Modifies, Live, Events, E!Events
<1>7. UpdateEvents(f, d, p)
  BY DEF EnableRead, d, p
<1>8. ("write" \in d.events => d.addWrite) /\ (f \notin added => d.events # {})
  BY <1>1, <1>2
<1> QED
  BY <1>2, <1>3, <1>5, <1>6, <1>7, <1>8 DEF Told

\* EnableWrite adds the write filter, or enables it again.
LEMMA ToldEnableWrite ==
  ASSUME PollersInv, NEW f \in Fds, EnableWrite(f)
  PROVE  \E d, p : UpdateEvents(f, d, p) /\ Told(f, d, p)
<1> DEFINE D == dispatch[f]
           P == epoll[f]
           d == [D EXCEPT !.events = @ \cup {"write"}, !.addWrite = TRUE, !.modify = WriteModify(D)]
           q == [P EXCEPT !.events = @ \cup {"write"}, !.addWrite = TRUE]
           p == E!EnableWrite(P)
<1>1. /\ D \in LiveDispatches /\ P \in E!Dispatches /\ D # NoDispatch
      /\ "write" \in D.events => D.addWrite
      /\ f \notin added => D.events = {} /\ ~D.addWrite
      /\ kq[f] \in [Events -> {"no", "on", "off"}] /\ Filters(kq[f], D)
      /\ P.events = D.events /\ (P.addWrite <=> D.addWrite)
  BY KnownOfLive, LiveIsSome DEF EnableWrite, Registered
<1>2. d \in LiveDispatches /\ d.events = D.events \cup {"write"} /\ d.modify = WriteModify(D) /\ d.addWrite = TRUE
  BY <1>1 DEF LiveDispatches, Modifies, Events, E!Events, WriteModify
<1>3. p \in E!Dispatches /\ Registered(p, d)
  <2>1. q \in E!Dispatches /\ q.events = d.events /\ (q.addWrite <=> d.addWrite) /\ p = E!UpdateDispatch(q)
    BY <1>1, <1>2 DEF E!Dispatches, E!EnableWrite, E!Events
  <2>2. q.index = P.index /\ q.inKernel = P.inKernel /\ q.interest = P.interest
    BY <1>1 DEF E!Dispatches
  <2> HIDE DEF q, p, d
  <2> QED
    BY <1>2, <2>1, <2>2, RegisteredAnew DEF EnableWrite
<1> HIDE DEF d, p
<1>4. d # NoDispatch
  BY <1>2, LiveIsSome
<1>5. /\ KqueueChange(kq[f], d.modify) \in [Events -> {"no", "on", "off"}]
      /\ Filters(KqueueChange(kq[f], d.modify), d)
  <2>1. KqueueChange(kq[f], d.modify) = [kq[f] EXCEPT !["write"] = "on"]
    BY <1>1, <1>2 DEF KqueueChange, EvAdd, EvEnable, WriteModify, Filters, Events, E!Events
  <2> QED
    BY <1>1, <1>2, <1>4, <2>1 DEF Filters, Events, E!Events
<1>6. /\ f \in Modified(select, f, d.modify).read <=> "read" \in d.events
      /\ f \in Modified(select, f, d.modify).write <=> "write" \in d.events
  BY <1>1, <1>2, KnownOfLive, ModifiedSets DEF EnableWrite, Modifies, WriteModify, Events, E!Events
<1>7. UpdateEvents(f, d, p)
  BY DEF EnableWrite, d, p
<1>8. ("write" \in d.events => d.addWrite) /\ (f \notin added => d.events # {})
  BY <1>1, <1>2
<1> QED
  BY <1>2, <1>3, <1>5, <1>6, <1>7, <1>8 DEF Told

\* DisableRead deletes the read filter.
LEMMA ToldDisableRead ==
  ASSUME PollersInv, NEW f \in Fds, DisableRead(f)
  PROVE  \E d, p : UpdateEvents(f, d, p) /\ Told(f, d, p)
<1> DEFINE D == dispatch[f]
           P == epoll[f]
           d == [D EXCEPT !.events = @ \ {"read"}, !.modify = "kDeleteRead"]
           q == [P EXCEPT !.events = @ \ {"read"}]
           p == E!DisableRead(P)
<1>1. /\ D \in LiveDispatches /\ P \in E!Dispatches /\ D # NoDispatch
      /\ "write" \in D.events => D.addWrite
      /\ f \notin added => D.events = {} /\ ~D.addWrite
      /\ kq[f] \in [Events -> {"no", "on", "off"}] /\ Filters(kq[f], D)
      /\ P.events = D.events /\ (P.addWrite <=> D.addWrite) /\ f \in added
  BY KnownOfLive, LiveIsSome DEF DisableRead, Registered
<1>2. d \in LiveDispatches /\ d.events = D.events \ {"read"} /\ d.modify = "kDeleteRead" /\ d.addWrite = D.addWrite
  BY <1>1 DEF LiveDispatches, Modifies, Events, E!Events, Live
<1>3. p \in E!Dispatches /\ Registered(p, d)
  <2>1. q \in E!Dispatches /\ q.events = d.events /\ (q.addWrite <=> d.addWrite) /\ p = E!UpdateDispatch(q)
    BY <1>1, <1>2 DEF E!Dispatches, E!DisableRead, E!Events
  <2>2. q.index = P.index /\ q.inKernel = P.inKernel /\ q.interest = P.interest
    BY <1>1 DEF E!Dispatches
  <2> HIDE DEF q, p, d
  <2> QED
    BY <1>2, <2>1, <2>2, RegisteredAnew DEF DisableRead
<1> HIDE DEF d, p
<1>4. d # NoDispatch
  BY <1>2, LiveIsSome
<1>5. /\ KqueueChange(kq[f], d.modify) \in [Events -> {"no", "on", "off"}]
      /\ Filters(KqueueChange(kq[f], d.modify), d)
  <2>1. KqueueChange(kq[f], d.modify) = [kq[f] EXCEPT !["read"] = "no"]
    BY <1>1, <1>2 DEF KqueueChange, EvDelete
  <2> QED
    BY <1>1, <1>2, <1>4, <2>1 DEF Filters, Events, E!Events
<1>6. /\ f \in Modified(select, f, d.modify).read <=> "read" \in d.events
      /\ f \in Modified(select, f, d.modify).write <=> "write" \in d.events
  BY <1>1, <1>2, KnownOfLive, ModifiedSets DEF DisableRead, Modifies, Live, Events, E!Events
<1>7. UpdateEvents(f, d, p)
  BY DEF DisableRead, d, p
<1>8. ("write" \in d.events => d.addWrite) /\ (f \notin added => d.events # {})
  BY <1>1, <1>2
<1> QED
  BY <1>2, <1>3, <1>5, <1>6, <1>7, <1>8 DEF Told

\* DisableWrite turns the write filter off.
LEMMA ToldDisableWrite ==
  ASSUME PollersInv, NEW f \in Fds, DisableWrite(f)
  PROVE  \E d, p : UpdateEvents(f, d, p) /\ Told(f, d, p)
<1> DEFINE D == dispatch[f]
           P == epoll[f]
           d == [D EXCEPT !.events = @ \ {"write"}, !.modify = "kDisableWrite"]
           q == [P EXCEPT !.events = @ \ {"write"}]
           p == E!DisableWrite(P)
<1>1. /\ D \in LiveDispatches /\ P \in E!Dispatches /\ D # NoDispatch
      /\ "write" \in D.events => D.addWrite
      /\ f \notin added => D.events = {} /\ ~D.addWrite
      /\ kq[f] \in [Events -> {"no", "on", "off"}] /\ Filters(kq[f], D)
      /\ P.events = D.events /\ (P.addWrite <=> D.addWrite) /\ D.addWrite
  BY KnownOfLive, LiveIsSome DEF DisableWrite, Registered
<1>2. d \in LiveDispatches /\ d.events = D.events \ {"write"} /\ d.modify = "kDisableWrite" /\ d.addWrite = D.addWrite
  BY <1>1 DEF LiveDispatches, Modifies, Events, E!Events, Live
<1>3. p \in E!Dispatches /\ Registered(p, d)
  <2>1. q \in E!Dispatches /\ q.events = d.events /\ (q.addWrite <=> d.addWrite) /\ p = E!UpdateDispatch(q)
    BY <1>1, <1>2 DEF E!Dispatches, E!DisableWrite, E!Events
  <2>2. q.index = P.index /\ q.inKernel = P.inKernel /\ q.interest = P.interest
    BY <1>1 DEF E!Dispatches
  <2> HIDE DEF q, p, d
  <2> QED
    BY <1>2, <2>1, <2>2, RegisteredAnew DEF DisableWrite
<1> HIDE DEF d, p
<1>4. d # NoDispatch
  BY <1>2, LiveIsSome
<1>5. /\ KqueueChange(kq[f], d.modify) \in [Events -> {"no", "on", "off"}]
      /\ Filters(KqueueChange(kq[f], d.modify), d)
  <2>1. KqueueChange(kq[f], d.modify) = [kq[f] EXCEPT !["write"] = "off"]
    BY <1>1, <1>2 DEF KqueueChange, EvDisable, Filters, Events, E!Events
  <2> QED
    BY <1>1, <1>2, <1>4, <2>1 DEF Filters, Events, E!Events
<1>6. /\ f \in Modified(select, f, d.modify).read <=> "read" \in d.events
      /\ f \in Modified(select, f, d.modify).write <=> "write" \in d.events
  BY <1>1, <1>2, KnownOfLive, ModifiedSets DEF DisableWrite, Modifies, Live, Events, E!Events
<1>7. UpdateEvents(f, d, p)
  BY DEF DisableWrite, d, p
<1>8. ("write" \in d.events => d.addWrite) /\ (f \notin added => d.events # {})
  BY <1>1, <1>2
<1> QED
  BY <1>2, <1>3, <1>5, <1>6, <1>7, <1>8 DEF Told

\* DisableAll deletes the filters there are.
LEMMA ToldDisableAll ==
  ASSUME PollersInv, NEW f \in Fds, DisableAll(f)
  PROVE  \E d, p : UpdateEvents(f, d, p) /\ Told(f, d, p)
<1> DEFINE D == dispatch[f]
           P == epoll[f]
           d == [D EXCEPT !.events = {}, !.addWrite = FALSE, !.modify = AllModify(D)]
           q == [P EXCEPT !.events = {}, !.addWrite = FALSE]
           p == E!DisableAll(P)
<1>1. /\ D \in LiveDispatches /\ P \in E!Dispatches /\ D # NoDispatch
      /\ "write" \in D.events => D.addWrite
      /\ f \notin added => D.events = {} /\ ~D.addWrite
      /\ kq[f] \in [Events -> {"no", "on", "off"}] /\ Filters(kq[f], D)
      /\ P.events = D.events /\ (P.addWrite <=> D.addWrite) /\ AllModify(D) # "kNoModify"
  BY KnownOfLive, LiveIsSome DEF DisableAll, Registered
<1>2. d \in LiveDispatches /\ d.events = {} /\ d.modify = AllModify(D) /\ d.addWrite = FALSE
  BY <1>1 DEF LiveDispatches, Modifies, Events, E!Events, AllModify
<1>3. p \in E!Dispatches /\ Registered(p, d)
  <2>1. q \in E!Dispatches /\ q.events = d.events /\ (q.addWrite <=> d.addWrite) /\ p = E!UpdateDispatch(q)
    BY <1>1, <1>2 DEF E!Dispatches, E!DisableAll, E!Events, E!IsReading, AllModify
  <2>2. q.index = P.index /\ q.inKernel = P.inKernel /\ q.interest = P.interest
    BY <1>1 DEF E!Dispatches
  <2> HIDE DEF q, p, d
  <2> QED
    BY <1>2, <2>1, <2>2, RegisteredAnew DEF DisableAll
<1> HIDE DEF d, p
<1>4. d # NoDispatch
  BY <1>2, LiveIsSome
<1>5. /\ KqueueChange(kq[f], d.modify) \in [Events -> {"no", "on", "off"}]
      /\ Filters(KqueueChange(kq[f], d.modify), d)
  <2>1. CASE D.addWrite /\ "read" \in D.events
    <3>1. KqueueChange(kq[f], d.modify) = [[kq[f] EXCEPT !["read"] = "no"] EXCEPT !["write"] = "no"]
      BY <1>1, <1>2, <2>1 DEF KqueueChange, AllModify, EvDelete, Filters
    <3> QED
      BY <1>1, <1>2, <1>4, <3>1 DEF Filters, Events, E!Events
  <2>2. CASE ~D.addWrite /\ "read" \in D.events
    <3>1. KqueueChange(kq[f], d.modify) = [kq[f] EXCEPT !["read"] = "no"]
      BY <1>1, <1>2, <2>2 DEF KqueueChange, AllModify, EvDelete
    <3> QED
      BY <1>1, <1>2, <1>4, <2>2, <3>1 DEF Filters, Events, E!Events
  <2>3. CASE "read" \notin D.events
    <3>1. KqueueChange(kq[f], d.modify) = [kq[f] EXCEPT !["write"] = "no"]
      BY <1>1, <1>2, <2>3 DEF KqueueChange, AllModify, EvDelete
    <3> QED
      BY <1>1, <1>2, <1>4, <2>3, <3>1 DEF Filters, Events, E!Events
  <2> QED
    BY <2>1, <2>2, <2>3
<1>6. /\ f \in Modified(select, f, d.modify).read <=> "read" \in d.events
      /\ f \in Modified(select, f, d.modify).write <=> "write" \in d.events
  BY <1>1, <1>2, KnownOfLive, ModifiedSets DEF DisableAll, Modifies, AllModify, Events, E!Events
<1>7. UpdateEvents(f, d, p)
  BY DEF DisableAll, d, p
<1>8. ("write" \in d.events => d.addWrite) /\ (f \notin added => d.events # {})
  BY <1>1, <1>2 DEF AllModify
<1> QED
  BY <1>2, <1>3, <1>5, <1>6, <1>7, <1>8 DEF Told

-----------------------------------------------------------------------------
(* Every step keeps the invariant.                                         *)

\* The last key of a map that gets one more or loses some.
LEMMA GreatestKept ==
  ASSUME NEW w \in SUBSET Nat, NEW f \in Nat,
         \A v \in SUBSET w : v = {} \/ \E n \in v : Greatest(n, v)
  PROVE  /\ \A v \in SUBSET (w \ {f}) : v = {} \/ \E n \in v : Greatest(n, v)
         /\ \A v \in SUBSET (w \cup {f}) : v = {} \/ \E n \in v : Greatest(n, v)
<1>1. \A v \in SUBSET (w \ {f}) : v \in SUBSET w
  OBVIOUS
<1>2. ASSUME NEW v \in SUBSET (w \cup {f}), v # {} PROVE \E n \in v : Greatest(n, v)
  <2> DEFINE u == v \ {f}
  <2>1. u \in SUBSET w /\ v \in SUBSET Nat
    OBVIOUS
  <2>2. CASE u = {}
    <3>1. f \in v /\ \A g \in v : g = f
      BY <1>2, <2>2
    <3>2. f >= f
      OBVIOUS
    <3> QED
      BY <3>1, <3>2 DEF Greatest
  <2>3. CASE u # {}
    <3>1. PICK n \in u : Greatest(n, u)
      BY <2>1, <2>3
    <3>2. n \in Nat /\ n \in v /\ \A g \in v : g \in Nat /\ (g = f \/ n >= g)
      BY <2>1, <3>1 DEF Greatest
    <3> HIDE DEF u
    <3>3. CASE f \in v /\ f > n
      <4>1. \A g \in v : f >= g
        BY <3>2, <3>3
      <4> QED
        BY <3>3, <4>1 DEF Greatest
    <3>4. CASE ~(f \in v /\ f > n)
      <4>1. \A g \in v : n >= g
        BY <3>2, <3>4
      <4> QED
        BY <3>2, <4>1 DEF Greatest
    <3> QED
      BY <3>3, <3>4
  <2> QED
    BY <2>2, <2>3
<1> QED
  BY <1>1, <1>2

\* nfds_ is beyond the last key.
LEMMA HighestIsBeyond ==
  ASSUME NEW w \in SUBSET Nat, w = {} \/ \E n \in w : Greatest(n, w)
  PROVE  Highest(w) \in Nat /\ \A f \in w : f < Highest(w)
<1>1. CASE w = {}
  BY <1>1 DEF Highest
<1>2. CASE w # {}
  <2> DEFINE top == CHOOSE n \in w : \A f \in w : n >= f
  <2>1. top \in w /\ \A f \in w : top >= f
    BY <1>2 DEF Greatest
  <2>2. Highest(w) = 1 + top
    BY <1>2 DEF Highest
  <2> HIDE DEF top
  <2> QED
    BY <2>1, <2>2
<1> QED
  BY <1>1, <1>2

\* An entry of a sequence is replaced.
LEMMA EntryReplaced ==
  ASSUME NEW S, NEW q \in Seq(S), NEW i \in 1..Len(q), NEW e \in S
  PROVE  [q EXCEPT ![i] = e] \in Seq(S) /\ Len([q EXCEPT ![i] = e]) = Len(q)
OBVIOUS

\* Entries of two Dispatches are not the same: their fds differ.
LEMMA EntriesDiffer ==
  ASSUME NEW f \in Fds, NEW g \in Fds, f # g, NEW d, NEW e
  PROVE  EntryOf(f, d) # EntryOf(g, e)
<1>1. f \in Nat /\ g \in Nat
  BY FdsAssumption
<1>2. EntryOf(f, d).fd \in {f, -f - 1} /\ EntryOf(g, e).fd \in {g, -g - 1}
  BY DEF EntryOf, Ignored
<1>3. \A x \in {f, -f - 1} : \A y \in {g, -g - 1} : x # y
  BY <1>1
<1> QED
  BY <1>2, <1>3

\* EventSelect follows.
LEMMA SelectKept ==
  ASSUME PollersInv, NEW f \in Fds, Live(f), NEW d, NEW p, UpdateEvents(f, d, p), Told(f, d, p)
  PROVE  SelectInv'
<1> DEFINE S == [read : SUBSET Fds, write : SUBSET Fds, workers : SUBSET Fds, nfds : Nat]
           s == Modified(select, f, d.modify)
           w == IF d.events = {} THEN select.workers \ {f} ELSE select.workers \cup {f}
<1>1. /\ select \in S /\ Fds \subseteq Nat /\ d.modify \in Modifies
      /\ \A v \in SUBSET select.workers : v = {} \/ \E n \in v : Greatest(n, v)
  BY FdsAssumption DEF PollersInv, SelectInv, Told, LiveDispatches
<1>2. s \in S /\ w \in SUBSET Fds
  BY <1>1, ModifiedSets
<1>3. \A v \in SUBSET w : v = {} \/ \E n \in v : Greatest(n, v)
  <2>1. select.workers \in SUBSET Nat /\ f \in Nat
    BY <1>1
  <2> QED
    BY <1>1, <2>1, GreatestKept
<1>4. Highest(w) \in Nat /\ \A g \in w : g < Highest(w)
  <2>1. w \in SUBSET w /\ w \in SUBSET Nat
    BY <1>1, <1>2
  <2> HIDE DEF w
  <2> QED
    BY <1>3, <2>1, HighestIsBeyond
<1>5. select' = [s EXCEPT !.workers = w, !.nfds = Highest(w)]
  BY DEF UpdateEvents, SelectUpdate
<1>6. \A g \in Fds : g # f => dispatch'[g] = dispatch[g] /\ (Live(g)' <=> Live(g))
  BY DEF UpdateEvents, PollersInv, DispatchInv, Live
<1>7. dispatch'[f] = d /\ Live(f)'
  <2>1. dispatch'[f] = d
    BY DEF UpdateEvents, PollersInv, DispatchInv
  <2> QED
    BY <2>1, LiveIsSome DEF Live, Told
<1>8. /\ \A g \in Fds : g # f => (g \in s.read <=> g \in select.read) /\ (g \in s.write <=> g \in select.write)
      /\ f \in s.read <=> "read" \in d.events
      /\ f \in s.write <=> "write" \in d.events
  BY <1>1, ModifiedSets DEF Told
<1>9. \A g \in Fds : g # f => (g \in w <=> g \in select.workers)
  OBVIOUS
<1>10. f \in w <=> d.events # {}
  OBVIOUS
<1> HIDE DEF s, w
<1>11. select' \in S /\ select'.read = s.read /\ select'.write = s.write /\ select'.workers = w
       /\ select'.nfds = Highest(w)
  BY <1>2, <1>4, <1>5
<1>12. ASSUME NEW g \in Fds
       PROVE  /\ g \in select'.read <=> Live(g)' /\ "read" \in dispatch'[g].events
              /\ g \in select'.write <=> Live(g)' /\ "write" \in dispatch'[g].events
              /\ g \in select'.workers <=> Live(g)' /\ dispatch'[g].events # {}
  <2>1. CASE g = f
    BY <1>7, <1>8, <1>10, <1>11, <2>1
  <2>2. CASE g # f
    BY <1>6, <1>8, <1>9, <1>11, <2>2 DEF PollersInv, SelectInv
  <2> QED
    BY <2>1, <2>2
<1> QED
  BY <1>3, <1>4, <1>11, <1>12 DEF SelectInv

\* An update of an entry, or a new one, keeps EventPoll's vector and the indices.
LEMMA PollKept ==
  ASSUME PollersInv, NEW f \in Fds, Live(f), NEW d, NEW p, UpdateEvents(f, d, p), Told(f, d, p)
  PROVE  PollInv'
<1> DEFINE n == Len(pollfds_)
           e == EntryOf(f, d)
<1>1. /\ index_ \in [Fds -> Nat \cup {-1}] /\ pollfds_ \in Seq(Entries) /\ n \in Nat
      /\ \A g \in Fds : Live(g) /\ g \notin added => index_[g] = -1
      /\ \A g \in added : index_[g] + 1 \in 1..n /\ pollfds_[index_[g] + 1] = EntryOf(g, dispatch[g])
      /\ \A i \in 1..n : \E g \in added : index_[g] + 1 = i
      /\ added \subseteq Fds
  BY LenProperties DEF PollersInv, PollInv, DispatchInv
<1>2. /\ \A g \in Fds : g # f => dispatch'[g] = dispatch[g] /\ (Live(g)' <=> Live(g))
      /\ dispatch'[f] = d /\ added' = added \cup {f}
  BY DEF UpdateEvents, PollersInv, DispatchInv, Live
<1>3. e \in Entries /\ f \in Int
  <2>1. d.events \in SUBSET Events /\ f \in Nat
    BY FdsAssumption DEF Told, LiveDispatches
  <2> QED
    BY <2>1 DEF EntryOf, Entries, Ignored
<1>4. \A g \in Fds \ added : index_[g] = -1 \/ ~Live(g)
  BY <1>1
<1>5. CASE f \in added
  <2>1. index_[f] # -1 /\ index_[f] + 1 \in 1..n
    <3>1. index_[f] + 1 \in 1..n /\ index_[f] \in Nat \cup {-1}
      BY <1>1, <1>5
    <3> QED
      BY <3>1
  <2>2. pollfds_' = [pollfds_ EXCEPT ![index_[f] + 1] = e] /\ index_' = index_
    BY <2>1 DEF UpdateEvents, PollUpdate, EntryOf
  <2> HIDE DEF e
  <2>3. pollfds_' \in Seq(Entries) /\ Len(pollfds_') = n
    BY <1>1, <1>3, <2>1, <2>2, EntryReplaced
  <2>4. ASSUME NEW g \in added'
        PROVE  index_'[g] + 1 \in 1..n /\ pollfds_'[index_'[g] + 1] = EntryOf(g, dispatch'[g])
    <3>1. g \in added
      BY <1>2, <1>5
    <3>2. CASE g = f
      BY <1>1, <1>2, <2>1, <2>2, <3>2 DEF e
    <3>3. CASE g # f
      <4>1. index_[g] + 1 # index_[f] + 1
        BY <1>1, <1>5, <3>1, <3>3, EntriesDiffer DEF PollersInv, DispatchInv
      <4> QED
        BY <1>1, <1>2, <2>1, <2>2, <3>1, <3>3, <4>1
    <3> QED
      BY <3>2, <3>3
  <2>5. \A g \in Fds : Live(g)' /\ g \notin added' => index_'[g] = -1
    BY <1>1, <1>2, <2>2
  <2>6. \A i \in 1..n : \E g \in added' : index_'[g] + 1 = i
    BY <1>1, <1>2, <2>2
  <2> QED
    BY <1>1, <2>2, <2>3, <2>4, <2>5, <2>6 DEF PollInv
<1>6. CASE f \notin added
  <2>1. index_[f] = -1 /\ d.events # {}
    BY <1>1, <1>6 DEF Told
  <2>2. pollfds_' = Append(pollfds_, e) /\ index_' = [index_ EXCEPT ![f] = n]
    BY <2>1 DEF UpdateEvents, PollUpdate, EntryOf
  <2> HIDE DEF e
  <2>3. /\ pollfds_' \in Seq(Entries) /\ Len(pollfds_') = n + 1
        /\ \A i \in 1..n : pollfds_'[i] = pollfds_[i]
        /\ pollfds_'[n + 1] = e
    BY <1>1, <1>3, <2>2, AppendProperties
  <2>4. index_' \in [Fds -> Nat \cup {-1}] /\ index_'[f] = n /\ \A g \in Fds : g # f => index_'[g] = index_[g]
    BY <1>1, <2>2
  <2> HIDE DEF n
  <2>5. ASSUME NEW g \in added'
        PROVE  index_'[g] + 1 \in 1..n + 1 /\ pollfds_'[index_'[g] + 1] = EntryOf(g, dispatch'[g])
    <3>1. CASE g = f
      BY <1>1, <1>2, <2>3, <2>4, <3>1 DEF e
    <3>2. CASE g # f
      <4>1. /\ g \in added /\ index_'[g] = index_[g] /\ index_[g] + 1 \in 1..n
            /\ pollfds_[index_[g] + 1] = EntryOf(g, dispatch[g]) /\ dispatch'[g] = dispatch[g]
        BY <1>1, <1>2, <2>4, <3>2
      <4>2. index_[g] + 1 \in 1..n + 1
        BY <1>1, <4>1
      <4> QED
        BY <2>3, <4>1, <4>2
    <3> QED
      BY <3>1, <3>2
  <2>6. \A g \in Fds : Live(g)' /\ g \notin added' => index_'[g] = -1
    BY <1>1, <1>2, <2>4
  <2>7. ASSUME NEW i \in 1..n + 1 PROVE \E g \in added' : index_'[g] + 1 = i
    <3>1. CASE i = n + 1
      BY <1>2, <2>4, <3>1
    <3>2. CASE i # n + 1
      <4>1. i \in 1..n
        BY <1>1, <3>2
      <4>2. PICK g \in added : index_[g] + 1 = i
        BY <1>1, <4>1
      <4> QED
        BY <1>1, <1>2, <1>6, <2>4, <4>2
    <3> QED
      BY <3>1, <3>2
  <2> QED
    BY <2>3, <2>4, <2>5, <2>6, <2>7 DEF PollInv
<1> QED
  BY <1>5, <1>6

\* An operation of a Dispatch keeps the invariant.
LEMMA UpdateKept ==
  ASSUME PollersInv, NEW f \in Fds, Live(f), NEW d, NEW p, UpdateEvents(f, d, p), Told(f, d, p)
  PROVE  PollersInv'
<1>1. /\ dispatch' = [dispatch EXCEPT ![f] = d] /\ added' = added \cup {f}
      /\ kq' = [kq EXCEPT ![f] = KqueueChange(@, d.modify)] /\ epoll' = [epoll EXCEPT ![f] = p]
  BY DEF UpdateEvents, KqueueUpdate
<1>2. dispatch \in [Fds -> LiveDispatches \cup {NoDispatch}] /\ d \in LiveDispatches /\ d # NoDispatch
  BY LiveIsSome DEF PollersInv, DispatchInv, Told
<1>3. /\ dispatch'[f] = d /\ \A g \in Fds : g # f => dispatch'[g] = dispatch[g]
      /\ Live(f)' /\ \A g \in Fds : g # f => (Live(g)' <=> Live(g))
  BY <1>1, <1>2 DEF Live
<1>4. DispatchInv'
  <2>1. dispatch' \in [Fds -> LiveDispatches \cup {NoDispatch}] /\ added' \subseteq Fds
    BY <1>1, <1>2 DEF PollersInv, DispatchInv
  <2>2. \A g \in Fds :
          /\ Live(g)' => /\ "write" \in dispatch'[g].events => dispatch'[g].addWrite
                         /\ g \notin added' => dispatch'[g].events = {} /\ ~dispatch'[g].addWrite
          /\ g \in added' => Live(g)'
    BY <1>1, <1>3 DEF PollersInv, DispatchInv, Told
  <2> QED
    BY <2>1, <2>2 DEF DispatchInv
<1>5. KqueueInv'
  <2>1. kq' \in [Fds -> [Events -> {"no", "on", "off"}]]
    BY <1>1 DEF PollersInv, KqueueInv, Told
  <2>2. /\ kq'[f] = KqueueChange(kq[f], d.modify)
        /\ \A g \in Fds : g # f => kq'[g] = kq[g]
    BY <1>1 DEF PollersInv, KqueueInv
  <2>3. \A g \in Fds : Filters(kq'[g], dispatch'[g])
    BY <1>3, <2>2 DEF PollersInv, KqueueInv, Told
  <2> QED
    BY <2>1, <2>3 DEF KqueueInv
<1>6. EpollInv'
  <2>1. /\ epoll' \in [Fds -> E!Dispatches] /\ epoll'[f] = p
        /\ \A g \in Fds : g # f => epoll'[g] = epoll[g]
    BY <1>1 DEF PollersInv, EpollInv, Told
  <2>2. \A g \in Fds : Registered(epoll'[g], dispatch'[g])
    BY <1>3, <2>1 DEF PollersInv, EpollInv, Told
  <2> QED
    BY <2>1, <2>2 DEF EpollInv
<1> QED
  BY <1>4, <1>5, <1>6, SelectKept, PollKept DEF PollersInv

\* A new Dispatch is known to no poller.
LEMMA OpenKept ==
  ASSUME PollersInv, NEW f \in Fds, Open(f)
  PROVE  PollersInv'
<1>1. /\ dispatch' = [dispatch EXCEPT ![f] = NewDispatch] /\ index_' = [index_ EXCEPT ![f] = -1]
      /\ epoll' = [epoll EXCEPT ![f] = E!NewDispatch] /\ UNCHANGED <<pollfds_, added, select, kq>>
      /\ dispatch[f] = NoDispatch
  BY DEF Open, Live
<1>2. /\ NewDispatch \in LiveDispatches /\ NewDispatch # NoDispatch
      /\ NewDispatch.events = {} /\ ~NewDispatch.addWrite
  <2>1. NewDispatch \in LiveDispatches /\ NewDispatch.events = {} /\ ~NewDispatch.addWrite
    BY DEF NewDispatch, LiveDispatches, Modifies
  <2> QED
    BY <2>1, LiveIsSome
<1>3. /\ dispatch'[f] = NewDispatch /\ \A g \in Fds : g # f => dispatch'[g] = dispatch[g]
      /\ Live(f)' /\ \A g \in Fds : g # f => (Live(g)' <=> Live(g))
      /\ f \notin added
  BY <1>1, <1>2 DEF Live, PollersInv, DispatchInv
<1>4. DispatchInv'
  <2>1. dispatch' \in [Fds -> LiveDispatches \cup {NoDispatch}]
    BY <1>1, <1>2 DEF PollersInv, DispatchInv
  <2> QED
    BY <1>1, <1>2, <1>3, <2>1 DEF PollersInv, DispatchInv
<1>5. PollInv'
  <2>1. /\ index_' \in [Fds -> Nat \cup {-1}] /\ index_'[f] = -1
        /\ \A g \in Fds : g # f => index_'[g] = index_[g]
    BY <1>1 DEF PollersInv, PollInv
  <2>2. \A g \in added : g \in Fds /\ g # f
    BY <1>3 DEF PollersInv, DispatchInv
  <2> QED
    BY <1>1, <1>3, <2>1, <2>2 DEF PollersInv, PollInv
<1>6. SelectInv'
  BY <1>1, <1>2, <1>3 DEF PollersInv, SelectInv, Live
<1>7. KqueueInv'
  <2>1. Filters(kq[f], NewDispatch)
    BY <1>1, <1>2 DEF PollersInv, KqueueInv, Filters, Events, E!Events
  <2> QED
    BY <1>1, <1>3, <2>1 DEF PollersInv, KqueueInv
<1>8. EpollInv'
  <2>1. E!NewDispatch \in E!Dispatches /\ Registered(E!NewDispatch, NewDispatch)
    BY <1>2 DEF E!NewDispatch, E!Dispatches, Registered
  <2>2. /\ epoll' \in [Fds -> E!Dispatches] /\ epoll'[f] = E!NewDispatch
        /\ \A g \in Fds : g # f => epoll'[g] = epoll[g]
    BY <1>1, <2>1 DEF PollersInv, EpollInv
  <2> QED
    BY <1>3, <2>1, <2>2 DEF PollersInv, EpollInv
<1> QED
  BY <1>4, <1>5, <1>6, <1>7, <1>8 DEF PollersInv

\* The last entry takes the place of the removed one, and its Dispatch is told so.
LEMMA PollRemoveKept ==
  ASSUME PollersInv, NEW f \in Fds, RemoveEvents(f)
  PROVE  PollInv'
<1> DEFINE n == Len(pollfds_)
           k == index_[f]
           last == pollfds_[n]
<1>1. /\ index_ \in [Fds -> Nat \cup {-1}] /\ pollfds_ \in Seq(Entries) /\ n \in Nat
      /\ \A g \in Fds : Live(g) /\ g \notin added => index_[g] = -1
      /\ \A g \in added : index_[g] + 1 \in 1..n /\ pollfds_[index_[g] + 1] = EntryOf(g, dispatch[g])
      /\ \A i \in 1..n : \E g \in added : index_[g] + 1 = i
      /\ added \subseteq Fds
  BY LenProperties DEF PollersInv, PollInv, DispatchInv
<1>2. /\ f \in added /\ added' = added \ {f}
      /\ \A g \in Fds : g # f => dispatch'[g] = dispatch[g] /\ (Live(g)' <=> Live(g))
      /\ ~Live(f)'
      /\ PollRemove(f)
  BY DEF RemoveEvents, PollersInv, DispatchInv, Live
<1>3. k + 1 \in 1..n /\ k \in Nat /\ n >= 1
  <2>1. k + 1 \in 1..n /\ k \in Nat \cup {-1}
    BY <1>1, <1>2
  <2> QED
    BY <1>1, <2>1
<1>4. /\ pollfds_' = [i \in 1..(n - 1) |-> IF i = k + 1 THEN last ELSE pollfds_[i]]
      /\ index_' = IF k = n - 1 THEN index_ ELSE Reindexed(last.fd, k)
  BY <1>2 DEF PollRemove
<1>5. \A g \in added : g # f => index_[g] # k
  <2>1. ASSUME NEW g \in added, g # f, index_[g] = k PROVE FALSE
    BY <1>1, <1>2, <2>1, EntriesDiffer
  <2> QED
    BY <2>1
<1>6. PICK h \in added : index_[h] + 1 = n
  BY <1>1, <1>3
<1>7. h \in Fds /\ last = EntryOf(h, dispatch[h]) /\ last \in Entries /\ index_[h] = n - 1
  <2>1. last = EntryOf(h, dispatch[h])
    BY <1>1, <1>6
  <2>2. last \in Entries
    BY <1>1, <1>3, ElementOfSeq
  <2>3. index_[h] \in Nat \cup {-1}
    BY <1>1, <1>6
  <2>4. index_[h] = n - 1
    <3> DEFINE x == index_[h]
    <3>1. x \in Nat \cup {-1} /\ x + 1 = n /\ n \in Nat
      BY <1>1, <1>6, <2>3
    <3> HIDE DEF x, n
    <3>2. x = n - 1
      BY <3>1
    <3> QED
      BY <3>2 DEF x
  <2> QED
    BY <1>1, <2>1, <2>2, <2>4
<1> HIDE DEF n, k, last
<1>8. pollfds_' \in Seq(Entries) /\ Len(pollfds_') = n - 1
  <2>1. pollfds_' \in [1..(n - 1) -> Entries]
    <3>1. \A i \in 1..(n - 1) : pollfds_[i] \in Entries
      BY <1>1, <1>3, ElementOfSeq DEF n
    <3> QED
      BY <1>4, <1>7, <3>1
  <2>2. n - 1 \in Nat
    BY <1>1, <1>3
  <2> QED
    BY <2>1, <2>2, FunctionIsSeq
<1>9. /\ index_' \in [Fds -> Nat \cup {-1}]
      /\ \A g \in added' : index_'[g] = IF g = h THEN k ELSE index_[g]
      /\ \A g \in Fds : g \notin added => index_'[g] = index_[g]
  <2>1. CASE k = n - 1
    <3>1. h = f
      BY <1>3, <1>5, <1>6, <1>7, <2>1
    <3> QED
      BY <1>1, <1>2, <1>4, <2>1, <3>1
  <2>2. CASE k # n - 1
    <3>1. (IF last.fd < 0 THEN -last.fd - 1 ELSE last.fd) = h
      <4>1. h \in Nat
        BY <1>7, FdsAssumption
      <4>2. last.fd = h \/ last.fd = -h - 1
        BY <1>7 DEF EntryOf, Ignored
      <4> DEFINE x == last.fd
      <4>3. x = h \/ x = -h - 1
        BY <4>2
      <4> HIDE DEF x
      <4>4. (IF x < 0 THEN -x - 1 ELSE x) = h
        BY <4>1, <4>3
      <4> QED
        BY <4>4 DEF x
    <3>2. index_' = [index_ EXCEPT ![h] = k]
      BY <1>4, <2>2, <3>1 DEF Reindexed
    <3> QED
      BY <1>1, <1>2, <1>3, <1>6, <1>7, <3>2
  <2> QED
    BY <2>1, <2>2
<1>10. ASSUME NEW g \in added'
       PROVE  /\ index_'[g] + 1 \in 1..(n - 1)
              /\ pollfds_'[index_'[g] + 1] = EntryOf(g, dispatch'[g])
  <2>1. g \in added /\ g \in Fds /\ g # f /\ dispatch'[g] = dispatch[g] /\ index_[g] # k
    BY <1>1, <1>2, <1>5
  <2>2. index_[g] + 1 \in 1..n /\ pollfds_[index_[g] + 1] = EntryOf(g, dispatch[g]) /\ index_[g] \in Nat \cup {-1}
    BY <1>1, <2>1 DEF n
  <2>3. CASE g = h
    <3>1. k # n - 1
      BY <1>7, <2>1, <2>3
    <3>2. index_'[g] = k /\ k + 1 \in 1..(n - 1)
      BY <1>1, <1>3, <1>9, <2>3, <3>1
    <3> QED
      BY <1>4, <1>7, <2>1, <2>3, <3>2
  <2>4. CASE g # h
    <3>1. index_[g] # n - 1
      <4>1. ASSUME index_[g] = n - 1 PROVE FALSE
        <5>1. EntryOf(g, dispatch[g]) = EntryOf(h, dispatch[h])
          BY <1>1, <1>6, <1>7, <2>2, <4>1 DEF n
        <5> QED
          BY <1>7, <2>1, <2>4, <5>1, EntriesDiffer
      <4> QED
        BY <4>1
    <3>2. index_'[g] = index_[g] /\ index_[g] + 1 \in 1..(n - 1) /\ index_[g] + 1 # k + 1
      BY <1>1, <1>3, <1>9, <2>1, <2>2, <2>4, <3>1
    <3> QED
      BY <1>4, <2>1, <2>2, <3>2
  <2> QED
    BY <2>3, <2>4
<1>11. ASSUME NEW i \in 1..(n - 1) PROVE \E g \in added' : index_'[g] + 1 = i
  <2>1. CASE i = k + 1
    <3>1. h # f
      BY <1>1, <1>3, <1>7, <2>1 DEF k
    <3> QED
      BY <1>2, <1>9, <2>1, <3>1
  <2>2. CASE i # k + 1
    <3>1. i \in 1..n /\ i # n
      BY <1>1
    <3>2. PICK g \in added : index_[g] + 1 = i
      BY <1>1, <3>1 DEF n
    <3>3. g # f /\ g # h
      BY <1>6, <2>2, <3>1, <3>2 DEF k
    <3> QED
      BY <1>2, <1>9, <3>2, <3>3
  <2> QED
    BY <2>1, <2>2
<1>12. \A g \in Fds : Live(g)' /\ g \notin added' => index_'[g] = -1
  BY <1>1, <1>2, <1>9
<1> QED
  BY <1>8, <1>9, <1>10, <1>11, <1>12 DEF PollInv

\* A Dispatch that asks for nothing leaves every poller.
LEMMA RemoveKept ==
  ASSUME PollersInv, NEW f \in Fds, RemoveEvents(f)
  PROVE  PollersInv'
<1> DEFINE D == dispatch[f]
           P == epoll[f]
<1>1. /\ dispatch' = [dispatch EXCEPT ![f] = NoDispatch] /\ added' = added \ {f}
      /\ epoll' = [epoll EXCEPT ![f] = E!RemoveDispatch(@)] /\ UNCHANGED <<select, kq>>
  BY DEF RemoveEvents
<1>2. /\ D \in LiveDispatches /\ D # NoDispatch /\ P \in E!Dispatches
      /\ Filters(kq[f], D) /\ Registered(P, D)
      /\ "write" \in D.events => D.addWrite
  BY KnownOfLive, LiveIsSome DEF RemoveEvents
<1>3. D.events = {} /\ ~D.addWrite
  <2>1. "read" \notin D.events /\ ~D.addWrite /\ D.events \in SUBSET Events
    BY <1>2 DEF RemoveEvents, AllModify, LiveDispatches
  <2> QED
    BY <1>2, <2>1 DEF Events, E!Events
<1>4. /\ dispatch'[f] = NoDispatch /\ \A g \in Fds : g # f => dispatch'[g] = dispatch[g]
      /\ ~Live(f)' /\ \A g \in Fds : g # f => (Live(g)' <=> Live(g))
  BY <1>1 DEF Live, PollersInv, DispatchInv
<1>5. DispatchInv'
  <2>1. dispatch' \in [Fds -> LiveDispatches \cup {NoDispatch}]
    BY <1>1 DEF PollersInv, DispatchInv
  <2> QED
    BY <1>1, <1>4, <2>1 DEF PollersInv, DispatchInv
<1>6. SelectInv'
  <2>1. Live(f)
    BY DEF RemoveEvents
  <2> QED
    BY <1>1, <1>3, <1>4, <2>1 DEF PollersInv, SelectInv
<1>7. KqueueInv'
  <2>1. Filters(kq[f], NoDispatch)
    BY <1>2, <1>3 DEF Filters, Events, E!Events
  <2> QED
    BY <1>1, <1>4, <2>1 DEF PollersInv, KqueueInv
<1>8. EpollInv'
  <2> DEFINE q == E!RemoveDispatch(P)
  <2>1. q \in E!Dispatches /\ q.interest = {}
    <3>1. P.interest = {}
      BY <1>2, <1>3 DEF Registered
    <3> QED
      BY <1>2, <3>1 DEF E!RemoveDispatch, E!CtlDel, E!Dispatches
  <2>2. /\ epoll' \in [Fds -> E!Dispatches] /\ epoll'[f] = q
        /\ \A g \in Fds : g # f => epoll'[g] = epoll[g]
    BY <1>1, <2>1 DEF PollersInv, EpollInv
  <2> QED
    BY <1>4, <2>1, <2>2 DEF PollersInv, EpollInv, Registered
<1> QED
  BY <1>5, <1>6, <1>7, <1>8, PollRemoveKept DEF PollersInv

\* In the beginning nothing is watched.
LEMMA InitPollersInv == PollersInit => PollersInv
<1> SUFFICES ASSUME PollersInit PROVE PollersInv
  OBVIOUS
<1>1. \A f \in Fds : ~Live(f)
  BY DEF PollersInit, Live
<1>2. DispatchInv
  BY <1>1 DEF PollersInit, DispatchInv
<1>3. PollInv
  <2>1. pollfds_ = << >> /\ Len(<< >>) = 0 /\ << >> \in Seq(Entries) /\ added = {}
    BY DEF PollersInit
  <2> QED
    BY <1>1, <2>1 DEF PollersInit, PollInv
<1>4. SelectInv
  <2>1. select \in [read : SUBSET Fds, write : SUBSET Fds, workers : SUBSET Fds, nfds : Nat]
    BY DEF PollersInit
  <2>2. select.read = {} /\ select.write = {} /\ select.workers = {}
    BY DEF PollersInit
  <2> QED
    BY <1>1, <2>1, <2>2 DEF SelectInv
<1>5. KqueueInv
  BY DEF PollersInit, KqueueInv, Filters
<1>6. EpollInv
  <2>1. E!NewDispatch \in E!Dispatches /\ E!NewDispatch.interest = {}
    BY DEF E!NewDispatch, E!Dispatches
  <2> QED
    BY <2>1 DEF PollersInit, EpollInv, Registered
<1> QED
  BY <1>2, <1>3, <1>4, <1>5, <1>6 DEF PollersInv

\* The inductive invariant holds in every reachable state.
THEOREM PollersInvariance == PollersSpec => []PollersInv
<1>1. PollersInv /\ [PollersNext]_pollersVars => PollersInv'
  <2> SUFFICES ASSUME PollersInv, [PollersNext]_pollersVars PROVE PollersInv'
    OBVIOUS
  <2>1. CASE UNCHANGED pollersVars
    BY <2>1 DEF pollersVars, PollersInv, DispatchInv, PollInv, SelectInv, KqueueInv, EpollInv, Live
  <2>2. ASSUME NEW f \in Fds, Open(f) PROVE PollersInv'
    BY <2>2, OpenKept
  <2>3. ASSUME NEW f \in Fds, RemoveEvents(f) PROVE PollersInv'
    BY <2>3, RemoveKept
  <2>4. ASSUME NEW f \in Fds, EnableRead(f) PROVE PollersInv'
    BY <2>4, ToldEnableRead, UpdateKept DEF EnableRead
  <2>5. ASSUME NEW f \in Fds, EnableWrite(f) PROVE PollersInv'
    BY <2>5, ToldEnableWrite, UpdateKept DEF EnableWrite
  <2>6. ASSUME NEW f \in Fds, DisableRead(f) PROVE PollersInv'
    BY <2>6, ToldDisableRead, UpdateKept DEF DisableRead
  <2>7. ASSUME NEW f \in Fds, DisableWrite(f) PROVE PollersInv'
    BY <2>7, ToldDisableWrite, UpdateKept DEF DisableWrite
  <2>8. ASSUME NEW f \in Fds, DisableAll(f) PROVE PollersInv'
    BY <2>8, ToldDisableAll, UpdateKept DEF DisableAll
  <2> QED
    BY <2>1, <2>2, <2>3, <2>4, <2>5, <2>6, <2>7, <2>8 DEF PollersNext
<1> QED
  BY <1>1, InitPollersInv, PTL DEF PollersSpec

-----------------------------------------------------------------------------
(* What the pollers report.                                                *)

\* EventPoll reports for f the events of its one entry.
LEMMA PollIsExact == PollersInv => PollExact
<1> SUFFICES ASSUME PollersInv, NEW f \in Fds
             PROVE  /\ PollReport(f, AllReady) = Asked(f, AllReady)
                    /\ f \in added => /\ index_[f] + 1 \in DOMAIN pollfds_
                                      /\ pollfds_[index_[f] + 1].fd =
                                            IF dispatch[f].events = {} THEN Ignored(f) ELSE f
  BY DEF PollExact
<1> DEFINE n == Len(pollfds_)
           D == dispatch[f]
           J == {j \in DOMAIN pollfds_ : pollfds_[j].fd = f}
<1>1. /\ pollfds_ \in Seq(Entries) /\ DOMAIN pollfds_ = 1..n /\ added \subseteq Fds
      /\ \A g \in added : index_[g] + 1 \in 1..n /\ pollfds_[index_[g] + 1] = EntryOf(g, dispatch[g])
      /\ \A i \in 1..n : \E g \in added : index_[g] + 1 = i
  BY LenProperties DEF PollersInv, PollInv, DispatchInv
<1>2. AllReady[f] = Events /\ f \in Nat
  BY FdsAssumption DEF AllReady
<1>3. ASSUME NEW j \in J PROVE f \in added /\ j = index_[f] + 1 /\ D.events # {}
  <2>1. PICK g \in added : index_[g] + 1 = j
    BY <1>1
  <2>2. EntryOf(g, dispatch[g]).fd = f /\ g \in Nat
    BY <1>1, <1>3, <2>1, FdsAssumption
  <2>3. dispatch[g].events # {} /\ g = f
    BY <1>2, <2>2 DEF EntryOf, Ignored
  <2> QED
    BY <2>1, <2>3
<1>4. ASSUME f \in added
      PROVE  /\ index_[f] + 1 \in 1..n /\ pollfds_[index_[f] + 1] = EntryOf(f, D)
             /\ Live(f) /\ D.events \in SUBSET Events
  BY <1>1, <1>4, KnownOfLive DEF PollersInv, DispatchInv, LiveDispatches
<1>5. PollReport(f, AllReady) = Asked(f, AllReady)
  <2>1. CASE f \in added /\ D.events # {}
    <3>1. J = {index_[f] + 1}
      <4>1. pollfds_[index_[f] + 1].fd = f
        BY <1>4, <2>1 DEF EntryOf
      <4> QED
        BY <1>1, <1>3, <1>4, <2>1, <4>1
    <3>2. pollfds_[index_[f] + 1].events = D.events
      BY <1>4, <2>1 DEF EntryOf
    <3> HIDE DEF J
    <3>3. PollReport(f, AllReady) = D.events \cap Events
      <4>1. PollReport(f, AllReady) = UNION {pollfds_[i].events \cap AllReady[f] : i \in J}
        BY DEF PollReport, J
      <4> QED
        BY <1>2, <3>1, <3>2, <4>1
    <3> QED
      BY <1>2, <1>4, <2>1, <3>3 DEF Asked
  <2>2. CASE ~(f \in added /\ D.events # {})
    <3>1. J = {}
      BY <1>3, <2>2
    <3>2. PollReport(f, AllReady) = {}
      BY <3>1 DEF PollReport
    <3>3. Live(f) => D.events = {}
      BY <2>2 DEF PollersInv, DispatchInv
    <3> QED
      BY <3>2, <3>3 DEF Asked
  <2> QED
    BY <2>1, <2>2
<1>6. ASSUME f \in added
      PROVE  /\ index_[f] + 1 \in DOMAIN pollfds_
             /\ pollfds_[index_[f] + 1].fd = IF D.events = {} THEN Ignored(f) ELSE f
  BY <1>1, <1>4, <1>6 DEF EntryOf
<1> QED
  BY <1>5, <1>6

\* Every poller reports for every Dispatch what it asks for and nothing else, whatever
\* was enabled, disabled and removed in whatever order.
THEOREM PollersAgree == PollersSpec => []WatchedExactly
<1>1. PollersInv => WatchedExactly
  <2> SUFFICES ASSUME PollersInv PROVE WatchedExactly
    OBVIOUS
  <2>1. PollersTypeOK
    <3>1. \A f \in Fds : Live(f) => dispatch[f].events \subseteq Events
      BY KnownOfLive DEF LiveDispatches
    <3> QED
      BY <3>1 DEF PollersTypeOK, PollersInv, DispatchInv, PollInv, KqueueInv, EpollInv, Entries
  <2>2. \A f \in Fds : AllReady[f] = Events
    BY DEF AllReady
  <2>3. \A f \in Fds : Live(f) => dispatch[f].events \in SUBSET Events
    BY KnownOfLive DEF LiveDispatches
  <2>4. SelectExact
    <3>1. ASSUME NEW f \in Fds PROVE SelectReport(f, AllReady) = Asked(f, AllReady)
      <4> DEFINE r == (IF f \in select.read THEN {"read"} ELSE {})
                      \cup (IF f \in select.write THEN {"write"} ELSE {})
      <4>1. /\ f \in select.workers => f < select.nfds
            /\ f \in select.read <=> Live(f) /\ "read" \in dispatch[f].events
            /\ f \in select.write <=> Live(f) /\ "write" \in dispatch[f].events
            /\ f \in select.workers <=> Live(f) /\ dispatch[f].events # {}
        BY DEF PollersInv, SelectInv
      <4>2. CASE f \in select.workers
        <5>1. SelectReport(f, AllReady) = Events \cap r /\ Asked(f, AllReady) = dispatch[f].events
          BY <2>2, <2>3, <4>1, <4>2 DEF SelectReport, Asked
        <5>2. r = dispatch[f].events
          BY <2>3, <4>1, <4>2 DEF Events, E!Events
        <5> QED
          BY <2>3, <4>1, <4>2, <5>1, <5>2
      <4>3. CASE f \notin select.workers
        BY <2>2, <2>3, <4>1, <4>3 DEF SelectReport, Asked
      <4> QED
        BY <4>2, <4>3
    <3>2. ASSUME NEW f \in Fds, f \in select.read \cup select.write PROVE f \in select.workers
      BY <3>2 DEF PollersInv, SelectInv
    <3> QED
      BY <3>1, <3>2 DEF SelectExact
  <2>5. KqueueExact
    <3>1. ASSUME NEW f \in Fds PROVE KqueueReport(f, AllReady) = Asked(f, AllReady)
      BY <2>2, <2>3 DEF PollersInv, KqueueInv, Filters, KqueueReport, Asked, Live, Events, E!Events
    <3>2. ASSUME NEW f \in Fds PROVE epoll[f].interest = Asked(f, AllReady)
      BY <2>2, <2>3 DEF PollersInv, EpollInv, Registered, Asked, Live
    <3>3. ASSUME NEW f \in Fds, ~Live(f) PROVE \A e \in Events : kq[f][e] = "no"
      BY <3>3 DEF PollersInv, KqueueInv, Filters, Live
    <3> QED
      BY <3>1, <3>2, <3>3 DEF KqueueExact
  <2> QED
    BY <2>1, <2>4, <2>5, PollIsExact DEF WatchedExactly
<1> QED
  BY <1>1, PollersInvariance, PTL
=============================================================================
