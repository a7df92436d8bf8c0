------------------------- MODULE TcpConnectionProofs -------------------------
(***************************************************************************)
(* Theorems about TcpConnection, for every set of threads, every message   *)
(* size and high water mark and every bound.  StreamOrder, WriteInterest   *)
(* and ShutDownDelivers are proved whatever the threads, the callbacks and *)
(* the timers call; CloseOnce for callers that keep to LibraryCalls.       *)
(***************************************************************************)
EXTENDS TcpConnection, SequenceTheorems, TLAPS

-----------------------------------------------------------------------------
(* The inductive invariant of the connection.                              *)

Byte == (Threads \cup {Loop}) \X (1..MaxMsgs) \X (1..MsgSize)

\* The types of what belongs to the connection, but for connectionSize: a
\* connection that is read again after its close can be closed, and counted
\* off, once more.
ConnTypes ==
    /\ state_ \in {"kConnecting", "kConnected", "kDisconnecting", "kDisconnected"}
    /\ writebuf_ \in Seq(Byte)
    /\ sent \in Seq(Byte)
    /\ accepted \in Seq(Byte)
    /\ dispatch_ \in Dispatches
    /\ halfClosed \in BOOLEAN
    /\ misclosed \in BOOLEAN

\* The types of the loop thread, its queues, the other threads and the peer.
LoopTypes ==
    /\ pc \in {"start", "poll", "timers", "event", "write", "drained", "swap", "funcs", "cb"}
    /\ ret \in {"poll", "timers", "write", "drained", "swap", "funcs"}
    /\ revents \subseteq {"in", "out", "hup"}
    /\ funcs \in Seq(Funcs)
    /\ batch \in Seq(Funcs)
    /\ tpc \in [Threads -> Funcs \cup {NoFunc}]
    /\ peer \in {"open", "fin", "rst"}
    /\ input \in BOOLEAN
    /\ nmsgs \in 0..MaxMsgs

\* The Dispatch, the poller and the kernel agree, and Dispatch remembers that
\* it asked for POLLOUT, without which DisableWrite would do nothing.
Consistent(d) ==
    /\ InSync(d)
    /\ d.index = "kAdded" <=> d.inKernel
    /\ IsWriting(d) => d.addWrite

\* StartWorking comes before everything else and never again.
StartInv == pc = "start" <=> state_ = "kConnecting"

\* POLLOUT is asked for exactly while bytes are buffered, until the close.
BufferInv ==
    state_ # "kDisconnected" => (IsWriting(dispatch_) <=> writebuf_ # <<>>)

\* The write side of a connection that is not closed is shut with nothing buffered.
HalfCloseDrained == halfClosed /\ state_ # "kDisconnected" => writebuf_ = <<>>

\* What holds of the connection's own state.
Core ==
    /\ ConnTypes
    /\ Consistent(dispatch_)
    /\ BufferInv
    /\ HalfCloseDrained
    /\ sent \o writebuf_ = accepted

ConnInv == Core /\ LoopTypes /\ StartInv

\* The order of the messages of one thread, over the bytes that were taken on
\* (A), the functions in the loop's queues (Q), the functions threads are
\* about to queue (P) and the number of messages so far (n).  A message of the
\* loop thread is never queued.
IsSend(f) == f.op = "send"

AcceptedOrder(A, n) ==
    /\ \A i, j \in 1..Len(A) : i < j /\ A[i][1] = A[j][1] => A[i][2] <= A[j][2]
    /\ \A i \in 1..Len(A) : A[i][2] <= n

QueuedOrder(Q, n) ==
    /\ \A i, j \in 1..Len(Q) : i < j /\ IsSend(Q[i]) /\ IsSend(Q[j]) /\ Q[i].msg[1] = Q[j].msg[1]
          => Q[i].msg[2] <= Q[j].msg[2]
    /\ \A i \in 1..Len(Q) : IsSend(Q[i]) => Q[i].msg[1] \in Threads /\ Q[i].msg[2] <= n

AcceptedFirst(A, Q) ==
    \A i \in 1..Len(A), j \in 1..Len(Q) :
        IsSend(Q[j]) /\ A[i][1] = Q[j].msg[1] => A[i][2] <= Q[j].msg[2]

PendingLast(A, Q, P, n) ==
    \A t \in Threads : IsSend(P[t]) =>
        /\ P[t].msg[1] = t /\ P[t].msg[2] <= n
        /\ \A i \in 1..Len(A) : A[i][1] = t => A[i][2] <= P[t].msg[2]
        /\ \A j \in 1..Len(Q) : IsSend(Q[j]) /\ Q[j].msg[1] = t
              => Q[j].msg[2] <= P[t].msg[2]

Ordered(A, Q, P, n) ==
    /\ AcceptedOrder(A, n)
    /\ QueuedOrder(Q, n)
    /\ AcceptedFirst(A, Q)
    /\ PendingLast(A, Q, P, n)

OrderInv == Ordered(accepted, batch \o funcs, tpc, nmsgs)

IInv == ConnInv /\ OrderInv

-----------------------------------------------------------------------------
(* The inductive invariant of the close.                                   *)

\* What the library itself and its users are to call: nobody starts reading
\* again, which may come after the close, and a timer or the handler of another
\* connection, which may run between Poll() and HandleEvent, does not send.
LibraryCalls ==
    /\ "startread" \notin ThreadOps \cup CallbackOps \cup TimerOps
    /\ "send" \notin TimerOps

NoStart(s) == \A i \in 1..Len(s) : s[i].op # "startread"

NeverStarted ==
    /\ NoStart(funcs) /\ NoStart(batch)
    /\ \A t \in Threads : tpc[t].op # "startread"

\* No polled event is left for a closed connection at the places where
\* HandleEvent looks at nothing else.
NoStaleEvents ==
    /\ ret # "timers"
    /\ state_ = "kDisconnected" => /\ pc = "timers" => revents = {}
                                   /\ pc # "event"

ClosedInv ==
    /\ ~misclosed
    /\ state_ = "kDisconnected" => Unregistered(dispatch_)
    /\ connectionSize = IF Open THEN 1 ELSE 0

CloseInv ==
    /\ LibraryCalls
    /\ ConnInv
    /\ NeverStarted
    /\ NoStaleEvents
    /\ ClosedInv

-----------------------------------------------------------------------------
(* The Dispatch.                                                           *)

\* The constructor makes a consistent Dispatch.
LEMMA NewConsistent == NewDispatch \in Dispatches /\ Consistent(NewDispatch)
BY DEF NewDispatch, Dispatches, Events, Consistent, InSync, IsWriting

\* EnableRead keeps the Dispatch consistent and the write interest as it is.
LEMMA EnableReadConsistent ==
  ASSUME NEW d \in Dispatches, Consistent(d)
  PROVE  /\ EnableRead(d) \in Dispatches /\ Consistent(EnableRead(d))
         /\ IsWriting(EnableRead(d)) <=> IsWriting(d)
BY DEF EnableRead, UpdateDispatch, CtlAdd, CtlMod, CtlDel, Dispatches, Events,
       Consistent, InSync, IsWriting

\* DisableRead of a Dispatch that is reading; of one that is not, it would
\* register an empty interest.
LEMMA DisableReadConsistent ==
  ASSUME NEW d \in Dispatches, Consistent(d), IsReading(d)
  PROVE  /\ DisableRead(d) \in Dispatches /\ Consistent(DisableRead(d))
         /\ IsWriting(DisableRead(d)) <=> IsWriting(d)
BY DEF DisableRead, UpdateDispatch, CtlAdd, CtlMod, CtlDel, Dispatches, Events,
       Consistent, InSync, IsWriting, IsReading

\* EnableWrite asks for POLLOUT and remembers it.
LEMMA EnableWriteConsistent ==
  ASSUME NEW d \in Dispatches, Consistent(d)
  PROVE  /\ EnableWrite(d) \in Dispatches /\ Consistent(EnableWrite(d))
         /\ IsWriting(EnableWrite(d))
BY DEF EnableWrite, UpdateDispatch, CtlAdd, CtlMod, CtlDel, Dispatches, Events,
       Consistent, InSync, IsWriting

\* DisableWrite of a Dispatch that is writing.
LEMMA DisableWriteConsistent ==
  ASSUME NEW d \in Dispatches, Consistent(d), IsWriting(d)
  PROVE  /\ DisableWrite(d) \in Dispatches /\ Consistent(DisableWrite(d))
         /\ ~IsWriting(DisableWrite(d))
BY DEF DisableWrite, UpdateDispatch, CtlAdd, CtlMod, CtlDel, Dispatches, Events,
       Consistent, InSync, IsWriting

\* The close leaves a Dispatch that nobody refers to, also when DisableAll has
\* to register an empty interest on the way.
LEMMA ClosedConsistent ==
  ASSUME NEW d \in Dispatches, Consistent(d)
  PROVE  /\ Closed(d) \in Dispatches /\ Consistent(Closed(d))
         /\ Unregistered(Closed(d))
<1> DEFINE e == DisableAll(d)
<1>1. e \in Dispatches /\ e.events = {} /\ (e.index = "kAdded" <=> e.inKernel)
      /\ e.interest = {}
  BY DEF DisableAll, UpdateDispatch, CtlAdd, CtlMod, CtlDel, Dispatches, Events,
         Consistent, InSync, IsWriting, IsReading
<1> HIDE DEF e
<1>2. RemoveDispatch(e) \in Dispatches /\ Consistent(RemoveDispatch(e))
      /\ Unregistered(RemoveDispatch(e))
  BY <1>1 DEF RemoveDispatch, CtlDel, Dispatches, Consistent, InSync, IsWriting, Unregistered
<1> QED
  BY <1>2 DEF Closed, e

-----------------------------------------------------------------------------
(* The connection's own state through the pieces of the handlers.          *)

\* A function on 1..n is a sequence of length n.
LEMMA FunctionIsSeq ==
  ASSUME NEW S, NEW n \in Nat, NEW f \in [1..n -> S]
  PROVE  f \in Seq(S) /\ Len(f) = n
OBVIOUS

\* The bytes of a message are MsgSize bytes.
LEMMA BytesOfMessage ==
  ASSUME NEW m \in Messages
  PROVE  /\ Bytes(m) \in Seq(Byte) /\ Len(Bytes(m)) = MsgSize
         /\ \A i \in 1..MsgSize : Bytes(m)[i][1] = m[1] /\ Bytes(m)[i][2] = m[2]
<1>1. MsgSize \in Nat
  BY SizeAssumption
<1>2. Bytes(m) \in [1..MsgSize -> Byte]
  BY <1>1 DEF Bytes, Byte, Messages
<1>3. Bytes(m) \in Seq(Byte) /\ Len(Bytes(m)) = MsgSize
  BY <1>1, <1>2, FunctionIsSeq
<1>4. \A i \in 1..MsgSize : Bytes(m)[i][1] = m[1] /\ Bytes(m)[i][2] = m[2]
  BY DEF Bytes
<1> QED
  BY <1>3, <1>4

\* A sequence cut at k is its two parts put together.
LEMMA CutAt ==
  ASSUME NEW S, NEW s \in Seq(S), NEW k \in 0..Len(s)
  PROVE  /\ SubSeq(s, 1, k) \in Seq(S) /\ SubSeq(s, k + 1, Len(s)) \in Seq(S)
         /\ Len(SubSeq(s, 1, k)) = k /\ Len(SubSeq(s, k + 1, Len(s))) = Len(s) - k
         /\ SubSeq(s, 1, k) \o SubSeq(s, k + 1, Len(s)) = s
<1>1. Len(s) \in Nat /\ k \in Nat
  BY LenProperties
<1>2. \A i \in 1..Len(s) : s[i] \in S
  BY ElementOfSeq
<1>3. SubSeq(s, 1, k) \in Seq(S) /\ Len(SubSeq(s, 1, k)) = k
  <2>1. \A i \in 1..k : s[i] \in S
    BY <1>1, <1>2
  <2> QED
    BY <1>1, <2>1, SubSeqProperties
<1>4. /\ SubSeq(s, k + 1, Len(s)) \in Seq(S)
      /\ Len(SubSeq(s, k + 1, Len(s))) = Len(s) - k
  <2>1. \A i \in (k + 1)..Len(s) : s[i] \in S
    BY <1>1, <1>2
  <2> QED
    BY <1>1, <2>1, SubSeqProperties
<1>5. SubSeq(s, 1, k) \o SubSeq(s, k + 1, Len(s)) = SubSeq(s, 1, Len(s))
  <2>1. 1 \in 1..Len(s) + 1 /\ k \in (1 - 1)..Len(s) /\ Len(s) \in k..Len(s)
    BY <1>1
  <2> QED
    BY <2>1, ConcatAdjacentSubSeq
<1> QED
  BY <1>3, <1>4, <1>5, SubSeqFull

\* A sequence is empty when its length is 0, and only then.
LEMMA EmptyIffLenZero ==
  ASSUME NEW S, NEW s \in Seq(S)
  PROVE  s = <<>> <=> Len(s) = 0
BY EmptySeq

\* HandleClose.
LEMMA CoreHandleClose ==
  ASSUME Core, HandleClose
  PROVE  Core' /\ state_' = "kDisconnected" /\ Unregistered(dispatch_')
<1>1. /\ Closed(dispatch_) \in Dispatches /\ Consistent(Closed(dispatch_))
      /\ Unregistered(Closed(dispatch_))
  BY ClosedConsistent DEF Core, ConnTypes
<1>2. dispatch_' = Closed(dispatch_) /\ state_' = "kDisconnected"
  BY DEF HandleClose
<1>3. ConnTypes'
  BY <1>1, <1>2 DEF Core, ConnTypes, HandleClose
<1>4. Consistent(dispatch_)' /\ BufferInv' /\ HalfCloseDrained'
  BY <1>1, <1>2 DEF BufferInv, HalfCloseDrained
<1>5. (sent \o writebuf_ = accepted)'
  BY DEF Core, HandleClose
<1> QED
  BY <1>1, <1>2, <1>3, <1>4, <1>5 DEF Core

\* Bytes may be put together in any order.
LEMMA BytesAssociate ==
  ASSUME NEW s \in Seq(Byte), NEW t \in Seq(Byte), NEW u \in Seq(Byte)
  PROVE  (s \o t) \o u = s \o (t \o u)
BY ConcatAssociative, SMTT(20)

\* SendInLoop, written in one go, in part or behind what is buffered.
LEMMA CoreSendInLoop ==
  ASSUME Core, NEW m \in Messages, NEW k \in 0..MsgSize, SendInLoop(m, k)
  PROVE  Core' /\ accepted' = accepted \o Bytes(m)
<1> DEFINE data == Bytes(m)
           wrote == IF Idle THEN k ELSE 0
           front == SubSeq(data, 1, wrote)
           rest == SubSeq(data, wrote + 1, MsgSize)
<1>1. MsgSize \in Nat \ {0} /\ wrote \in 0..MsgSize
  BY SizeAssumption
<1>2. data \in Seq(Byte) /\ Len(data) = MsgSize
  BY BytesOfMessage
<1>3. /\ front \in Seq(Byte) /\ rest \in Seq(Byte) /\ front \o rest = data
      /\ Len(rest) = MsgSize - wrote
  BY <1>1, <1>2, CutAt
<1>4. /\ sent' = sent \o front /\ accepted' = accepted \o data
      /\ writebuf_' = writebuf_ \o rest /\ dispatch_' = Watched(wrote)
      /\ state_ # "kDisconnected" /\ (Idle => ~Broken)
      /\ UNCHANGED <<state_, connectionSize, halfClosed, misclosed>>
  BY DEF SendInLoop
<1>5. /\ writebuf_ \in Seq(Byte) /\ sent \in Seq(Byte) /\ accepted \in Seq(Byte)
      /\ dispatch_ \in Dispatches /\ Consistent(dispatch_)
      /\ sent \o writebuf_ = accepted
      /\ IsWriting(dispatch_) <=> writebuf_ # <<>>
      /\ halfClosed => writebuf_ = <<>>
  BY <1>4 DEF Core, ConnTypes, BufferInv, HalfCloseDrained
<1>6. Idle \/ wrote = 0
  OBVIOUS
<1> HIDE DEF data, wrote, front, rest
<1>7. rest = <<>> <=> wrote = MsgSize
  <2>1. rest \in Seq(Byte) /\ Len(rest) = MsgSize - wrote
    BY <1>3
  <2>2. rest = <<>> <=> Len(rest) = 0
    BY <2>1, EmptyIffLenZero
  <2> QED
    BY <1>1, <2>1, <2>2
<1>8. /\ sent' \in Seq(Byte) /\ accepted' \in Seq(Byte) /\ writebuf_' \in Seq(Byte)
      /\ (sent \o writebuf_ = accepted)'
  <2>1. sent' \in Seq(Byte) /\ accepted' \in Seq(Byte) /\ writebuf_' \in Seq(Byte)
    BY <1>2, <1>3, <1>4, <1>5, ConcatProperties
  <2>2. CASE Idle
    <3>1. writebuf_ = <<>>
      BY <2>2 DEF Idle
    <3>2. sent = accepted /\ writebuf_' = rest
      BY <3>1, <1>3, <1>4, <1>5, ConcatEmptySeq
    <3>3. (sent \o front) \o rest = sent \o (front \o rest)
      <4>1. sent \in Seq(Byte) /\ front \in Seq(Byte) /\ rest \in Seq(Byte)
        BY <1>3, <1>5
      <4> QED
        BY <4>1, BytesAssociate, Zenon
    <3> QED
      BY <2>1, <3>2, <3>3, <1>3, <1>4
  <2>3. CASE wrote = 0
    <3>1. front = <<>>
      BY <2>3, SubSeqEmpty DEF front
    <3>2. rest = data
      BY <3>1, <1>3, ConcatEmptySeq
    <3>3. sent' = sent
      BY <3>1, <1>4, <1>5, ConcatEmptySeq
    <3>4. (sent \o writebuf_) \o data = sent \o (writebuf_ \o data)
      <4>1. sent \in Seq(Byte) /\ writebuf_ \in Seq(Byte) /\ data \in Seq(Byte)
        BY <1>2, <1>5
      <4> QED
        BY <4>1, BytesAssociate, Zenon
    <3> QED
      BY <2>1, <3>2, <3>3, <3>4, <1>4, <1>5
  <2> QED
    BY <1>6, <2>2, <2>3
<1>9. writebuf_' = <<>> <=> writebuf_ = <<>> /\ rest = <<>>
  BY <1>3, <1>4, <1>5, ConcatEqualIffEmpty
<1>10. /\ dispatch_' \in Dispatches /\ Consistent(dispatch_')
       /\ IsWriting(dispatch_') <=> writebuf_' # <<>>
  <2>1. CASE wrote < MsgSize /\ ~IsWriting(dispatch_)
    <3>1. dispatch_' = EnableWrite(dispatch_)
      BY <2>1, <1>4 DEF Watched
    <3>2. writebuf_' # <<>>
      BY <2>1, <1>1, <1>7, <1>9
    <3> QED
      BY <3>1, <3>2, <1>5, EnableWriteConsistent
  <2>2. CASE ~(wrote < MsgSize /\ ~IsWriting(dispatch_))
    <3>1. dispatch_' = dispatch_
      BY <2>2, <1>4 DEF Watched
    <3>2. CASE IsWriting(dispatch_)
      BY <3>1, <3>2, <1>5, <1>9
    <3>3. CASE ~IsWriting(dispatch_)
      <4>1. wrote = MsgSize
        BY <2>2, <3>3, <1>1
      <4> QED
        BY <4>1, <3>1, <3>3, <1>5, <1>7, <1>9
    <3> QED
      BY <3>2, <3>3
  <2> QED
    BY <2>1, <2>2
<1>11. HalfCloseDrained'
  <2>1. CASE halfClosed
    <3>1. ~Idle
      BY <2>1, <1>4 DEF Broken
    <3> QED
      BY <3>1, <2>1, <1>5 DEF Idle
  <2>2. CASE ~halfClosed
    BY <2>2, <1>4 DEF HalfCloseDrained
  <2> QED
    BY <2>1, <2>2
<1>12. ConnTypes'
  BY <1>4, <1>8, <1>10 DEF Core, ConnTypes
<1> QED
  BY <1>4, <1>8, <1>10, <1>11, <1>12 DEF Core, BufferInv, data

\* What does not touch the connection.
LEMMA CoreUnchanged ==
  ASSUME Core, UNCHANGED connVars
  PROVE  Core'
BY DEF Core, connVars, ConnTypes, BufferInv, HalfCloseDrained

\* SendInLoop in every outcome.
LEMMA CoreDoSend ==
  ASSUME Core, NEW m \in Messages, DoSend(m)
  PROVE  Core' /\ (accepted' = accepted \/ accepted' = accepted \o Bytes(m))
<1>1. ASSUME NEW k \in 0..MsgSize, SendInLoop(m, k)
      PROVE  Core' /\ accepted' = accepted \o Bytes(m)
  BY <1>1, CoreSendInLoop
<1>2. CASE SendInLoopFails
  BY <1>2, CoreHandleClose DEF SendInLoopFails, HandleClose
<1>3. CASE SendInLoopTooLate
  BY <1>3, CoreUnchanged DEF SendInLoopTooLate, connVars
<1> QED
  BY <1>1, <1>2, <1>3 DEF DoSend

\* A step that only begins the shutdown.
LEMMA CoreDisconnecting ==
  ASSUME Core, state_ # "kDisconnected", state_' = "kDisconnecting",
         UNCHANGED <<writebuf_, dispatch_, sent, halfClosed, accepted, misclosed>>
  PROVE  Core'
BY DEF Core, ConnTypes, BufferInv, HalfCloseDrained

\* The shutdown of the write side, when nothing is left to write.
LEMMA CoreDoShutDown ==
  ASSUME Core, DoShutDown,
         (state_' = state_) \/ (state_ # "kDisconnected" /\ state_' = "kDisconnecting")
  PROVE  Core'
<1>1. /\ UNCHANGED <<writebuf_, dispatch_, sent, accepted, misclosed>>
      /\ halfClosed' = (halfClosed \/ ~IsWriting(dispatch_))
  BY DEF DoShutDown
<1>2. ConnTypes'
  BY <1>1 DEF Core, ConnTypes
<1>3. BufferInv'
  BY <1>1 DEF Core, BufferInv
<1>4. HalfCloseDrained'
  BY <1>1 DEF Core, BufferInv, HalfCloseDrained
<1> QED
  BY <1>1, <1>2, <1>3, <1>4 DEF Core

\* ForceClose in the loop thread.
LEMMA CoreDoForceClose ==
  ASSUME Core, DoForceClose
  PROVE  Core' /\ accepted' = accepted
<1>1. CASE HandleClose
  BY <1>1, CoreHandleClose DEF HandleClose
<1>2. CASE UNCHANGED connVars
  BY <1>2, CoreUnchanged DEF connVars
<1> QED
  BY <1>1, <1>2 DEF DoForceClose

\* A change of the read interest alone.
LEMMA CoreReadInterest ==
  ASSUME Core, dispatch_' \in Dispatches, Consistent(dispatch_'),
         IsWriting(dispatch_') <=> IsWriting(dispatch_),
         state_' \in {state_, "kConnected"}, state_ # "kDisconnected" \/ state_' = state_,
         UNCHANGED <<writebuf_, sent, halfClosed, accepted, misclosed>>
  PROVE  Core'
BY DEF Core, ConnTypes, BufferInv, HalfCloseDrained

\* StartRead in the loop thread.
LEMMA CoreDoStartRead ==
  ASSUME Core, DoStartRead
  PROVE  Core'
<1>1. dispatch_ \in Dispatches /\ Consistent(dispatch_)
  BY DEF Core, ConnTypes
<1>2. /\ dispatch_' \in Dispatches /\ Consistent(dispatch_')
      /\ IsWriting(dispatch_') <=> IsWriting(dispatch_)
  BY <1>1, EnableReadConsistent DEF DoStartRead
<1> QED
  BY <1>2, CoreReadInterest DEF DoStartRead

\* StopRead in the loop thread.
LEMMA CoreDoStopRead ==
  ASSUME Core, DoStopRead
  PROVE  Core'
<1>1. dispatch_ \in Dispatches /\ Consistent(dispatch_)
  BY DEF Core, ConnTypes
<1>2. /\ dispatch_' \in Dispatches /\ Consistent(dispatch_')
      /\ IsWriting(dispatch_') <=> IsWriting(dispatch_)
  BY <1>1, DisableReadConsistent DEF DoStopRead
<1> QED
  BY <1>2, CoreReadInterest DEF DoStopRead

\* StartWorking.
LEMMA CoreStartWorking ==
  ASSUME Core, StartInv, StartWorking
  PROVE  Core'
<1>1. dispatch_ \in Dispatches /\ Consistent(dispatch_) /\ state_ # "kDisconnected"
  BY DEF Core, ConnTypes, StartInv, StartWorking
<1>2. /\ dispatch_' \in Dispatches /\ Consistent(dispatch_')
      /\ IsWriting(dispatch_') <=> IsWriting(dispatch_)
  BY <1>1, EnableReadConsistent DEF StartWorking
<1> QED
  BY <1>1, <1>2, CoreReadInterest DEF StartWorking

\* HandleWrite takes k bytes from the buffer; the last ones end the interest.
LEMMA CoreHandleWriteSome ==
  ASSUME Core, NEW k \in 1..Len(writebuf_), HandleWriteSome(k)
  PROVE  Core'
<1> DEFINE front == SubSeq(writebuf_, 1, k)
           rest == SubSeq(writebuf_, k + 1, Len(writebuf_))
<1>1. /\ writebuf_ \in Seq(Byte) /\ sent \in Seq(Byte)
      /\ sent \o writebuf_ = accepted
  BY DEF Core, ConnTypes
<1>2. k \in 0..Len(writebuf_)
  OBVIOUS
<1>3. front \in Seq(Byte) /\ rest \in Seq(Byte) /\ front \o rest = writebuf_
  BY <1>1, <1>2, CutAt
<1>4. /\ sent' = sent \o front /\ writebuf_' = rest /\ IsWriting(dispatch_)
      /\ UNCHANGED <<state_, halfClosed, accepted, misclosed>>
      /\ writebuf_' = <<>> => dispatch_' = DisableWrite(dispatch_)
      /\ writebuf_' # <<>> => dispatch_' = dispatch_
  BY DEF HandleWriteSome
<1> HIDE DEF front, rest
<1>5. sent' \in Seq(Byte)
  BY <1>1, <1>3, <1>4, ConcatProperties
<1>6. (sent \o writebuf_ = accepted)'
  <2>1. sent \in Seq(Byte) /\ front \in Seq(Byte) /\ rest \in Seq(Byte)
    BY <1>1, <1>3
  <2>2. (sent \o front) \o rest = sent \o (front \o rest)
    BY <2>1, BytesAssociate, Zenon
  <2> QED
    BY <2>2, <1>1, <1>3, <1>4
<1>7. /\ dispatch_' \in Dispatches /\ Consistent(dispatch_')
      /\ IsWriting(dispatch_') <=> writebuf_' # <<>>
  <2>1. dispatch_ \in Dispatches /\ Consistent(dispatch_)
    BY DEF Core, ConnTypes
  <2>2. CASE writebuf_' = <<>>
    BY <2>1, <2>2, <1>4, DisableWriteConsistent
  <2>3. CASE writebuf_' # <<>>
    BY <2>1, <2>3, <1>4
  <2> QED
    BY <2>2, <2>3
<1>8. HalfCloseDrained'
  <2>1. ~halfClosed
    BY DEF HandleWriteSome, Broken
  <2> QED
    BY <2>1, <1>4 DEF HalfCloseDrained
<1>9. ConnTypes'
  BY <1>3, <1>4, <1>5, <1>7 DEF Core, ConnTypes
<1> QED
  BY <1>6, <1>7, <1>8, <1>9 DEF Core, BufferInv

-----------------------------------------------------------------------------
(* The loop thread, its queues and the other threads.                      *)

\* The functions of the queues.
LEMMA FuncsProperties ==
  /\ \A op \in (Ops \ {"send"}) \cup {"highwater"} : Func(op) \in Funcs /\ Func(op).op = op
  /\ \A m \in Messages : SendFunc(m) \in Funcs /\ SendFunc(m).op = "send" /\ SendFunc(m).msg = m
  /\ \A f \in Funcs : f.op = "send" => f.msg \in Messages
  /\ NoFunc.op = "none"
BY DEF Func, SendFunc, Funcs, NoFunc

\* Where SendInLoop leaves the loop thread and its queue.
LEMMA DoSendLoop ==
  ASSUME NEW m, DoSend(m)
  PROVE  /\ (pc' = pc /\ ret' = ret) \/ (pc' = "cb" /\ ret' = IF pc = "cb" THEN ret ELSE pc)
         /\ funcs' = funcs \/ funcs' = Append(funcs, Func("highwater"))
         /\ state_' = state_ \/ state_' = "kDisconnected"
BY DEF DoSend, SendInLoop, SendInLoopFails, SendInLoopTooLate, CallBack, NoCallBack,
       HandleClose, connVars

\* SendMessage in the loop thread, on the spot or as a queued function.
LEMMA ConnDoSend ==
  ASSUME ConnInv, NEW m \in Messages, DoSend(m), pc \in {"timers", "funcs", "cb"},
         batch' \in Seq(Funcs), nmsgs' \in 0..MaxMsgs,
         UNCHANGED <<revents, tpc, peer, input>>
  PROVE  ConnInv'
<1>1. Core'
  BY CoreDoSend DEF ConnInv
<1>2. /\ (pc' = pc /\ ret' = ret) \/ (pc' = "cb" /\ ret' = IF pc = "cb" THEN ret ELSE pc)
      /\ funcs' = funcs \/ funcs' = Append(funcs, Func("highwater"))
      /\ state_' = state_ \/ state_' = "kDisconnected"
  BY DoSendLoop
<1>3. funcs' \in Seq(Funcs)
  <2>1. Func("highwater") \in Funcs
    BY FuncsProperties
  <2>2. funcs \in Seq(Funcs)
    BY DEF ConnInv, LoopTypes
  <2> QED
    BY <1>2, <2>1, <2>2, AppendProperties
<1>4. LoopTypes'
  BY <1>2, <1>3 DEF ConnInv, LoopTypes
<1>5. StartInv'
  BY <1>2 DEF ConnInv, StartInv
<1> QED
  BY <1>1, <1>4, <1>5 DEF ConnInv

\* A close, after which close_cb_ runs.
LEMMA ConnHandleClose ==
  ASSUME ConnInv, HandleClose, NEW r, CallBack(r),
         r \in {"timers", "write", "swap", "funcs"} \/ pc = "cb",
         batch' \in Seq(Funcs), UNCHANGED <<revents, funcs, tpc, peer, input, nmsgs>>
  PROVE  ConnInv'
<1>1. Core' /\ state_' = "kDisconnected"
  BY CoreHandleClose DEF ConnInv
<1>2. LoopTypes'
  BY DEF ConnInv, LoopTypes, CallBack
<1>3. StartInv'
  BY <1>1 DEF StartInv, CallBack
<1> QED
  BY <1>1, <1>2, <1>3 DEF ConnInv

\* A step of the loop thread or of the peer that leaves the connection alone.
LEMMA ConnUntouched ==
  ASSUME ConnInv, UNCHANGED connVars, LoopTypes', pc' = "start" <=> pc = "start"
  PROVE  ConnInv'
<1>1. Core'
  BY CoreUnchanged DEF ConnInv
<1>2. StartInv'
  BY DEF ConnInv, StartInv, connVars
<1> QED
  BY <1>1, <1>2 DEF ConnInv

\* The handlers of this connection's events.
LEMMA ConnHandleEvent ==
  ASSUME ConnInv, HandleEvent
  PROVE  ConnInv'
<1> USE DEF Outside, bounds
<1>1. CASE HandleHup
  BY <1>1, ConnHandleClose DEF HandleHup, ConnInv, LoopTypes
<1>2. CASE HandleReadMessage
  <2>1. LoopTypes' /\ (pc' = "start" <=> pc = "start")
    BY <1>2 DEF HandleReadMessage, CallBack, ConnInv, LoopTypes
  <2> QED
    BY <1>2, <2>1, ConnUntouched DEF HandleReadMessage
<1>3. CASE HandleReadEnd
  BY <1>3, ConnHandleClose DEF HandleReadEnd, ConnInv, LoopTypes
<1>4. CASE HandleReadNothing
  <2>1. LoopTypes' /\ (pc' = "start" <=> pc = "start")
    BY <1>4 DEF HandleReadNothing, ConnInv, LoopTypes
  <2> QED
    BY <1>4, <2>1, ConnUntouched DEF HandleReadNothing
<1>5. ASSUME NEW k \in 1..Len(writebuf_), HandleWriteSome(k)
      PROVE  ConnInv'
  <2>1. Core'
    BY <1>5, CoreHandleWriteSome DEF ConnInv
  <2>2. pc' \in {"swap", "cb"} /\ ret' \in {ret, "drained"} /\ pc = "write"
    BY <1>5 DEF HandleWriteSome, CallBack
  <2>3. LoopTypes'
    BY <1>5, <2>2 DEF HandleWriteSome, ConnInv, LoopTypes
  <2>4. StartInv'
    BY <1>5, <2>2 DEF HandleWriteSome, ConnInv, StartInv
  <2> QED
    BY <2>1, <2>3, <2>4 DEF ConnInv
<1>6. CASE HandleWriteFails
  BY <1>6, ConnHandleClose DEF HandleWriteFails, ConnInv, LoopTypes
<1>7. CASE HandleWriteNothing
  <2>1. LoopTypes' /\ (pc' = "start" <=> pc = "start")
    BY <1>7 DEF HandleWriteNothing, ConnInv, LoopTypes
  <2> QED
    BY <1>7, <2>1, ConnUntouched DEF HandleWriteNothing
<1>8. CASE HandleWriteDrained
  <2>1. CASE ShutWhenDrained
    BY <1>8, <2>1, ConnHandleClose DEF HandleWriteDrained, ConnInv, LoopTypes
  <2>2. CASE ~ShutWhenDrained
    <3>1. LoopTypes' /\ (pc' = "start" <=> pc = "start")
      BY <1>8, <2>2 DEF HandleWriteDrained, ConnInv, LoopTypes
    <3> QED
      BY <1>8, <2>2, <3>1, ConnUntouched DEF HandleWriteDrained
  <2> QED
    BY <2>1, <2>2
<1> QED
  BY <1>1, <1>2, <1>3, <1>4, <1>5, <1>6, <1>7, <1>8 DEF HandleEvent

\* RunFuncs executes a queued function.
LEMMA ConnRunFunc ==
  ASSUME ConnInv, RunFunc
  PROVE  ConnInv'
<1> USE DEF Outside, bounds
<1> DEFINE f == Head(batch)
<1>1. f \in Funcs /\ batch' \in Seq(Funcs)
  <2>1. batch \in Seq(Funcs) /\ batch # <<>> /\ batch' = Tail(batch)
    BY DEF ConnInv, LoopTypes, RunFunc
  <2> QED
    BY <2>1, HeadTailProperties
<1>2. pc = "funcs" /\ state_ # "kConnecting" /\ UNCHANGED <<revents, tpc, peer, input, nmsgs>>
  BY DEF RunFunc, ConnInv, StartInv
<1>3. CASE f.op = "send" /\ DoSend(f.msg)
  <2>1. f.msg \in Messages
    BY <1>1, <1>3, FuncsProperties
  <2>2. nmsgs' \in 0..MaxMsgs
    BY <1>2 DEF ConnInv, LoopTypes
  <2> QED
    BY <1>1, <1>2, <1>3, <2>1, <2>2, ConnDoSend
<1>4. ASSUME Core', pc' = pc, ret' = ret, funcs' = funcs, state_' = state_
      PROVE  ConnInv'
  <2>1. LoopTypes'
    BY <1>1, <1>2, <1>4 DEF ConnInv, LoopTypes
  <2>2. StartInv'
    BY <1>4 DEF ConnInv, StartInv
  <2> QED
    BY <1>4, <2>1, <2>2 DEF ConnInv
<1>5. CASE DoShutDown /\ UNCHANGED state_
  BY <1>4, <1>5, CoreDoShutDown DEF ConnInv, DoShutDown, NoCallBack
<1>6. CASE DoForceClose
  <2>1. CASE HandleClose /\ CallBack(pc) /\ UNCHANGED funcs
    BY <1>1, <1>2, <2>1, ConnHandleClose
  <2>2. CASE UNCHANGED <<connVars, funcs>> /\ NoCallBack
    BY <1>4, <2>2, CoreUnchanged DEF ConnInv, NoCallBack, connVars
  <2> QED
    BY <1>6, <2>1, <2>2 DEF DoForceClose
<1>7. CASE DoStartRead
  BY <1>4, <1>7, CoreDoStartRead DEF ConnInv, DoStartRead, NoCallBack
<1>8. CASE DoStopRead
  BY <1>4, <1>8, CoreDoStopRead DEF ConnInv, DoStopRead, NoCallBack
<1>9. CASE CallBack("funcs") /\ UNCHANGED <<connVars, funcs>>
  <2>1. LoopTypes' /\ (pc' = "start" <=> pc = "start")
    BY <1>1, <1>2, <1>9 DEF CallBack, ConnInv, LoopTypes
  <2> QED
    BY <1>9, <2>1, ConnUntouched
<1> QED
  BY <1>3, <1>5, <1>6, <1>7, <1>8, <1>9 DEF RunFunc

\* Poll(), the turns of the loop and the returns of the callbacks.
LEMMA ConnLoopStep ==
  ASSUME ConnInv, LoopStep
  PROVE  ConnInv'
<1> USE DEF Outside, bounds
<1>1. CASE StartWorking
  <2>1. Core'
    BY <1>1, CoreStartWorking DEF ConnInv
  <2>2. LoopTypes'
    BY <1>1 DEF StartWorking, CallBack, ConnInv, LoopTypes
  <2>3. StartInv'
    BY <1>1 DEF StartWorking, CallBack, StartInv
  <2> QED
    BY <2>1, <2>2, <2>3 DEF ConnInv
<1>2. ASSUME NEW events \in SUBSET {"in", "out", "hup"}, Poll(events)
      PROVE  ConnInv'
  <2>1. LoopTypes' /\ (pc' = "start" <=> pc = "start")
    BY <1>2 DEF Poll, ConnInv, LoopTypes
  <2> QED
    BY <1>2, <2>1, ConnUntouched DEF Poll
<1>3. CASE BeginEvents
  <2>1. LoopTypes' /\ (pc' = "start" <=> pc = "start")
    BY <1>3 DEF BeginEvents, ConnInv, LoopTypes
  <2> QED
    BY <1>3, <2>1, ConnUntouched DEF BeginEvents
<1>4. CASE HandleEvent
  BY <1>4, ConnHandleEvent
<1>5. CASE Return
  <2>1. LoopTypes' /\ (pc' = "start" <=> pc = "start")
    BY <1>5 DEF Return, ConnInv, LoopTypes
  <2> QED
    BY <1>5, <2>1, ConnUntouched DEF Return
<1>6. CASE SwapFuncs
  <2>1. <<>> \in Seq(Funcs)
    BY EmptySeq
  <2>2. LoopTypes' /\ (pc' = "start" <=> pc = "start")
    BY <1>6, <2>1 DEF SwapFuncs, ConnInv, LoopTypes
  <2> QED
    BY <1>6, <2>2, ConnUntouched DEF SwapFuncs
<1>7. CASE RunFunc
  BY <1>7, ConnRunFunc
<1>8. CASE EndFuncs
  <2>1. LoopTypes' /\ (pc' = "start" <=> pc = "start")
    BY <1>8 DEF EndFuncs, ConnInv, LoopTypes
  <2> QED
    BY <1>8, <2>1, ConnUntouched DEF EndFuncs
<1> QED
  BY <1>1, <1>2, <1>3, <1>4, <1>5, <1>6, <1>7, <1>8 DEF LoopStep

\* The message that SendMessage numbers next.
LEMMA NextMessage ==
  ASSUME LoopTypes, nmsgs < MaxMsgs, NEW t \in Threads \cup {Loop}
  PROVE  <<t, nmsgs + 1>> \in Messages /\ nmsgs + 1 \in 0..MaxMsgs
BY BoundsAssumption DEF LoopTypes, Messages

\* The operations called on the loop thread.
LEMMA ConnLoopCall ==
  ASSUME ConnInv, LoopCall
  PROVE  ConnInv'
<1>1. CASE LoopSendMessage
  <2>1. /\ pc \in {"timers", "cb"} /\ nmsgs < MaxMsgs /\ nmsgs' = nmsgs + 1
        /\ DoSend(<<Loop, nmsgs'>>) /\ UNCHANGED <<revents, batch, input, tpc, peer>>
    BY <1>1 DEF LoopSendMessage, InWindow
  <2>2. <<Loop, nmsgs'>> \in Messages /\ nmsgs' \in 0..MaxMsgs
    BY <2>1, NextMessage DEF ConnInv
  <2>3. batch' \in Seq(Funcs)
    BY <2>1 DEF ConnInv, LoopTypes
  <2> QED
    BY <2>1, <2>2, <2>3, ConnDoSend
<1>2. ASSUME Core', UNCHANGED <<pc, ret, revents, batch, input, nmsgs, tpc, peer>>,
             funcs' \in Seq(Funcs), state_' = state_ \/ (Open /\ state_' = "kDisconnecting")
      PROVE  ConnInv'
  <2>1. LoopTypes'
    BY <1>2 DEF ConnInv, LoopTypes
  <2>2. StartInv'
    BY <1>2 DEF ConnInv, StartInv, Open
  <2> QED
    BY <1>2, <2>1, <2>2 DEF ConnInv
<1>3. funcs \in Seq(Funcs)
  BY DEF ConnInv, LoopTypes
<1>4. CASE LoopShutDown
  <2>1. Core'
    BY <1>4, CoreDoShutDown DEF LoopShutDown, ConnInv
  <2> QED
    BY <1>2, <1>3, <1>4, <2>1 DEF LoopShutDown, DoShutDown, NoCallBack, Open
<1>5. CASE LoopForceClose
  <2>1. Core'
    BY <1>5, CoreDisconnecting DEF LoopForceClose, ConnInv
  <2>2. Func("forceclose") \in Funcs
    BY FuncsProperties DEF Ops
  <2>3. funcs' \in Seq(Funcs)
    BY <1>3, <1>5, <2>2, AppendProperties DEF LoopForceClose
  <2> QED
    BY <1>2, <1>5, <2>1, <2>3 DEF LoopForceClose, loopVars, Open
<1>6. CASE LoopStartRead
  <2>1. Core'
    BY <1>6, CoreDoStartRead DEF LoopStartRead, ConnInv
  <2> QED
    BY <1>2, <1>3, <1>6, <2>1 DEF LoopStartRead, DoStartRead, NoCallBack
<1>7. CASE LoopStopRead
  <2>1. Core'
    BY <1>7, CoreDoStopRead DEF LoopStopRead, ConnInv
  <2> QED
    BY <1>2, <1>3, <1>7, <2>1 DEF LoopStopRead, DoStopRead, NoCallBack
<1> QED
  BY <1>1, <1>4, <1>5, <1>6, <1>7 DEF LoopCall

\* The operations called on another thread, and their QueueInLoop.
LEMMA ConnThread ==
  ASSUME ConnInv, NEW t \in Threads, ThreadCall(t) \/ Post(t)
  PROVE  ConnInv'
<1>1. LoopTypes
  BY DEF ConnInv
<1>2. CASE ThreadSendMessage(t)
  <2>1. SendFunc(<<t, nmsgs'>>) \in Funcs /\ nmsgs' \in 0..MaxMsgs
    BY <1>1, <1>2, NextMessage, FuncsProperties DEF ThreadSendMessage
  <2>2. LoopTypes' /\ (pc' = "start" <=> pc = "start")
    BY <1>1, <1>2, <2>1 DEF ThreadSendMessage, loopVars, LoopTypes
  <2> QED
    BY <1>2, <2>2, ConnUntouched DEF ThreadSendMessage
<1>3. ASSUME Core', UNCHANGED <<loopVars, funcs, peer, input, nmsgs>>,
             NEW op \in Ops \ {"send"}, tpc' = [tpc EXCEPT ![t] = Func(op)],
             state_' = state_ \/ (Open /\ state_' = "kDisconnecting")
      PROVE  ConnInv'
  <2>1. Func(op) \in Funcs
    BY FuncsProperties
  <2>2. LoopTypes'
    BY <1>1, <1>3, <2>1 DEF LoopTypes, loopVars
  <2>3. StartInv'
    BY <1>3 DEF ConnInv, StartInv, Open, loopVars
  <2> QED
    BY <1>3, <2>2, <2>3 DEF ConnInv
<1>4. CASE ThreadShutDown(t)
  <2>1. Core'
    BY <1>4, CoreDisconnecting DEF ThreadShutDown, ConnInv
  <2>2. "shutdown" \in Ops \ {"send"}
    BY DEF Ops
  <2> QED
    BY <1>3, <1>4, <2>1, <2>2 DEF ThreadShutDown, Open
<1>5. CASE ThreadForceClose(t)
  <2>1. Core'
    BY <1>5, CoreDisconnecting DEF ThreadForceClose, ConnInv
  <2>2. "forceclose" \in Ops \ {"send"}
    BY DEF Ops
  <2> QED
    BY <1>3, <1>5, <2>1, <2>2 DEF ThreadForceClose, Open
<1>6. ASSUME NEW op \in {"startread", "stopread"}, ThreadRead(t, op)
      PROVE  ConnInv'
  <2>1. Core'
    BY <1>6, CoreUnchanged DEF ThreadRead, ConnInv
  <2>2. op \in Ops \ {"send"}
    BY DEF Ops
  <2> QED
    BY <1>3, <1>6, <2>1, <2>2 DEF ThreadRead, connVars
<1>7. CASE Post(t)
  <2>1. tpc[t] \in Funcs /\ funcs \in Seq(Funcs)
    BY <1>1, <1>7 DEF Post, LoopTypes
  <2>2. funcs' \in Seq(Funcs)
    BY <1>7, <2>1, AppendProperties DEF Post
  <2>3. LoopTypes' /\ (pc' = "start" <=> pc = "start")
    BY <1>1, <1>7, <2>2 DEF Post, loopVars, bounds, LoopTypes
  <2> QED
    BY <1>7, <2>3, ConnUntouched DEF Post
<1> QED
  BY <1>2, <1>4, <1>5, <1>6, <1>7 DEF ThreadCall

\* Every step.
LEMMA ConnNext ==
  ASSUME ConnInv, [Next]_vars
  PROVE  ConnInv'
<1>1. CASE LoopStep
  BY <1>1, ConnLoopStep
<1>2. CASE LoopCall
  BY <1>2, ConnLoopCall
<1>3. ASSUME NEW t \in Threads, ThreadCall(t) \/ Post(t)
      PROVE  ConnInv'
  BY <1>3, ConnThread
<1>4. CASE PeerSends \/ \E how \in {"fin", "rst"} : PeerCloses(how)
  <2>1. LoopTypes' /\ (pc' = "start" <=> pc = "start") /\ UNCHANGED connVars
    BY <1>4 DEF PeerSends, PeerCloses, loopVars, bounds, ConnInv, LoopTypes
  <2> QED
    BY <2>1, ConnUntouched
<1>5. CASE UNCHANGED vars
  <2>1. LoopTypes' /\ (pc' = "start" <=> pc = "start") /\ UNCHANGED connVars
    BY <1>5 DEF vars, loopVars, bounds, ConnInv, LoopTypes
  <2> QED
    BY <2>1, ConnUntouched
<1> QED
  BY <1>1, <1>2, <1>3, <1>4, <1>5 DEF Next

\* The initial states.
LEMMA ConnInit == Init => ConnInv
<1> SUFFICES ASSUME Init PROVE ConnInv
  OBVIOUS
<1>1. <<>> \in Seq(Byte) /\ <<>> \in Seq(Funcs)
  BY EmptySeq
<1>2. ConnTypes
  BY <1>1, NewConsistent DEF Init, ConnTypes
<1>3. BufferInv /\ HalfCloseDrained
  BY DEF Init, BufferInv, HalfCloseDrained, NewDispatch, IsWriting
<1>4. sent \o writebuf_ = accepted
  BY <1>1, ConcatEmptySeq DEF Init
<1>5. Consistent(dispatch_)
  BY NewConsistent DEF Init
<1>6. tpc \in [Threads -> Funcs \cup {NoFunc}]
  BY DEF Init
<1>7. nmsgs \in 0..MaxMsgs
  BY BoundsAssumption DEF Init
<1>8. LoopTypes
  BY <1>1, <1>6, <1>7 DEF Init, LoopTypes
<1>9. StartInv
  BY DEF Init, StartInv
<1> QED
  BY <1>2, <1>3, <1>4, <1>5, <1>8, <1>9 DEF ConnInv, Core

-----------------------------------------------------------------------------
(* The order of the messages of one thread.                                *)

\* The numbers of the messages that are compared are numbers.
LEMMA Numbers ==
  /\ \A A \in Seq(Byte) : \A i \in 1..Len(A) : A[i][2] \in Nat
  /\ \A Q \in Seq(Funcs) : \A i \in 1..Len(Q) : IsSend(Q[i]) => Q[i].msg[2] \in Nat
<1>1. \A b \in Byte : b[2] \in Nat
  BY BoundsAssumption DEF Byte
<1>2. \A f \in Funcs : IsSend(f) => f.msg \in Messages
  BY FuncsProperties DEF IsSend
<1>3. \A m \in Messages : m[2] \in Nat
  BY BoundsAssumption DEF Messages
<1>4. ASSUME NEW A \in Seq(Byte), NEW i \in 1..Len(A) PROVE A[i][2] \in Nat
  BY <1>1, ElementOfSeq
<1>5. ASSUME NEW Q \in Seq(Funcs), NEW i \in 1..Len(Q), IsSend(Q[i])
      PROVE  Q[i].msg[2] \in Nat
  <2>1. Q[i] \in Funcs
    BY ElementOfSeq
  <2> QED
    BY <1>2, <1>3, <1>5, <2>1
<1> QED
  BY <1>4, <1>5

\* Functions that leave the queue at its front do not matter.
LEMMA OrderSuffix ==
  ASSUME NEW A, NEW P, NEW n, NEW Q \in Seq(Funcs), NEW R \in Seq(Funcs), NEW k \in Nat,
         Len(R) + k = Len(Q), \A i \in 1..Len(R) : R[i] = Q[i + k],
         Ordered(A, Q, P, n)
  PROVE  Ordered(A, R, P, n)
<1>1. Len(Q) \in Nat /\ Len(R) \in Nat
  BY LenProperties
<1>2. \A i \in 1..Len(R) : i + k \in 1..Len(Q) /\ R[i] = Q[i + k]
  BY <1>1
<1>3. QueuedOrder(R, n)
  <2>1. ASSUME NEW i \in 1..Len(R), NEW j \in 1..Len(R), i < j, IsSend(R[i]), IsSend(R[j]),
               R[i].msg[1] = R[j].msg[1]
        PROVE  R[i].msg[2] <= R[j].msg[2]
    <3>1. i + k < j + k
      BY <1>1, <2>1
    <3> QED
      BY <1>2, <2>1, <3>1 DEF Ordered, QueuedOrder
  <2>2. \A i \in 1..Len(R) : IsSend(R[i]) => R[i].msg[1] \in Threads /\ R[i].msg[2] <= n
    BY <1>2 DEF Ordered, QueuedOrder
  <2> QED
    BY <2>1, <2>2 DEF QueuedOrder
<1>4. AcceptedFirst(A, R)
  BY <1>2 DEF Ordered, AcceptedFirst
<1>5. PendingLast(A, R, P, n)
  BY <1>2 DEF Ordered, PendingLast
<1> QED
  BY <1>3, <1>4, <1>5 DEF Ordered

\* The next number is the greatest.
LEMMA OrderMore ==
  ASSUME NEW A \in Seq(Byte), NEW Q \in Seq(Funcs), NEW P \in [Threads -> Funcs \cup {NoFunc}],
         NEW n \in Nat, Ordered(A, Q, P, n)
  PROVE  Ordered(A, Q, P, n + 1)
<1>1. AcceptedOrder(A, n + 1)
  BY Numbers DEF Ordered, AcceptedOrder
<1>2. QueuedOrder(Q, n + 1)
  <2>1. /\ \A i, j \in 1..Len(Q) :
              i < j /\ IsSend(Q[i]) /\ IsSend(Q[j]) /\ Q[i].msg[1] = Q[j].msg[1]
                 => Q[i].msg[2] <= Q[j].msg[2]
        /\ \A i \in 1..Len(Q) : IsSend(Q[i]) => Q[i].msg[1] \in Threads /\ Q[i].msg[2] <= n
    BY DEF Ordered, QueuedOrder
  <2>2. ASSUME NEW i \in 1..Len(Q), IsSend(Q[i])
        PROVE  Q[i].msg[1] \in Threads /\ Q[i].msg[2] <= n + 1
    <3>1. Q[i].msg[2] \in Nat
      BY <2>2, Numbers
    <3>2. Q[i].msg[1] \in Threads /\ Q[i].msg[2] <= n
      BY <2>1, <2>2
    <3> DEFINE m == Q[i].msg[2]
    <3> HIDE DEF m
    <3>3. m \in Nat /\ m <= n
      BY <3>1, <3>2 DEF m
    <3>4. m <= n + 1
      BY <3>3
    <3> QED
      BY <3>2, <3>4 DEF m
  <2> QED
    BY <2>1, <2>2 DEF QueuedOrder
<1>3. ASSUME NEW t \in Threads, IsSend(P[t]) PROVE P[t].msg[2] \in Nat
  BY <1>3, FuncsProperties, BoundsAssumption DEF IsSend, Messages
<1>4. PendingLast(A, Q, P, n + 1)
  BY <1>3 DEF Ordered, PendingLast
<1> QED
  BY <1>1, <1>2, <1>4 DEF Ordered

\* A function that is not a send is queued.
LEMMA OrderOther ==
  ASSUME NEW A, NEW P, NEW n, NEW Q \in Seq(Funcs), NEW f \in Funcs, ~IsSend(f),
         Ordered(A, Q, P, n)
  PROVE  Ordered(A, Append(Q, f), P, n)
<1> DEFINE R == Append(Q, f)
<1>1. /\ Len(Q) \in Nat /\ Len(R) = Len(Q) + 1 /\ R[Len(Q) + 1] = f
      /\ \A i \in 1..Len(Q) : R[i] = Q[i]
  BY LenProperties, AppendProperties
<1> HIDE DEF R
<1>2. \A i \in 1..Len(R) : IsSend(R[i]) => i \in 1..Len(Q) /\ R[i] = Q[i]
  BY <1>1
<1>3. QueuedOrder(R, n)
  BY <1>2 DEF Ordered, QueuedOrder
<1>4. AcceptedFirst(A, R)
  BY <1>2 DEF Ordered, AcceptedFirst
<1>5. PendingLast(A, R, P, n)
  BY <1>2 DEF Ordered, PendingLast
<1> QED
  BY <1>3, <1>4, <1>5 DEF Ordered, R

\* A thread is about to queue something that is not a send.
LEMMA OrderNoSend ==
  ASSUME NEW A, NEW Q, NEW n, NEW P \in [Threads -> Funcs \cup {NoFunc}],
         NEW t \in Threads, NEW f, ~IsSend(f), Ordered(A, Q, P, n)
  PROVE  Ordered(A, Q, [P EXCEPT ![t] = f], n)
<1> DEFINE R == [P EXCEPT ![t] = f]
<1>1. \A u \in Threads : IsSend(R[u]) => R[u] = P[u]
  OBVIOUS
<1> HIDE DEF R
<1>2. PendingLast(A, Q, R, n)
  BY <1>1 DEF Ordered, PendingLast
<1> QED
  BY <1>2 DEF Ordered, R

\* A thread is about to queue a message, whose number is the greatest.
LEMMA OrderNumber ==
  ASSUME NEW A \in Seq(Byte), NEW Q \in Seq(Funcs), NEW P \in [Threads -> Funcs \cup {NoFunc}],
         NEW n \in Nat, NEW t \in Threads, Ordered(A, Q, P, n)
  PROVE  Ordered(A, Q, [P EXCEPT ![t] = SendFunc(<<t, n + 1>>)], n + 1)
<1> DEFINE f == SendFunc(<<t, n + 1>>)
           R == [P EXCEPT ![t] = f]
<1>1. f.msg[1] = t /\ f.msg[2] = n + 1
  BY DEF SendFunc
<1>2. R[t] = f /\ \A u \in Threads : u # t => R[u] = P[u]
  OBVIOUS
<1>3. Ordered(A, Q, P, n + 1)
  BY OrderMore
<1> HIDE DEF R, f
<1>4. ASSUME NEW u \in Threads, IsSend(R[u])
      PROVE  /\ R[u].msg[1] = u /\ R[u].msg[2] <= n + 1
             /\ \A i \in 1..Len(A) : A[i][1] = u => A[i][2] <= R[u].msg[2]
             /\ \A j \in 1..Len(Q) : IsSend(Q[j]) /\ Q[j].msg[1] = u => Q[j].msg[2] <= R[u].msg[2]
  <2>1. CASE u = t
    <3>1. R[u].msg[1] = u /\ R[u].msg[2] = n + 1
      BY <1>1, <1>2, <2>1
    <3>2. \A i \in 1..Len(A) : A[i][2] <= n + 1
      BY <1>3 DEF Ordered, AcceptedOrder
    <3>3. \A j \in 1..Len(Q) : IsSend(Q[j]) => Q[j].msg[2] <= n + 1
      BY <1>3 DEF Ordered, QueuedOrder
    <3> QED
      BY <3>1, <3>2, <3>3
  <2>2. CASE u # t
    BY <1>2, <1>3, <1>4, <2>2 DEF Ordered, PendingLast
  <2> QED
    BY <2>1, <2>2
<1>5. PendingLast(A, Q, R, n + 1)
  BY <1>4 DEF PendingLast
<1> QED
  BY <1>3, <1>5 DEF Ordered, R, f

\* What a thread was about to queue is queued.
LEMMA OrderPost ==
  ASSUME NEW A, NEW n, NEW Q \in Seq(Funcs), NEW P \in [Threads -> Funcs \cup {NoFunc}],
         NEW t \in Threads, P[t] \in Funcs, Ordered(A, Q, P, n)
  PROVE  Ordered(A, Append(Q, P[t]), [P EXCEPT ![t] = NoFunc], n)
<1> DEFINE f == P[t]
           R == Append(Q, f)
           S == [P EXCEPT ![t] = NoFunc]
<1>1. /\ Len(Q) \in Nat /\ Len(R) = Len(Q) + 1 /\ R[Len(Q) + 1] = f
      /\ \A i \in 1..Len(Q) : R[i] = Q[i]
  BY LenProperties, AppendProperties
<1>2. ~IsSend(NoFunc)
  BY FuncsProperties DEF IsSend
<1>3. Ordered(A, Q, S, n)
  BY <1>2, OrderNoSend
<1>4. CASE ~IsSend(f)
  BY <1>3, <1>4, OrderOther
<1>5. CASE IsSend(f)
  <2>1. /\ f.msg[1] = t /\ f.msg[2] <= n
        /\ \A i \in 1..Len(A) : A[i][1] = t => A[i][2] <= f.msg[2]
        /\ \A j \in 1..Len(Q) : IsSend(Q[j]) /\ Q[j].msg[1] = t => Q[j].msg[2] <= f.msg[2]
    BY <1>5 DEF Ordered, PendingLast
  <2>2. ~IsSend(S[t])
    BY <1>2
  <2> HIDE DEF f, R, S
  <2>3. \A i \in 1..Len(R) : (i \in 1..Len(Q) /\ R[i] = Q[i]) \/ (i = Len(Q) + 1 /\ R[i] = f)
    BY <1>1
  <2>4. QueuedOrder(R, n)
    <3>1. ASSUME NEW i \in 1..Len(R), NEW j \in 1..Len(R), i < j, IsSend(R[i]), IsSend(R[j]),
                 R[i].msg[1] = R[j].msg[1]
          PROVE  R[i].msg[2] <= R[j].msg[2]
      <4>1. i \in 1..Len(Q) /\ R[i] = Q[i]
        BY <1>1, <2>3, <3>1
      <4>2. CASE j \in 1..Len(Q) /\ R[j] = Q[j]
        BY <3>1, <4>1, <4>2 DEF Ordered, QueuedOrder
      <4>3. CASE R[j] = f
        BY <3>1, <4>1, <4>3, <2>1
      <4> QED
        BY <2>3, <4>2, <4>3
    <3>2. ASSUME NEW i \in 1..Len(R), IsSend(R[i])
          PROVE  R[i].msg[1] \in Threads /\ R[i].msg[2] <= n
      <4>1. CASE i \in 1..Len(Q) /\ R[i] = Q[i]
        BY <3>2, <4>1 DEF Ordered, QueuedOrder
      <4>2. CASE R[i] = f
        BY <4>2, <2>1
      <4> QED
        BY <2>3, <4>1, <4>2
    <3> QED
      BY <3>1, <3>2 DEF QueuedOrder
  <2>5. AcceptedFirst(A, R)
    <3>1. ASSUME NEW i \in 1..Len(A), NEW j \in 1..Len(R), IsSend(R[j]), A[i][1] = R[j].msg[1]
          PROVE  A[i][2] <= R[j].msg[2]
      <4>1. CASE j \in 1..Len(Q) /\ R[j] = Q[j]
        BY <3>1, <4>1 DEF Ordered, AcceptedFirst
      <4>2. CASE R[j] = f
        BY <3>1, <4>2, <2>1
      <4> QED
        BY <2>3, <4>1, <4>2
    <3> QED
      BY <3>1 DEF AcceptedFirst
  <2>6. PendingLast(A, R, S, n)
    <3>1. ASSUME NEW u \in Threads, IsSend(S[u])
          PROVE  /\ S[u].msg[1] = u /\ S[u].msg[2] <= n
                 /\ \A i \in 1..Len(A) : A[i][1] = u => A[i][2] <= S[u].msg[2]
                 /\ \A j \in 1..Len(Q) : IsSend(Q[j]) /\ Q[j].msg[1] = u
                       => Q[j].msg[2] <= S[u].msg[2]
      BY <1>3, <3>1 DEF Ordered, PendingLast
    <3>2. ASSUME NEW u \in Threads, IsSend(S[u]), NEW j \in 1..Len(R), IsSend(R[j]),
                 R[j].msg[1] = u
          PROVE  j \in 1..Len(Q) /\ R[j] = Q[j]
      BY <3>2, <2>1, <2>2, <2>3
    <3> QED
      BY <3>1, <3>2 DEF PendingLast
  <2> QED
    BY <2>4, <2>5, <2>6 DEF Ordered, f, R, S
<1> QED
  BY <1>4, <1>5

\* SendInLoop takes on a message that is next in its thread's order.
LEMMA OrderTake ==
  ASSUME NEW A \in Seq(Byte), NEW Q, NEW P, NEW n, NEW m \in Messages,
         Ordered(A, Q, P, n), m[2] <= n,
         \A i \in 1..Len(A) : A[i][1] = m[1] => A[i][2] <= m[2],
         \A j \in 1..Len(Q) : IsSend(Q[j]) /\ Q[j].msg[1] = m[1] => m[2] <= Q[j].msg[2],
         \A t \in Threads : IsSend(P[t]) /\ t = m[1] => m[2] <= P[t].msg[2]
  PROVE  Ordered(A \o Bytes(m), Q, P, n)
<1> DEFINE D == A \o Bytes(m)
<1>1. /\ MsgSize \in Nat /\ Len(A) \in Nat /\ Bytes(m) \in Seq(Byte) /\ Len(Bytes(m)) = MsgSize
      /\ \A i \in 1..MsgSize : Bytes(m)[i][1] = m[1] /\ Bytes(m)[i][2] = m[2]
      /\ m[2] \in Nat
  BY SizeAssumption, BoundsAssumption, LenProperties, BytesOfMessage DEF Messages
<1>2. /\ Len(D) = Len(A) + MsgSize
      /\ \A i \in 1..Len(A) + MsgSize :
            D[i] = IF i <= Len(A) THEN A[i] ELSE Bytes(m)[i - Len(A)]
  BY <1>1, ConcatProperties
<1> HIDE DEF D
<1>3. ASSUME NEW i \in 1..Len(D)
      PROVE  (i \in 1..Len(A) /\ D[i] = A[i]) \/ (i > Len(A) /\ D[i][1] = m[1] /\ D[i][2] = m[2])
  <2>1. CASE i <= Len(A)
    BY <1>1, <1>2, <2>1
  <2>2. CASE ~(i <= Len(A))
    <3>1. i - Len(A) \in 1..MsgSize /\ D[i] = Bytes(m)[i - Len(A)] /\ i > Len(A)
      BY <1>1, <1>2, <2>2
    <3> QED
      BY <1>1, <3>1
  <2> QED
    BY <2>1, <2>2
<1>4. AcceptedOrder(D, n)
  <2>1. ASSUME NEW i \in 1..Len(D), NEW j \in 1..Len(D), i < j, D[i][1] = D[j][1]
        PROVE  D[i][2] <= D[j][2]
    <3>1. CASE j \in 1..Len(A) /\ D[j] = A[j]
      <4>1. i \in 1..Len(A) /\ D[i] = A[i]
        BY <1>1, <1>3, <2>1, <3>1
      <4> QED
        BY <2>1, <3>1, <4>1 DEF Ordered, AcceptedOrder
    <3>2. CASE j > Len(A) /\ D[j][1] = m[1] /\ D[j][2] = m[2]
      BY <1>1, <1>3, <2>1, <3>2
    <3> QED
      BY <1>3, <3>1, <3>2
  <2>2. \A i \in 1..Len(D) : D[i][2] <= n
    BY <1>3 DEF Ordered, AcceptedOrder
  <2> QED
    BY <2>1, <2>2 DEF AcceptedOrder
<1>5. AcceptedFirst(D, Q)
  BY <1>3 DEF Ordered, AcceptedFirst
<1>6. PendingLast(D, Q, P, n)
  <2>1. ASSUME NEW t \in Threads, IsSend(P[t]), NEW i \in 1..Len(D), D[i][1] = t
        PROVE  D[i][2] <= P[t].msg[2]
    BY <1>3, <2>1 DEF Ordered, PendingLast
  <2> QED
    BY <2>1 DEF Ordered, PendingLast
<1> QED
  BY <1>4, <1>5, <1>6 DEF Ordered, D

\* The message at the front of the queue is next in its thread's order.
LEMMA OrderFront ==
  ASSUME NEW A \in Seq(Byte), NEW Q \in Seq(Funcs), NEW R \in Seq(Funcs), NEW P, NEW n,
         NEW m \in Messages, Len(R) + 1 = Len(Q), \A i \in 1..Len(R) : R[i] = Q[i + 1],
         IsSend(Q[1]), Q[1].msg = m, Ordered(A, Q, P, n)
  PROVE  Ordered(A \o Bytes(m), R, P, n)
<1>1. Len(Q) \in Nat /\ Len(R) \in Nat /\ 1 \in 1..Len(Q)
  BY LenProperties
<1>2. Ordered(A, R, P, n)
  BY <1>1, OrderSuffix
<1>3. m[2] <= n
  BY <1>1 DEF Ordered, QueuedOrder
<1>4. \A i \in 1..Len(A) : A[i][1] = m[1] => A[i][2] <= m[2]
  BY <1>1 DEF Ordered, AcceptedFirst
<1>5. ASSUME NEW j \in 1..Len(R), IsSend(R[j]), R[j].msg[1] = m[1]
      PROVE  m[2] <= R[j].msg[2]
  <2>1. j + 1 \in 1..Len(Q) /\ 1 < j + 1 /\ R[j] = Q[j + 1]
    BY <1>1
  <2> QED
    BY <1>1, <1>5, <2>1 DEF Ordered, QueuedOrder
<1>6. \A t \in Threads : IsSend(P[t]) /\ t = m[1] => m[2] <= P[t].msg[2]
  BY <1>1 DEF Ordered, PendingLast
<1> QED
  BY <1>2, <1>3, <1>4, <1>5, <1>6, OrderTake

\* A message of the loop thread, which is never queued.
LEMMA OrderLoop ==
  ASSUME NEW A \in Seq(Byte), NEW Q \in Seq(Funcs), NEW P \in [Threads -> Funcs \cup {NoFunc}],
         NEW n \in Nat, <<Loop, n + 1>> \in Messages, Ordered(A, Q, P, n)
  PROVE  Ordered(A \o Bytes(<<Loop, n + 1>>), Q, P, n + 1)
<1> DEFINE m == <<Loop, n + 1>>
<1>1. m \in Messages /\ m[1] = Loop /\ m[2] = n + 1
  OBVIOUS
<1> HIDE DEF m
<1>2. Ordered(A, Q, P, n + 1)
  BY OrderMore
<1>3. m[2] <= n + 1 /\ \A i \in 1..Len(A) : A[i][2] <= m[2]
  BY <1>1, <1>2 DEF Ordered, AcceptedOrder
<1>4. \A j \in 1..Len(Q) : IsSend(Q[j]) => Q[j].msg[1] # m[1]
  BY <1>1, <1>2, LoopAssumption DEF Ordered, QueuedOrder
<1>5. \A t \in Threads : t # m[1]
  BY <1>1, LoopAssumption
<1> QED
  BY <1>1, <1>2, <1>3, <1>4, <1>5, OrderTake DEF m

\* Where a function is queued behind a batch.
LEMMA ConcatAppend ==
  ASSUME NEW S, NEW s \in Seq(S), NEW t \in Seq(S), NEW e \in S
  PROVE  s \o Append(t, e) = Append(s \o t, e)
<1>1. <<e>> \in Seq(S) /\ Append(t, e) = t \o <<e>>
  BY AppendIsConcat
<1>2. s \o t \in Seq(S)
  BY ConcatProperties
<1>3. Append(s \o t, e) = (s \o t) \o <<e>>
  BY <1>2, AppendIsConcat
<1>4. (s \o t) \o <<e>> = s \o (t \o <<e>>)
  BY <1>1, ConcatAssociative
<1> QED
  BY <1>1, <1>3, <1>4

\* The queue without the function that RunFuncs takes from the batch.
LEMMA QueueTail ==
  ASSUME NEW b \in Seq(Funcs), NEW f \in Seq(Funcs), b # <<>>
  PROVE  /\ Tail(b) \o f \in Seq(Funcs) /\ b \o f \in Seq(Funcs)
         /\ Len(Tail(b) \o f) + 1 = Len(b \o f)
         /\ \A i \in 1..Len(Tail(b) \o f) : (Tail(b) \o f)[i] = (b \o f)[i + 1]
         /\ (b \o f)[1] = Head(b)
<1> DEFINE t == Tail(b)
           Q == b \o f
           R == t \o f
<1>1. /\ Len(b) \in Nat \ {0} /\ Len(f) \in Nat /\ t \in Seq(Funcs) /\ Len(t) = Len(b) - 1
      /\ \A i \in 1..Len(t) : t[i] = b[i + 1]
  BY EmptySeq, LenProperties, HeadTailProperties
<1>2. b[1] = Head(b)
  OBVIOUS
<1> HIDE DEF t
<1>3. /\ Q \in Seq(Funcs) /\ Len(Q) = Len(b) + Len(f)
      /\ \A i \in 1..Len(b) + Len(f) : Q[i] = IF i <= Len(b) THEN b[i] ELSE f[i - Len(b)]
  BY ConcatProperties
<1>4. /\ R \in Seq(Funcs) /\ Len(R) = Len(t) + Len(f)
      /\ \A i \in 1..Len(t) + Len(f) : R[i] = IF i <= Len(t) THEN t[i] ELSE f[i - Len(t)]
  BY <1>1, ConcatProperties
<1> HIDE DEF Q, R
<1>5. Len(R) + 1 = Len(Q) /\ Q[1] = Head(b)
  BY <1>1, <1>2, <1>3, <1>4
<1>6. ASSUME NEW i \in 1..Len(R) PROVE R[i] = Q[i + 1]
  <2>1. i + 1 \in 1..Len(b) + Len(f)
    BY <1>1, <1>4
  <2>2. CASE i <= Len(t)
    BY <1>1, <1>3, <1>4, <2>1, <2>2
  <2>3. CASE ~(i <= Len(t))
    <3>0. i \in 1..Len(t) + Len(f) /\ ~(i + 1 <= Len(b))
      BY <1>1, <1>4, <2>3
    <3>1. R[i] = f[i - Len(t)] /\ Q[i + 1] = f[(i + 1) - Len(b)]
      <4>1. R[i] = f[i - Len(t)]
        BY <1>4, <2>3, <3>0
      <4>2. Q[i + 1] = f[(i + 1) - Len(b)]
        BY <1>3, <2>1, <3>0
      <4> QED
        BY <4>1, <4>2
    <3>2. i - Len(t) = (i + 1) - Len(b)
      BY <1>1
    <3> QED
      BY <3>1, <3>2
  <2> QED
    BY <2>2, <2>3
<1> QED
  BY <1>3, <1>4, <1>5, <1>6 DEF t, Q, R

\* The high water mark, when it is reached, is queued behind everything.
LEMMA OrderHighWater ==
  ASSUME LoopTypes, NEW A, NEW P, NEW n, NEW b \in Seq(Funcs), Ordered(A, b \o funcs, P, n),
         funcs' = funcs \/ funcs' = Append(funcs, Func("highwater"))
  PROVE  Ordered(A, b \o funcs', P, n)
<1>1. funcs \in Seq(Funcs) /\ Func("highwater") \in Funcs /\ ~IsSend(Func("highwater"))
  BY FuncsProperties DEF LoopTypes, IsSend
<1>2. b \o funcs \in Seq(Funcs)
  BY <1>1, ConcatProperties
<1>3. b \o Append(funcs, Func("highwater")) = Append(b \o funcs, Func("highwater"))
  BY <1>1, ConcatAppend
<1>4. Ordered(A, Append(b \o funcs, Func("highwater")), P, n)
  BY <1>1, <1>2, OrderOther
<1> QED
  BY <1>3, <1>4

\* What takes no message on and queues nothing keeps the order.
LEMMA OrderUnchanged ==
  ASSUME OrderInv, UNCHANGED <<accepted, batch, funcs, tpc, nmsgs>>
  PROVE  OrderInv'
BY DEF OrderInv

\* RunFuncs executes a queued function.
LEMMA OrderRunFunc ==
  ASSUME ConnInv, OrderInv, RunFunc
  PROVE  OrderInv'
<1> USE DEF Outside, bounds
<1> DEFINE f == Head(batch)
           Q == batch \o funcs
           R == Tail(batch) \o funcs
<1>1. /\ Core /\ LoopTypes /\ batch \in Seq(Funcs) /\ funcs \in Seq(Funcs) /\ batch # <<>>
      /\ batch' = Tail(batch) /\ accepted \in Seq(Byte) /\ UNCHANGED <<tpc, nmsgs>>
  BY DEF ConnInv, Core, ConnTypes, LoopTypes, RunFunc
<1>2. f \in Funcs /\ batch' \in Seq(Funcs)
  BY <1>1, HeadTailProperties
<1>3. /\ Q \in Seq(Funcs) /\ R \in Seq(Funcs) /\ Len(R) + 1 = Len(Q)
      /\ \A i \in 1..Len(R) : R[i] = Q[i + 1]
      /\ Q[1] = f
  BY <1>1, QueueTail
<1>4. Ordered(accepted, Q, tpc, nmsgs)
  BY DEF OrderInv
<1>5. R = batch' \o funcs
  BY <1>1
<1> HIDE DEF f, Q, R
<1>6. Ordered(accepted, R, tpc, nmsgs)
  BY <1>3, <1>4, OrderSuffix
<1>7. CASE f.op = "send" /\ DoSend(f.msg)
  <2>1. f.msg \in Messages
    BY <1>2, <1>7, FuncsProperties
  <2>2. /\ accepted' = accepted \/ accepted' = accepted \o Bytes(f.msg)
        /\ funcs' = funcs \/ funcs' = Append(funcs, Func("highwater"))
    BY <1>1, <1>7, <2>1, CoreDoSend, DoSendLoop
  <2>3. Ordered(accepted \o Bytes(f.msg), R, tpc, nmsgs)
    BY <1>1, <1>3, <1>4, <1>7, <2>1, OrderFront DEF IsSend
  <2>4. Ordered(accepted', batch' \o funcs, tpc, nmsgs)
    BY <1>5, <1>6, <2>2, <2>3
  <2>5. Ordered(accepted', batch' \o funcs', tpc, nmsgs)
    BY <1>1, <1>2, <2>2, <2>4, OrderHighWater
  <2> QED
    BY <1>1, <2>5 DEF OrderInv
<1>8. CASE UNCHANGED <<accepted, funcs>>
  <2>1. Ordered(accepted', batch' \o funcs', tpc', nmsgs')
    BY <1>1, <1>5, <1>6, <1>8
  <2> QED
    BY <2>1 DEF OrderInv
<1>9. \/ f.op = "send" /\ DoSend(f.msg)
      \/ UNCHANGED <<accepted, funcs>>
  BY DEF RunFunc, DoShutDown, DoForceClose, HandleClose, DoStartRead, DoStopRead, connVars, f
<1> QED
  BY <1>7, <1>8, <1>9

\* The swap in RunFuncs.
LEMMA OrderSwapFuncs ==
  ASSUME ConnInv, OrderInv, SwapFuncs
  PROVE  OrderInv'
<1> DEFINE Q == batch \o funcs
<1>1. /\ batch \in Seq(Funcs) /\ funcs \in Seq(Funcs) /\ batch' = funcs /\ funcs' = <<>>
      /\ UNCHANGED <<accepted, tpc, nmsgs>>
  BY DEF ConnInv, LoopTypes, SwapFuncs, connVars, Outside, bounds
<1>2. batch' \o funcs' = funcs
  BY <1>1, ConcatEmptySeq
<1>3. /\ Q \in Seq(Funcs) /\ Len(Q) = Len(batch) + Len(funcs)
      /\ \A i \in 1..Len(batch) + Len(funcs) :
            Q[i] = IF i <= Len(batch) THEN batch[i] ELSE funcs[i - Len(batch)]
  BY <1>1, ConcatProperties
<1>4. Ordered(accepted, Q, tpc, nmsgs)
  BY DEF OrderInv
<1> HIDE DEF Q
<1>5. Len(batch) \in Nat /\ Len(funcs) \in Nat
  BY <1>1, LenProperties
<1>6. ASSUME NEW i \in 1..Len(funcs) PROVE funcs[i] = Q[i + Len(batch)]
  <2>1. i + Len(batch) \in 1..Len(batch) + Len(funcs) /\ ~(i + Len(batch) <= Len(batch))
        /\ (i + Len(batch)) - Len(batch) = i
    BY <1>5
  <2> QED
    BY <1>3, <2>1
<1>7. Len(funcs) + Len(batch) = Len(Q)
  BY <1>3, <1>5
<1>8. Ordered(accepted, funcs, tpc, nmsgs)
  BY <1>1, <1>3, <1>4, <1>5, <1>6, <1>7, OrderSuffix
<1>9. Ordered(accepted', batch' \o funcs', tpc', nmsgs')
  BY <1>1, <1>2, <1>8
<1> QED
  BY <1>9 DEF OrderInv

\* The operations called on the loop thread.
LEMMA OrderLoopCall ==
  ASSUME ConnInv, OrderInv, LoopCall
  PROVE  OrderInv'
<1> DEFINE Q == batch \o funcs
<1>1. /\ Core /\ LoopTypes /\ batch \in Seq(Funcs) /\ funcs \in Seq(Funcs)
      /\ accepted \in Seq(Byte) /\ tpc \in [Threads -> Funcs \cup {NoFunc}] /\ nmsgs \in Nat
  BY BoundsAssumption DEF ConnInv, Core, ConnTypes, LoopTypes
<1>2. Q \in Seq(Funcs)
  BY <1>1, ConcatProperties
<1>3. Ordered(accepted, Q, tpc, nmsgs)
  BY DEF OrderInv
<1> HIDE DEF Q
<1>4. CASE LoopSendMessage
  <2>1. /\ nmsgs < MaxMsgs /\ nmsgs' = nmsgs + 1 /\ DoSend(<<Loop, nmsgs + 1>>)
        /\ UNCHANGED <<batch, tpc>>
    BY <1>4 DEF LoopSendMessage
  <2>2. <<Loop, nmsgs + 1>> \in Messages
    BY <1>1, <2>1, NextMessage
  <2>3. /\ accepted' = accepted \/ accepted' = accepted \o Bytes(<<Loop, nmsgs + 1>>)
        /\ funcs' = funcs \/ funcs' = Append(funcs, Func("highwater"))
    BY <1>1, <2>1, <2>2, CoreDoSend, DoSendLoop
  <2>4. Ordered(accepted, Q, tpc, nmsgs + 1)
    BY <1>1, <1>2, <1>3, OrderMore
  <2>5. Ordered(accepted \o Bytes(<<Loop, nmsgs + 1>>), Q, tpc, nmsgs + 1)
    BY <1>1, <1>2, <1>3, <2>2, OrderLoop
  <2>6. Ordered(accepted', batch \o funcs, tpc, nmsgs + 1)
    BY <2>3, <2>4, <2>5 DEF Q
  <2>7. Ordered(accepted', batch \o funcs', tpc, nmsgs + 1)
    BY <1>1, <2>3, <2>6, OrderHighWater
  <2> QED
    BY <2>1, <2>7 DEF OrderInv
<1>5. CASE LoopForceClose
  <2>1. Func("forceclose") \in Funcs /\ ~IsSend(Func("forceclose"))
    BY FuncsProperties DEF Ops, IsSend
  <2>2. funcs' = Append(funcs, Func("forceclose")) /\ UNCHANGED <<accepted, batch, tpc, nmsgs>>
    BY <1>5 DEF LoopForceClose, loopVars
  <2>3. batch \o Append(funcs, Func("forceclose")) = Append(Q, Func("forceclose"))
    BY <1>1, <2>1, ConcatAppend DEF Q
  <2>4. Ordered(accepted, Append(Q, Func("forceclose")), tpc, nmsgs)
    BY <1>2, <1>3, <2>1, OrderOther
  <2>5. Ordered(accepted', batch' \o funcs', tpc', nmsgs')
    BY <2>2, <2>3, <2>4
  <2> QED
    BY <2>5 DEF OrderInv
<1>6. CASE LoopShutDown
  BY <1>6, OrderUnchanged DEF LoopShutDown, DoShutDown
<1>7. CASE LoopStartRead
  BY <1>7, OrderUnchanged DEF LoopStartRead, DoStartRead
<1>8. CASE LoopStopRead
  BY <1>8, OrderUnchanged DEF LoopStopRead, DoStopRead
<1> QED
  BY <1>4, <1>5, <1>6, <1>7, <1>8 DEF LoopCall

\* The operations called on another thread, and their QueueInLoop.
LEMMA OrderThread ==
  ASSUME ConnInv, OrderInv, NEW t \in Threads, ThreadCall(t) \/ Post(t)
  PROVE  OrderInv'
<1> DEFINE Q == batch \o funcs
<1>1. /\ batch \in Seq(Funcs) /\ funcs \in Seq(Funcs)
      /\ accepted \in Seq(Byte) /\ tpc \in [Threads -> Funcs \cup {NoFunc}] /\ nmsgs \in Nat
  BY BoundsAssumption DEF ConnInv, Core, ConnTypes, LoopTypes
<1>2. Q \in Seq(Funcs)
  BY <1>1, ConcatProperties
<1>3. Ordered(accepted, Q, tpc, nmsgs)
  BY DEF OrderInv
<1> HIDE DEF Q
<1>4. CASE ThreadSendMessage(t)
  <2>1. /\ nmsgs' = nmsgs + 1 /\ tpc' = [tpc EXCEPT ![t] = SendFunc(<<t, nmsgs + 1>>)]
        /\ UNCHANGED <<accepted, batch, funcs>>
    BY <1>4 DEF ThreadSendMessage, connVars, loopVars
  <2>2. Ordered(accepted, Q, [tpc EXCEPT ![t] = SendFunc(<<t, nmsgs + 1>>)], nmsgs + 1)
    BY <1>1, <1>2, <1>3, OrderNumber
  <2>3. Ordered(accepted', batch' \o funcs', tpc', nmsgs')
    BY <2>1, <2>2 DEF Q
  <2> QED
    BY <2>3 DEF OrderInv
<1>5. ASSUME NEW op \in Ops \ {"send"}, tpc' = [tpc EXCEPT ![t] = Func(op)],
             UNCHANGED <<accepted, batch, funcs, nmsgs>>
      PROVE  OrderInv'
  <2>1. ~IsSend(Func(op))
    BY FuncsProperties DEF IsSend
  <2>2. Ordered(accepted, Q, [tpc EXCEPT ![t] = Func(op)], nmsgs)
    BY <1>1, <1>3, <2>1, OrderNoSend
  <2>3. Ordered(accepted', batch' \o funcs', tpc', nmsgs')
    BY <1>5, <2>2 DEF Q
  <2> QED
    BY <2>3 DEF OrderInv
<1>6. CASE ThreadShutDown(t)
  <2>1. "shutdown" \in Ops \ {"send"}
    BY DEF Ops
  <2> QED
    BY <1>5, <1>6, <2>1 DEF ThreadShutDown, loopVars
<1>7. CASE ThreadForceClose(t)
  <2>1. "forceclose" \in Ops \ {"send"}
    BY DEF Ops
  <2> QED
    BY <1>5, <1>7, <2>1 DEF ThreadForceClose, loopVars
<1>8. ASSUME NEW op \in {"startread", "stopread"}, ThreadRead(t, op)
      PROVE  OrderInv'
  <2>1. op \in Ops \ {"send"}
    BY DEF Ops
  <2> QED
    BY <1>5, <1>8, <2>1 DEF ThreadRead, connVars, loopVars
<1>9. CASE Post(t)
  <2>1. tpc[t] \in Funcs
    BY <1>1, <1>9 DEF Post
  <2>2. /\ funcs' = Append(funcs, tpc[t]) /\ tpc' = [tpc EXCEPT ![t] = NoFunc]
        /\ UNCHANGED <<accepted, batch, nmsgs>>
    BY <1>9 DEF Post, connVars, loopVars, bounds
  <2>3. batch \o Append(funcs, tpc[t]) = Append(Q, tpc[t])
    BY <1>1, <2>1, ConcatAppend DEF Q
  <2>4. Ordered(accepted, Append(Q, tpc[t]), [tpc EXCEPT ![t] = NoFunc], nmsgs)
    BY <1>1, <1>2, <1>3, <2>1, OrderPost
  <2>5. Ordered(accepted', batch' \o funcs', tpc', nmsgs')
    BY <2>2, <2>3, <2>4
  <2> QED
    BY <2>5 DEF OrderInv
<1> QED
  BY <1>4, <1>6, <1>7, <1>8, <1>9 DEF ThreadCall

\* Every step.
LEMMA OrderNext ==
  ASSUME ConnInv, OrderInv, [Next]_vars
  PROVE  OrderInv'
<1> USE DEF Outside, bounds, connVars, loopVars
<1>1. CASE StartWorking
  BY <1>1, OrderUnchanged DEF StartWorking
<1>2. ASSUME NEW events \in SUBSET {"in", "out", "hup"}, Poll(events)
      PROVE  OrderInv'
  BY <1>2, OrderUnchanged DEF Poll
<1>3. CASE BeginEvents \/ Return \/ EndFuncs
  BY <1>3, OrderUnchanged DEF BeginEvents, Return, EndFuncs
<1>4. CASE HandleEvent
  BY <1>4, OrderUnchanged DEF HandleEvent, HandleHup, HandleReadMessage, HandleReadEnd,
         HandleReadNothing, HandleWriteSome, HandleWriteFails, HandleWriteNothing,
         HandleWriteDrained, HandleClose
<1>5. CASE SwapFuncs
  BY <1>5, OrderSwapFuncs
<1>6. CASE RunFunc
  BY <1>6, OrderRunFunc
<1>7. CASE LoopCall
  BY <1>7, OrderLoopCall
<1>8. ASSUME NEW t \in Threads, ThreadCall(t) \/ Post(t)
      PROVE  OrderInv'
  BY <1>8, OrderThread
<1>9. CASE PeerSends \/ \E how \in {"fin", "rst"} : PeerCloses(how)
  BY <1>9, OrderUnchanged DEF PeerSends, PeerCloses
<1>10. CASE UNCHANGED vars
  BY <1>10, OrderUnchanged DEF vars
<1> QED
  BY <1>1, <1>2, <1>3, <1>4, <1>5, <1>6, <1>7, <1>8, <1>9, <1>10 DEF Next, LoopStep

\* The initial states.
LEMMA OrderInit == Init => OrderInv
<1> SUFFICES ASSUME Init PROVE OrderInv
  OBVIOUS
<1>1. batch \o funcs = <<>>
  <2>1. <<>> \in Seq(Funcs)
    BY EmptySeq
  <2> QED
    BY <2>1, ConcatEmptySeq DEF Init
<1>2. accepted = <<>> /\ Len(<<>>) = 0 /\ \A i : i \notin 1..0
  BY DEF Init
<1>3. \A t \in Threads : ~IsSend(tpc[t])
  BY FuncsProperties DEF Init, IsSend
<1>4. AcceptedOrder(<<>>, nmsgs) /\ QueuedOrder(<<>>, nmsgs) /\ AcceptedFirst(<<>>, <<>>)
  BY <1>2 DEF AcceptedOrder, QueuedOrder, AcceptedFirst
<1>5. PendingLast(<<>>, <<>>, tpc, nmsgs)
  BY <1>3 DEF PendingLast
<1> QED
  BY <1>1, <1>2, <1>4, <1>5 DEF OrderInv, Ordered

-----------------------------------------------------------------------------
(* The theorems, whatever is called on the connection and when.            *)

\* The inductive invariant of the connection holds in every reachable state.
THEOREM Invariance == Spec => []IInv
<1>1. Init => IInv
  BY ConnInit, OrderInit DEF IInv
<1>2. IInv /\ [Next]_vars => IInv'
  BY ConnNext, OrderNext DEF IInv
<1> QED
  BY <1>1, <1>2, PTL DEF Spec

\* No byte is lost, repeated or overtaken on its way through writebuf_, and
\* the messages of one thread keep their order (SendInLoop, HandleWrite,
\* QueueInLoop and RunFuncs).
THEOREM StreamInOrder == Spec => []StreamOrder
<1>1. IInv => StreamOrder
  BY DEF IInv, ConnInv, Core, OrderInv, Ordered, AcceptedOrder, StreamOrder
<1> QED
  BY <1>1, Invariance, PTL

\* While the connection is open the kernel watches for what the Dispatch says,
\* and for room to write exactly while bytes are buffered.
THEOREM WatchedWhileBuffered == Spec => []WriteInterest
<1>1. IInv => WriteInterest
  BY DEF IInv, ConnInv, Core, Consistent, BufferInv, WriteInterest, Open
<1> QED
  BY <1>1, Invariance, PTL

-----------------------------------------------------------------------------
(* What a ShutDown owes: the bytes taken on before it.                     *)

\* promised counts bytes that were taken on, and inside the end of HandleWrite
\* only bytes that are sent already.
PromiseInv ==
    /\ promised \in Nat
    /\ promised <= Len(accepted)
    /\ AfterDrain => promised <= Len(sent)

\* A step that is no ShutDown: bytes are only added, the end of HandleWrite is
\* entered with everything sent, and the write side is shut only then.
Kept ==
    /\ promised' = promised
    /\ Len(sent) <= Len(sent')
    /\ Len(accepted) <= Len(accepted')
    /\ AfterDrain' => AfterDrain \/ Len(sent') = Len(accepted')
    /\ halfClosed' # halfClosed /\ Open => Len(sent') = Len(accepted')

\* The step of a ShutDown.
Promised ==
    /\ Promise
    /\ state_' = "kDisconnecting"
    /\ UNCHANGED <<sent, accepted>>
    /\ AfterDrain' <=> AfterDrain
    /\ halfClosed' # halfClosed => Len(sent) = Len(accepted)

\* The lengths are numbers.
LEMMA Lengths ==
  ASSUME ConnInv
  PROVE  Len(sent) \in Nat /\ Len(accepted) \in Nat /\ Len(sent) <= Len(accepted)
<1>1. /\ sent \in Seq(Byte) /\ writebuf_ \in Seq(Byte) /\ accepted \in Seq(Byte)
      /\ sent \o writebuf_ = accepted
  BY DEF ConnInv, Core, ConnTypes
<1>2. Len(sent \o writebuf_) = Len(sent) + Len(writebuf_)
  BY <1>1, ConcatProperties
<1>3. Len(sent) \in Nat /\ Len(writebuf_) \in Nat
  BY <1>1, LenProperties
<1> QED
  BY <1>1, <1>2, <1>3

\* With an empty buffer everything taken on is sent.
LEMMA AllSent ==
  ASSUME ConnInv, writebuf_ = <<>>
  PROVE  sent = accepted
<1>1. sent \in Seq(Byte) /\ sent \o writebuf_ = accepted
  BY DEF ConnInv, Core, ConnTypes
<1> QED
  BY <1>1, ConcatEmptySeq

\* A step that touches none of it.
LEMMA KeptQuiet ==
  ASSUME ConnInv, UNCHANGED <<promised, sent, accepted, halfClosed>>,
         AfterDrain' => AfterDrain
  PROVE  Kept
BY Lengths DEF Kept

\* SendInLoop in every outcome.
LEMMA KeptSend ==
  ASSUME ConnInv, NEW m \in Messages, DoSend(m)
  PROVE  Kept
<1>1. AfterDrain' <=> AfterDrain
  BY DEF DoSend, SendInLoop, SendInLoopFails, SendInLoopTooLate, CallBack, NoCallBack,
         AfterDrain
<1>2. ASSUME NEW k \in 0..MsgSize, SendInLoop(m, k)
      PROVE  Kept
  <2> DEFINE wrote == IF Idle THEN k ELSE 0
             front == SubSeq(Bytes(m), 1, wrote)
  <2>1. MsgSize \in Nat \ {0} /\ wrote \in 0..MsgSize
    BY SizeAssumption
  <2>2. Bytes(m) \in Seq(Byte) /\ Len(Bytes(m)) = MsgSize
    BY BytesOfMessage
  <2>3. front \in Seq(Byte)
    BY <2>1, <2>2, CutAt
  <2>4. /\ sent' = sent \o front /\ accepted' = accepted \o Bytes(m)
        /\ promised' = promised /\ (halfClosed' = halfClosed)
    BY <1>2 DEF SendInLoop
  <2> HIDE DEF wrote, front
  <2>5. sent \in Seq(Byte) /\ accepted \in Seq(Byte)
    BY DEF ConnInv, Core, ConnTypes
  <2>6. Len(sent') = Len(sent) + Len(front) /\ Len(accepted') = Len(accepted) + MsgSize
    BY <2>2, <2>3, <2>4, <2>5, ConcatProperties
  <2>7. Len(front) \in Nat
    BY <2>3, LenProperties
  <2> QED
    BY <1>1, <2>1, <2>4, <2>6, <2>7, Lengths DEF Kept
<1>3. CASE SendInLoopFails
  BY <1>1, <1>3, KeptQuiet DEF SendInLoopFails, HandleClose
<1>4. CASE SendInLoopTooLate
  BY <1>1, <1>4, KeptQuiet DEF SendInLoopTooLate, connVars
<1> QED
  BY <1>2, <1>3, <1>4 DEF DoSend

\* The write side is shut only with an empty buffer.
LEMMA ShutWhenSent ==
  ASSUME ConnInv, DoShutDown, Open, halfClosed' # halfClosed
  PROVE  Len(sent) = Len(accepted)
<1>1. halfClosed' = (halfClosed \/ ~IsWriting(dispatch_))
  BY DEF DoShutDown
<1>2. ~IsWriting(dispatch_)
  <2>1. halfClosed \in BOOLEAN
    BY DEF ConnInv, Core, ConnTypes
  <2>2. CASE halfClosed
    BY <1>1, <2>1, <2>2, Zenon
  <2>3. CASE ~halfClosed
    BY <1>1, <2>1, <2>3, Zenon
  <2> QED
    BY <2>2, <2>3
<1>3. writebuf_ = <<>>
  BY <1>2 DEF ConnInv, Core, BufferInv, Open
<1> QED
  BY <1>3, AllSent

\* HandleWrite enters its end with everything sent.
LEMMA KeptWriteSome ==
  ASSUME ConnInv, ConnInv', NEW k \in 1..Len(writebuf_), HandleWriteSome(k)
  PROVE  Kept
<1> DEFINE front == SubSeq(writebuf_, 1, k)
<1>1. sent \in Seq(Byte) /\ writebuf_ \in Seq(Byte) /\ k \in 0..Len(writebuf_)
  BY DEF ConnInv, Core, ConnTypes
<1>2. front \in Seq(Byte)
  BY <1>1, CutAt
<1>3. /\ sent' = sent \o front /\ (halfClosed' = halfClosed)
      /\ UNCHANGED <<accepted, promised>>
  BY DEF HandleWriteSome
<1> HIDE DEF front
<1>4. Len(sent') = Len(sent) + Len(front) /\ Len(front) \in Nat
  BY <1>1, <1>2, <1>3, ConcatProperties, LenProperties
<1>5. AfterDrain' => Len(sent') = Len(accepted')
  <2> SUFFICES ASSUME AfterDrain' PROVE Len(sent') = Len(accepted')
    OBVIOUS
  <2>1. writebuf_' = <<>>
    BY DEF HandleWriteSome, AfterDrain
  <2>2. (sent \in Seq(Byte) /\ sent \o writebuf_ = accepted)'
    BY DEF ConnInv, Core, ConnTypes
  <2> QED
    BY <2>1, <2>2, ConcatEmptySeq
<1> QED
  BY <1>3, <1>4, <1>5, Lengths DEF Kept

\* The functions of RunFuncs.
LEMMA KeptRunFunc ==
  ASSUME ConnInv, RunFunc
  PROVE  Kept
<1> DEFINE f == Head(batch)
<1>1. f \in Funcs
  <2>1. batch \in Seq(Funcs) /\ batch # <<>>
    BY DEF ConnInv, LoopTypes, RunFunc
  <2> QED
    BY <2>1, HeadTailProperties
<1>2. pc = "funcs"
  BY DEF RunFunc
<1>3. CASE f.op = "send" /\ DoSend(f.msg)
  <2>1. f.msg \in Messages
    BY <1>1, <1>3, FuncsProperties
  <2> QED
    BY <1>3, <2>1, KeptSend
<1>4. CASE DoShutDown /\ UNCHANGED <<state_, promised>>
  <2>1. UNCHANGED <<sent, accepted, promised>> /\ (AfterDrain' <=> AfterDrain)
    BY <1>4 DEF DoShutDown, NoCallBack, AfterDrain
  <2> QED
    BY <1>4, <2>1, ShutWhenSent, Lengths DEF Kept
<1>5. CASE DoForceClose
  <2>1. UNCHANGED <<promised, sent, accepted, halfClosed>>
    BY <1>5 DEF DoForceClose, HandleClose, connVars
  <2>2. AfterDrain' => AfterDrain
    BY <1>2, <1>5 DEF DoForceClose, CallBack, NoCallBack, AfterDrain
  <2> QED
    BY <2>1, <2>2, KeptQuiet
<1>6. CASE DoStartRead \/ DoStopRead
  BY <1>6, KeptQuiet DEF DoStartRead, DoStopRead, NoCallBack, AfterDrain
<1>7. CASE CallBack("funcs") /\ UNCHANGED <<connVars, funcs>>
  BY <1>2, <1>7, KeptQuiet DEF CallBack, connVars, AfterDrain
<1> QED
  BY <1>3, <1>4, <1>5, <1>6, <1>7 DEF RunFunc

\* The handlers of this connection's events.
LEMMA KeptHandleEvent ==
  ASSUME ConnInv, ConnInv', HandleEvent
  PROVE  Kept
<1>1. ASSUME NEW k \in 1..Len(writebuf_), HandleWriteSome(k)
      PROVE  Kept
  BY <1>1, KeptWriteSome
<1>2. CASE HandleHup \/ HandleReadEnd \/ HandleWriteFails
  <2>1. UNCHANGED <<promised, sent, accepted, halfClosed>>
    BY <1>2 DEF HandleHup, HandleReadEnd, HandleWriteFails, HandleClose
  <2>2. ~AfterDrain'
    BY <1>2 DEF HandleHup, HandleReadEnd, HandleWriteFails, CallBack, AfterDrain
  <2> QED
    BY <2>1, <2>2, KeptQuiet
<1>3. CASE HandleReadMessage \/ HandleReadNothing \/ HandleWriteNothing
  <2>1. UNCHANGED <<promised, sent, accepted, halfClosed>>
    BY <1>3 DEF HandleReadMessage, HandleReadNothing, HandleWriteNothing, connVars
  <2>2. ~AfterDrain'
    BY <1>3 DEF HandleReadMessage, HandleReadNothing, HandleWriteNothing, CallBack, AfterDrain
  <2> QED
    BY <2>1, <2>2, KeptQuiet
<1>4. CASE HandleWriteDrained
  <2>1. UNCHANGED <<promised, sent, accepted, halfClosed>>
    BY <1>4 DEF HandleWriteDrained, HandleClose, connVars
  <2>2. AfterDrain
    BY <1>4 DEF HandleWriteDrained, AfterDrain
  <2> QED
    BY <2>1, <2>2, KeptQuiet
<1> QED
  BY <1>1, <1>2, <1>3, <1>4 DEF HandleEvent

\* The operations called on the loop thread.
LEMMA KeptLoopCall ==
  ASSUME ConnInv, LoopCall
  PROVE  Kept \/ Promised
<1>1. CASE LoopSendMessage
  <2>1. <<Loop, nmsgs'>> \in Messages /\ DoSend(<<Loop, nmsgs'>>)
    BY <1>1, NextMessage DEF LoopSendMessage, ConnInv
  <2> QED
    BY <2>1, KeptSend
<1>2. CASE LoopShutDown
  <2>1. /\ Promise /\ state_' = "kDisconnecting" /\ UNCHANGED <<sent, accepted>>
        /\ AfterDrain' <=> AfterDrain
    BY <1>2 DEF LoopShutDown, DoShutDown, NoCallBack, AfterDrain
  <2> QED
    BY <1>2, <2>1, ShutWhenSent DEF LoopShutDown, Open, Promised
<1>3. CASE LoopForceClose
  BY <1>3, KeptQuiet DEF LoopForceClose, loopVars, AfterDrain
<1>4. CASE LoopStartRead \/ LoopStopRead
  BY <1>4, KeptQuiet DEF LoopStartRead, LoopStopRead, DoStartRead, DoStopRead, NoCallBack,
         AfterDrain
<1> QED
  BY <1>1, <1>2, <1>3, <1>4 DEF LoopCall

\* Every step.
LEMMA KeptNext ==
  ASSUME ConnInv, ConnInv', [Next]_vars
  PROVE  Kept \/ Promised
<1> USE DEF connVars, loopVars
<1>1. CASE StartWorking
  BY <1>1, KeptQuiet DEF StartWorking, CallBack, AfterDrain
<1>2. ASSUME NEW events \in SUBSET {"in", "out", "hup"}, Poll(events)
      PROVE  Kept
  BY <1>2, KeptQuiet DEF Poll, AfterDrain
<1>3. CASE BeginEvents \/ EndFuncs \/ SwapFuncs
  BY <1>3, KeptQuiet DEF BeginEvents, EndFuncs, SwapFuncs, AfterDrain
<1>4. CASE Return
  BY <1>4, KeptQuiet DEF Return, ConnInv, LoopTypes, AfterDrain
<1>5. CASE HandleEvent
  BY <1>5, KeptHandleEvent
<1>6. CASE RunFunc
  BY <1>6, KeptRunFunc
<1>7. CASE LoopCall
  BY <1>7, KeptLoopCall
<1>8. ASSUME NEW t \in Threads, ThreadCall(t) \/ Post(t)
      PROVE  Kept \/ Promised
  <2>1. UNCHANGED <<sent, accepted, pc, ret>> /\ (halfClosed' = halfClosed)
    BY <1>8 DEF ThreadCall, ThreadSendMessage, ThreadShutDown, ThreadForceClose, ThreadRead, Post
  <2>2. AfterDrain' <=> AfterDrain
    BY <2>1 DEF AfterDrain
  <2>3. CASE ThreadShutDown(t)
    BY <2>1, <2>2, <2>3 DEF ThreadShutDown, Promised
  <2>4. CASE promised' = promised
    BY <2>1, <2>2, <2>4, KeptQuiet
  <2> QED
    BY <1>8, <2>3, <2>4 DEF ThreadCall, ThreadSendMessage, ThreadForceClose, ThreadRead, Post
<1>9. CASE PeerSends \/ \E how \in {"fin", "rst"} : PeerCloses(how)
  BY <1>9, KeptQuiet DEF PeerSends, PeerCloses, AfterDrain
<1>10. CASE UNCHANGED vars
  BY <1>10, KeptQuiet DEF vars, AfterDrain
<1> QED
  BY <1>1, <1>2, <1>3, <1>4, <1>5, <1>6, <1>7, <1>8, <1>9, <1>10 DEF Next, LoopStep

\* The promise is kept track of, and kept.
LEMMA PromiseNext ==
  ASSUME ConnInv, ConnInv', PromiseInv, [Next]_vars
  PROVE  /\ PromiseInv'
         /\ Open /\ (halfClosed' # halfClosed \/ (pc = "drained" /\ state_' = "kDisconnected"))
              => Len(sent') >= promised'
<1>1. Len(sent) \in Nat /\ Len(accepted) \in Nat /\ Len(sent) <= Len(accepted)
  BY Lengths
<1>2. (Len(sent) \in Nat /\ Len(accepted) \in Nat)'
  <2>1. (sent \in Seq(Byte) /\ accepted \in Seq(Byte))'
    BY DEF ConnInv, Core, ConnTypes
  <2> QED
    BY <2>1, LenProperties
<1>3. promised \in Nat /\ promised <= Len(accepted) /\ (AfterDrain => promised <= Len(sent))
  BY DEF PromiseInv
<1>4. CASE Kept
  <2>1. PromiseInv'
    BY <1>1, <1>2, <1>3, <1>4 DEF Kept, PromiseInv
  <2>2. ASSUME Open, halfClosed' # halfClosed
        PROVE  Len(sent') >= promised'
    BY <1>1, <1>2, <1>3, <1>4, <2>2 DEF Kept
  <2>3. ASSUME pc = "drained"
        PROVE  Len(sent') >= promised'
    BY <1>1, <1>2, <1>3, <1>4, <2>3 DEF Kept, AfterDrain
  <2> QED
    BY <2>1, <2>2, <2>3
<1>5. CASE Promised
  <2>1. promised' = (IF AfterDrain THEN Len(sent) ELSE Len(accepted))
    BY <1>5 DEF Promised, Promise
  <2>2. PromiseInv'
    BY <1>1, <1>5, <2>1 DEF Promised, PromiseInv
  <2>3. halfClosed' # halfClosed => Len(sent') >= promised'
    BY <1>1, <1>5, <2>1 DEF Promised
  <2> QED
    BY <1>5, <2>2, <2>3 DEF Promised
<1> QED
  BY <1>4, <1>5, KeptNext

\* A ShutDown ends the stream of an open connection only when every byte taken on
\* before it has been handed to the kernel (tcp_connection.cc:80-84, 121-137), but
\* for what writecomplete_cb_ left buffered when the ShutDown came before the end of
\* the HandleWrite that called it.
THEOREM ShutDownKeepsItsPromise == Spec => ShutDownDelivers
<1>1. Init => PromiseInv
  BY DEF Init, PromiseInv, AfterDrain
<1>2. IInv /\ IInv' /\ PromiseInv /\ [Next]_vars => PromiseInv'
  BY PromiseNext DEF IInv
<1>3. IInv /\ IInv' /\ PromiseInv /\ [Next]_vars
      => [Open /\ (halfClosed' # halfClosed \/ (pc = "drained" /\ state_' = "kDisconnected"))
            => Len(sent') >= promised']_vars
  BY PromiseNext DEF IInv
<1> QED
  BY <1>1, <1>2, <1>3, Invariance, PTL DEF Spec, ShutDownDelivers

-----------------------------------------------------------------------------
(* The close, for callers that keep to LibraryCalls.                       *)

\* Nobody reads or writes a closed connection, and the kernel does not watch it.
LEMMA ClosedQuiet ==
  ASSUME ConnInv, ClosedInv, state_ = "kDisconnected"
  PROVE  /\ ~IsReading(dispatch_) /\ ~IsWriting(dispatch_)
         /\ dispatch_.interest = {} /\ ~dispatch_.inKernel
BY DEF ConnInv, Core, Consistent, InSync, ClosedInv, Unregistered, IsReading, IsWriting

\* HandleClose of an open connection.
LEMMA ClosedHandleClose ==
  ASSUME ConnInv, ClosedInv, Open, HandleClose
  PROVE  ClosedInv' /\ state_' = "kDisconnected"
<1>1. state_' = "kDisconnected" /\ Unregistered(dispatch_')
  BY CoreHandleClose DEF ConnInv
<1>2. ~misclosed'
  BY DEF HandleClose, ClosedInv, Open
<1>3. connectionSize' = 0
  BY DEF HandleClose, ClosedInv
<1> QED
  BY <1>1, <1>2, <1>3 DEF ClosedInv, Open

\* What leaves the connection's Dispatch and count alone.
LEMMA ClosedUnchanged ==
  ASSUME ClosedInv, UNCHANGED <<misclosed, connectionSize>>,
         \/ UNCHANGED <<state_, dispatch_>>
         \/ (state_' = state_) /\ state_ # "kDisconnected"
         \/ Open /\ state_' = "kDisconnecting"
  PROVE  ClosedInv'
BY DEF ClosedInv, Open

\* StopRead in the loop thread: of no effect after the close.
LEMMA ClosedDoStopRead ==
  ASSUME ConnInv, ClosedInv, DoStopRead
  PROVE  ClosedInv'
<1>1. CASE state_ = "kDisconnected"
  BY <1>1, ClosedQuiet, ClosedUnchanged DEF DoStopRead
<1>2. CASE state_ # "kDisconnected"
  BY <1>2, ClosedUnchanged DEF DoStopRead
<1> QED
  BY <1>1, <1>2

\* SendInLoop in every outcome.
LEMMA ClosedDoSend ==
  ASSUME ConnInv, ClosedInv, pc # "start", NEW m, DoSend(m)
  PROVE  ClosedInv'
<1>1. state_ # "kDisconnected" => Open
  BY DEF ConnInv, Core, ConnTypes, StartInv, Open
<1>2. ASSUME NEW k \in 0..MsgSize, SendInLoop(m, k) PROVE ClosedInv'
  BY <1>2, ClosedUnchanged DEF SendInLoop
<1>3. CASE SendInLoopFails
  BY <1>1, <1>3, ClosedHandleClose DEF SendInLoopFails
<1>4. CASE SendInLoopTooLate
  BY <1>4, ClosedUnchanged DEF SendInLoopTooLate, connVars
<1> QED
  BY <1>2, <1>3, <1>4 DEF DoSend

\* The queues without a StartRead.
LEMMA NoStartProperties ==
  ASSUME NEW s \in Seq(Funcs), NoStart(s)
  PROVE  /\ s # <<>> => NoStart(Tail(s)) /\ Head(s).op # "startread"
         /\ \A f \in Funcs : f.op # "startread" => NoStart(Append(s, f))
<1>1. Len(s) \in Nat
  BY LenProperties
<1>2. ASSUME s # <<>> PROVE NoStart(Tail(s)) /\ Head(s).op # "startread"
  <2>1. /\ Len(Tail(s)) = Len(s) - 1 /\ \A i \in 1..Len(Tail(s)) : Tail(s)[i] = s[i + 1]
        /\ Len(s) \in Nat \ {0}
    BY <1>2, EmptySeq, HeadTailProperties
  <2>2. Head(s) = s[1] /\ 1 \in 1..Len(s)
    BY <2>1
  <2>3. \A i \in 1..Len(Tail(s)) : i + 1 \in 1..Len(s)
    BY <2>1
  <2> QED
    BY <2>1, <2>2, <2>3 DEF NoStart
<1>3. ASSUME NEW f \in Funcs, f.op # "startread" PROVE NoStart(Append(s, f))
  <2>1. /\ Len(Append(s, f)) = Len(s) + 1 /\ Append(s, f)[Len(s) + 1] = f
        /\ \A i \in 1..Len(s) : Append(s, f)[i] = s[i]
    BY AppendProperties
  <2>2. \A i \in 1..Len(s) + 1 : i \in 1..Len(s) \/ i = Len(s) + 1
    BY <1>1
  <2> QED
    BY <1>3, <2>1, <2>2 DEF NoStart
<1> QED
  BY <1>2, <1>3

\* The handlers of this connection's events close it only while it is open.
LEMMA CloseHandleEvent ==
  ASSUME CloseInv, HandleEvent
  PROVE  NeverStarted' /\ NoStaleEvents' /\ ClosedInv'
<1> USE DEF Outside, bounds
<1>1. /\ ConnInv /\ ClosedInv /\ NoStaleEvents /\ NeverStarted
      /\ state_ \in {"kConnecting", "kConnected", "kDisconnecting", "kDisconnected"}
      /\ StartInv
  BY DEF CloseInv, ConnInv, Core, ConnTypes
<1>2. UNCHANGED <<funcs, batch, tpc>>
  BY DEF HandleEvent, HandleHup, HandleReadMessage, HandleReadEnd, HandleReadNothing,
         HandleWriteSome, HandleWriteFails, HandleWriteNothing, HandleWriteDrained
<1>3. NeverStarted'
  BY <1>1, <1>2 DEF NeverStarted
<1>4. pc' \in {"cb", "write", "swap"} /\ ret' \in {ret, "write", "drained", "swap"}
  BY DEF HandleEvent, HandleHup, HandleReadMessage, HandleReadEnd, HandleReadNothing,
         HandleWriteSome, HandleWriteFails, HandleWriteNothing, HandleWriteDrained, CallBack
<1>5. NoStaleEvents'
  BY <1>1, <1>4 DEF NoStaleEvents
<1> SUFFICES ClosedInv'
  BY <1>3, <1>5
<1>6. CASE HandleHup \/ HandleReadEnd
  <2>1. Open
    BY <1>1, <1>6 DEF HandleHup, HandleReadEnd, NoStaleEvents, StartInv, Open
  <2> QED
    BY <1>1, <1>6, <2>1, ClosedHandleClose DEF HandleHup, HandleReadEnd
<1>7. CASE HandleReadMessage \/ HandleReadNothing \/ HandleWriteNothing
  BY <1>1, <1>7, ClosedUnchanged
     DEF HandleReadMessage, HandleReadNothing, HandleWriteNothing, connVars
<1>8. CASE (\E k \in 1..Len(writebuf_) : HandleWriteSome(k)) \/ HandleWriteFails
  <2>1. IsWriting(dispatch_) /\ pc = "write"
    BY <1>8 DEF HandleWriteSome, HandleWriteFails
  <2>2. Open
    BY <1>1, <2>1, ClosedQuiet DEF StartInv, Open
  <2>3. CASE HandleWriteFails
    BY <1>1, <2>2, <2>3, ClosedHandleClose DEF HandleWriteFails
  <2>4. ASSUME NEW k \in 1..Len(writebuf_), HandleWriteSome(k) PROVE ClosedInv'
    BY <1>1, <2>2, <2>4, ClosedUnchanged DEF HandleWriteSome, Open
  <2> QED
    BY <1>8, <2>3, <2>4
<1>9. CASE HandleWriteDrained
  <2>1. CASE ShutWhenDrained
    BY <1>1, <1>9, <2>1, ClosedHandleClose DEF HandleWriteDrained, ShutWhenDrained, Open
  <2>2. CASE ~ShutWhenDrained
    BY <1>1, <1>9, <2>2, ClosedUnchanged DEF HandleWriteDrained, connVars
  <2> QED
    BY <2>1, <2>2
<1> QED
  BY <1>6, <1>7, <1>8, <1>9 DEF HandleEvent

\* RunFuncs executes a queued function.
LEMMA CloseRunFunc ==
  ASSUME CloseInv, RunFunc
  PROVE  NeverStarted' /\ NoStaleEvents' /\ ClosedInv'
<1> USE DEF Outside, bounds
<1> DEFINE f == Head(batch)
<1>1. /\ ConnInv /\ ClosedInv /\ NoStaleEvents /\ NeverStarted
      /\ batch \in Seq(Funcs) /\ funcs \in Seq(Funcs)
  BY DEF CloseInv, ConnInv, LoopTypes
<1>2. pc = "funcs" /\ batch # <<>> /\ batch' = Tail(batch) /\ UNCHANGED tpc
  BY DEF RunFunc
<1>3. NoStart(batch') /\ f.op # "startread"
  BY <1>1, <1>2, NoStartProperties DEF NeverStarted
<1>4. \/ f.op = "send" /\ DoSend(f.msg)
      \/ DoShutDown /\ UNCHANGED state_
      \/ DoForceClose
      \/ DoStopRead
      \/ CallBack("funcs") /\ UNCHANGED <<connVars, funcs>>
  BY <1>3 DEF RunFunc
<1>5. /\ (pc' = pc /\ ret' = ret) \/ (pc' = "cb" /\ ret' = "funcs")
      /\ funcs' = funcs \/ funcs' = Append(funcs, Func("highwater"))
  BY <1>2, <1>4, DoSendLoop DEF DoShutDown, DoForceClose, DoStopRead, NoCallBack, CallBack
<1>6. NeverStarted'
  <2>1. Func("highwater") \in Funcs /\ Func("highwater").op # "startread"
    BY FuncsProperties
  <2>2. NoStart(funcs')
    BY <1>1, <1>5, <2>1, NoStartProperties DEF NeverStarted
  <2> QED
    BY <1>1, <1>2, <1>3, <2>2 DEF NeverStarted
<1>7. NoStaleEvents'
  BY <1>1, <1>2, <1>5 DEF NoStaleEvents
<1>8. ClosedInv'
  <2>1. CASE f.op = "send" /\ DoSend(f.msg)
    BY <1>1, <1>2, <2>1, ClosedDoSend
  <2>2. CASE DoShutDown /\ UNCHANGED state_
    BY <1>1, <2>2, ClosedUnchanged DEF DoShutDown
  <2>3. CASE DoForceClose
    <3>1. CASE Closable /\ HandleClose
      BY <1>1, <3>1, ClosedHandleClose DEF Closable, Open
    <3>2. CASE UNCHANGED connVars
      BY <1>1, <3>2, ClosedUnchanged DEF connVars
    <3> QED
      BY <2>3, <3>1, <3>2 DEF DoForceClose
  <2>4. CASE DoStopRead
    BY <1>1, <2>4, ClosedDoStopRead
  <2>5. CASE UNCHANGED <<connVars, funcs>>
    BY <1>1, <2>5, ClosedUnchanged DEF connVars
  <2> QED
    BY <1>4, <2>1, <2>2, <2>3, <2>4, <2>5
<1> QED
  BY <1>6, <1>7, <1>8

\* Poll(), the turns of the loop and the returns of the callbacks.
LEMMA CloseLoopStep ==
  ASSUME CloseInv, LoopStep
  PROVE  NeverStarted' /\ NoStaleEvents' /\ ClosedInv'
<1> USE DEF Outside, bounds
<1>1. /\ ConnInv /\ ClosedInv /\ NoStaleEvents /\ NeverStarted
      /\ ret \in {"poll", "timers", "write", "drained", "swap", "funcs"}
      /\ state_ \in {"kConnecting", "kConnected", "kDisconnecting", "kDisconnected"}
      /\ StartInv
  BY DEF CloseInv, ConnInv, Core, ConnTypes, LoopTypes
<1>2. CASE StartWorking
  <2>1. state_ = "kConnecting" /\ connectionSize = 0 /\ ~misclosed
    BY <1>1, <1>2 DEF StartWorking, StartInv, ClosedInv, Open
  <2>2. ClosedInv'
    BY <1>2, <2>1 DEF StartWorking, ClosedInv, Open
  <2>3. NeverStarted'
    BY <1>1, <1>2 DEF StartWorking, NeverStarted
  <2>4. NoStaleEvents'
    BY <1>1, <1>2 DEF StartWorking, CallBack, NoStaleEvents
  <2> QED
    BY <2>2, <2>3, <2>4
<1>3. ASSUME UNCHANGED <<connVars, funcs, batch, tpc, ret>>, NoStaleEvents'
      PROVE  NeverStarted' /\ NoStaleEvents' /\ ClosedInv'
  BY <1>1, <1>3, ClosedUnchanged DEF NeverStarted, connVars
<1>4. ASSUME NEW events \in SUBSET {"in", "out", "hup"}, Poll(events)
      PROVE  NoStaleEvents'
  <2>1. state_ = "kDisconnected" => Ready = {}
    BY <1>1, ClosedQuiet DEF Ready
  <2> QED
    BY <1>1, <1>4, <2>1 DEF Poll, NoStaleEvents, connVars
<1>5. ASSUME NEW events \in SUBSET {"in", "out", "hup"}, Poll(events)
      PROVE  NeverStarted' /\ NoStaleEvents' /\ ClosedInv'
  BY <1>3, <1>4, <1>5 DEF Poll
<1>6. CASE BeginEvents
  <2>1. NoStaleEvents'
    BY <1>1, <1>6 DEF BeginEvents, NoStaleEvents, connVars
  <2> QED
    BY <1>3, <1>6, <2>1 DEF BeginEvents
<1>7. CASE HandleEvent
  BY <1>7, CloseHandleEvent
<1>8. CASE Return \/ EndFuncs
  <2>1. NoStaleEvents'
    BY <1>1, <1>8 DEF Return, EndFuncs, NoStaleEvents, connVars
  <2> QED
    BY <1>3, <1>8, <2>1 DEF Return, EndFuncs
<1>9. CASE SwapFuncs
  <2>1. NoStart(<<>>)
    BY DEF NoStart
  <2>2. NeverStarted'
    BY <1>1, <1>9, <2>1 DEF SwapFuncs, NeverStarted
  <2>3. NoStaleEvents'
    BY <1>1, <1>9 DEF SwapFuncs, NoStaleEvents
  <2>4. ClosedInv'
    BY <1>1, <1>9, ClosedUnchanged DEF SwapFuncs, connVars
  <2> QED
    BY <2>2, <2>3, <2>4
<1>10. CASE RunFunc
  BY <1>10, CloseRunFunc
<1> QED
  BY <1>2, <1>5, <1>6, <1>7, <1>8, <1>9, <1>10 DEF LoopStep

\* The operations called on the loop thread.
LEMMA CloseLoopCall ==
  ASSUME CloseInv, LoopCall
  PROVE  NeverStarted' /\ NoStaleEvents' /\ ClosedInv'
<1>1. /\ LibraryCalls /\ ConnInv /\ ClosedInv /\ NoStaleEvents /\ NeverStarted
      /\ funcs \in Seq(Funcs) /\ batch \in Seq(Funcs) /\ NoStart(funcs)
  BY DEF CloseInv, ConnInv, LoopTypes, NeverStarted
<1>2. ASSUME NEW f \in Funcs, f.op # "startread", funcs' = funcs \/ funcs' = Append(funcs, f),
             UNCHANGED <<batch, tpc>>
      PROVE  NeverStarted'
  <2>1. NoStart(funcs')
    BY <1>1, <1>2, NoStartProperties
  <2> QED
    BY <1>1, <1>2, <2>1 DEF NeverStarted
<1>3. CASE LoopSendMessage
  <2>1. /\ pc = "cb" /\ UNCHANGED <<batch, tpc, revents>> /\ DoSend(<<Loop, nmsgs'>>)
    BY <1>1, <1>3 DEF LoopSendMessage, InWindow, LibraryCalls
  <2>2. /\ pc' = "cb" /\ ret' = ret
        /\ funcs' = funcs \/ funcs' = Append(funcs, Func("highwater"))
    BY <2>1, DoSendLoop
  <2>3. Func("highwater") \in Funcs /\ Func("highwater").op # "startread"
    BY FuncsProperties
  <2>4. NeverStarted'
    BY <1>2, <2>1, <2>2, <2>3
  <2>5. NoStaleEvents'
    BY <1>1, <2>2 DEF NoStaleEvents
  <2>6. ClosedInv'
    BY <1>1, <2>1, ClosedDoSend
  <2> QED
    BY <2>4, <2>5, <2>6
<1>4. CASE LoopShutDown
  <2>1. NeverStarted' /\ NoStaleEvents'
    BY <1>1, <1>4 DEF LoopShutDown, DoShutDown, NoCallBack, NeverStarted, NoStaleEvents
  <2>2. ClosedInv'
    BY <1>1, <1>4, ClosedUnchanged DEF LoopShutDown, DoShutDown, Open
  <2> QED
    BY <2>1, <2>2
<1>5. CASE LoopForceClose
  <2>1. Func("forceclose") \in Funcs /\ Func("forceclose").op # "startread"
    BY FuncsProperties DEF Ops
  <2>2. NeverStarted'
    BY <1>2, <1>5, <2>1 DEF LoopForceClose, loopVars
  <2>3. NoStaleEvents'
    BY <1>1, <1>5 DEF LoopForceClose, loopVars, NoStaleEvents
  <2>4. ClosedInv'
    BY <1>1, <1>5, ClosedUnchanged DEF LoopForceClose, Open
  <2> QED
    BY <2>2, <2>3, <2>4
<1>6. CASE LoopStartRead
  BY <1>1, <1>6 DEF LoopStartRead, InWindow, LibraryCalls
<1>7. CASE LoopStopRead
  <2>1. NeverStarted' /\ NoStaleEvents'
    BY <1>1, <1>7 DEF LoopStopRead, DoStopRead, NoCallBack, NeverStarted, NoStaleEvents
  <2>2. ClosedInv'
    BY <1>1, <1>7, ClosedDoStopRead DEF LoopStopRead
  <2> QED
    BY <2>1, <2>2
<1> QED
  BY <1>3, <1>4, <1>5, <1>6, <1>7 DEF LoopCall

\* The operations called on another thread, and their QueueInLoop.
LEMMA CloseThread ==
  ASSUME CloseInv, NEW t \in Threads, ThreadCall(t) \/ Post(t)
  PROVE  NeverStarted' /\ NoStaleEvents' /\ ClosedInv'
<1>1. /\ LibraryCalls /\ ConnInv /\ ClosedInv /\ NoStaleEvents /\ NeverStarted
      /\ funcs \in Seq(Funcs) /\ tpc \in [Threads -> Funcs \cup {NoFunc}] /\ NoStart(funcs)
  BY DEF CloseInv, ConnInv, LoopTypes, NeverStarted
<1>2. UNCHANGED <<pc, ret, revents, batch>>
  BY DEF ThreadCall, ThreadSendMessage, ThreadShutDown, ThreadForceClose, ThreadRead, Post,
         loopVars
<1>3. /\ (state_' = state_) \/ (Open /\ state_' = "kDisconnecting")
      /\ UNCHANGED <<dispatch_, misclosed, connectionSize>>
  BY DEF ThreadCall, ThreadSendMessage, ThreadShutDown, ThreadForceClose, ThreadRead, Post,
         connVars, Open
<1>4. ClosedInv'
  BY <1>1, <1>3, ClosedUnchanged
<1>5. NoStaleEvents'
  BY <1>1, <1>2, <1>3 DEF NoStaleEvents
<1>6. CASE ThreadCall(t)
  <2>1. PICK f : tpc' = [tpc EXCEPT ![t] = f] /\ f.op # "startread" /\ UNCHANGED funcs
    <3>1. ThreadSendMessage(t) => /\ tpc' = [tpc EXCEPT ![t] = SendFunc(<<t, nmsgs'>>)]
                                  /\ UNCHANGED funcs
      BY DEF ThreadSendMessage
    <3>2. ThreadShutDown(t) => tpc' = [tpc EXCEPT ![t] = Func("shutdown")] /\ UNCHANGED funcs
      BY DEF ThreadShutDown
    <3>3. ThreadForceClose(t) => tpc' = [tpc EXCEPT ![t] = Func("forceclose")] /\ UNCHANGED funcs
      BY DEF ThreadForceClose
    <3>4. ASSUME NEW op \in {"startread", "stopread"}, ThreadRead(t, op)
          PROVE  tpc' = [tpc EXCEPT ![t] = Func("stopread")] /\ UNCHANGED funcs
      BY <1>1, <3>4 DEF ThreadRead, Starts, LibraryCalls
    <3>5. /\ SendFunc(<<t, nmsgs'>>).op = "send" /\ Func("shutdown").op = "shutdown"
          /\ Func("forceclose").op = "forceclose" /\ Func("stopread").op = "stopread"
      BY DEF SendFunc, Func
    <3>6. \/ ThreadSendMessage(t) \/ ThreadShutDown(t) \/ ThreadForceClose(t)
          \/ \E op \in {"startread", "stopread"} : ThreadRead(t, op)
      BY <1>6 DEF ThreadCall
    <3> QED
      BY <3>1, <3>2, <3>3, <3>4, <3>5, <3>6
  <2>2. \A u \in Threads : tpc'[u].op # "startread"
    BY <1>1, <2>1 DEF NeverStarted
  <2>3. NeverStarted'
    BY <1>1, <1>2, <2>1, <2>2 DEF NeverStarted
  <2> QED
    BY <1>4, <1>5, <2>3
<1>7. CASE Post(t)
  <2>1. tpc[t] \in Funcs /\ tpc[t].op # "startread"
    BY <1>1, <1>7 DEF Post, NeverStarted
  <2>2. NoStart(funcs')
    BY <1>1, <1>7, <2>1, NoStartProperties DEF Post
  <2>3. NoFunc.op # "startread"
    BY FuncsProperties
  <2>4. \A u \in Threads : tpc'[u].op # "startread"
    BY <1>1, <1>7, <2>3 DEF Post, NeverStarted
  <2>5. NeverStarted'
    BY <1>1, <1>2, <2>2, <2>4 DEF NeverStarted
  <2> QED
    BY <1>4, <1>5, <2>5
<1> QED
  BY <1>6, <1>7

\* Every step.
LEMMA CloseNext ==
  ASSUME CloseInv, [Next]_vars
  PROVE  CloseInv'
<1> SUFFICES NeverStarted' /\ NoStaleEvents' /\ ClosedInv'
  BY ConnNext DEF CloseInv, LibraryCalls
<1>1. CASE LoopStep
  BY <1>1, CloseLoopStep
<1>2. CASE LoopCall
  BY <1>2, CloseLoopCall
<1>3. ASSUME NEW t \in Threads, ThreadCall(t) \/ Post(t)
      PROVE  NeverStarted' /\ NoStaleEvents' /\ ClosedInv'
  BY <1>3, CloseThread
<1>4. CASE PeerSends \/ (\E how \in {"fin", "rst"} : PeerCloses(how)) \/ UNCHANGED vars
  <2>1. UNCHANGED <<connVars, loopVars, funcs, tpc>>
    BY <1>4 DEF PeerSends, PeerCloses, vars
  <2>2. NeverStarted' /\ NoStaleEvents'
    BY <2>1 DEF CloseInv, NeverStarted, NoStaleEvents, connVars, loopVars
  <2>3. ClosedInv'
    BY <2>1, ClosedUnchanged DEF CloseInv, connVars
  <2> QED
    BY <2>2, <2>3
<1> QED
  BY <1>1, <1>2, <1>3, <1>4 DEF Next

\* HandleClose runs once and on an open connection, and leaves neither the
\* poller nor the kernel with a pointer to the Dispatch; connection_size_
\* counts the connection exactly while it is open (tcp_connection.cc:153-167).
THEOREM ClosedOnce == LibraryCalls => (Spec => []CloseOnce)
<1>1. LibraryCalls /\ Init => CloseInv
  <2> SUFFICES ASSUME LibraryCalls, Init PROVE NeverStarted /\ NoStaleEvents /\ ClosedInv
    BY ConnInit DEF CloseInv
  <2>1. NoStart(<<>>)
    BY DEF NoStart
  <2>2. NeverStarted
    BY <2>1, FuncsProperties DEF Init, NeverStarted
  <2>3. NoStaleEvents /\ ClosedInv
    BY DEF Init, NoStaleEvents, ClosedInv, Open
  <2> QED
    BY <2>2, <2>3
<1>2. CloseInv /\ [Next]_vars => CloseInv'
  BY CloseNext
<1>3. CloseInv => CloseOnce
  <2> SUFFICES ASSUME CloseInv PROVE CloseOnce
    OBVIOUS
  <2>1. connectionSize \in {0, 1}
    BY DEF CloseInv, ClosedInv
  <2>2. TypeOK
    BY <2>1 DEF CloseInv, ConnInv, Core, ConnTypes, LoopTypes, Byte, TypeOK
  <2> QED
    BY <2>2 DEF CloseInv, ClosedInv, CloseOnce
<1> QED
  BY <1>1, <1>2, <1>3, PTL DEF Spec
=============================================================================
