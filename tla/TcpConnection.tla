---------------------------- MODULE TcpConnection ----------------------------
(***************************************************************************)
(* One TcpConnection (voyager/core/tcp_connection.cc) on its EventLoop:    *)
(* its state, its output buffer, its Dispatch, and the interleaving of     *)
(* the loop thread with other threads that call the connection's public    *)
(* operations and with the peer.                                           *)
(*                                                                         *)
(* The loop thread's position is pc; an iteration of EventLoop::Loop() is  *)
(*   "poll" -> "timers" -> "event" -> "write" -> ["drained"] -> "swap" ->  *)
(*   "funcs" -> "poll"                                                     *)
(* "timers" is the time between Poll() and this connection's HandleEvent,  *)
(* when timers and the handlers of other connections run.  "event" and     *)
(* "write" are the two halves of Dispatch::HandleEventWithGuard, "drained" *)
(* the rest of HandleWrite after writecomplete_cb_.  "cb" means that one   *)
(* of the connection's callbacks is running, to return to ret.  Callbacks  *)
(* are the caller's code: they call any of CallbackOps any number of       *)
(* times.  Whatever follows a nested callback in SendInLoop and in         *)
(* HandleClose is of no effect, so nesting needs no stack.                 *)
(***************************************************************************)
EXTENDS Integers, Sequences, Dispatch

CONSTANTS
    Threads,       \* the threads other than the loop thread
    Loop,          \* the loop thread, as the sender of a message
    ThreadOps,     \* operations other threads call
    CallbackOps,   \* operations the connection's own callbacks call
    TimerOps,      \* operations timers and other connections' handlers call
    MsgSize,       \* bytes in a message
    HighWaterMark, \* high_water_mark_
    MaxMsgs,       \* bound: messages sent in a behaviour
    MaxCalls,      \* bound: calls of the other operations
    MaxInput       \* bound: segments the peer sends

Ops == {"send", "shutdown", "forceclose", "startread", "stopread"}

ASSUME OpsAssumption ==
    ThreadOps \subseteq Ops /\ CallbackOps \subseteq Ops /\ TimerOps \subseteq Ops
ASSUME SizeAssumption == MsgSize \in Nat \ {0} /\ HighWaterMark \in Nat \ {0}
ASSUME BoundsAssumption == MaxMsgs \in Nat /\ MaxCalls \in Nat /\ MaxInput \in Nat
ASSUME LoopAssumption == Loop \notin Threads

VARIABLES
    state_, writebuf_,
    dispatch_,        \* a record of module Dispatch
    connectionSize,   \* this connection's share of connection_size_
    pc, ret,          \* position of the loop thread
    revents,          \* events polled and not yet handled
    funcs, batch,     \* EventLoop's queue and the batch RunFuncs works on
    tpc,              \* the function a thread is about to queue, if any
    sent,             \* bytes handed to the kernel, in order
    halfClosed,       \* socket_.ShutDownWrite() was called
    peer,             \* "open", "fin" (half closed) or "rst"
    input,            \* bytes from the peer wait in the socket
    accepted,         \* history: bytes SendInLoop took on, in order
    promised,         \* history: how many of them ShutDown() found and has to see sent
    misclosed,        \* history: HandleClose ran in a state its assert excludes
    nmsgs, ncalls, ninput

connVars == <<state_, writebuf_, dispatch_, connectionSize, sent, halfClosed,
              accepted, promised, misclosed>>
loopVars == <<pc, ret, revents, batch>>
bounds == <<nmsgs, ncalls, ninput>>
vars == <<connVars, loopVars, funcs, tpc, peer, input, bounds>>

\* A message is its sender and its number; its bytes are numbered.
Messages == (Threads \cup {Loop}) \X (1..MaxMsgs)
Bytes(m) == [i \in 1..MsgSize |-> <<m[1], m[2], i>>]

\* A function queued in the loop: an operation, with the message of a send.
NoMsg == <<Loop, 0>>
Func(op) == [op |-> op, msg |-> NoMsg]
SendFunc(m) == [op |-> "send", msg |-> m]
NoFunc == Func("none")
Funcs == {SendFunc(m) : m \in Messages}
         \cup {Func(op) : op \in (Ops \ {"send"}) \cup {"highwater"}}

TypeOK ==
    /\ state_ \in {"kConnecting", "kConnected", "kDisconnecting", "kDisconnected"}
    /\ writebuf_ \in Seq((Threads \cup {Loop}) \X (1..MaxMsgs) \X (1..MsgSize))
    /\ dispatch_ \in Dispatches
    /\ connectionSize \in {0, 1}
    /\ pc \in {"start", "poll", "timers", "event", "write", "drained", "swap", "funcs", "cb"}
    /\ ret \in {"poll", "timers", "write", "drained", "swap", "funcs"}
    /\ revents \subseteq {"in", "out", "hup"}
    /\ funcs \in Seq(Funcs)
    /\ batch \in Seq(Funcs)
    /\ tpc \in [Threads -> Funcs \cup {NoFunc}]
    /\ halfClosed \in BOOLEAN
    /\ peer \in {"open", "fin", "rst"}
    /\ input \in BOOLEAN
    /\ misclosed \in BOOLEAN

Init ==
    /\ state_ = "kConnecting"
    /\ writebuf_ = <<>>
    /\ dispatch_ = NewDispatch
    /\ connectionSize = 0
    /\ pc = "start"
    /\ ret = "poll"
    /\ revents = {}
    /\ funcs = <<>>
    /\ batch = <<>>
    /\ tpc = [t \in Threads |-> NoFunc]
    /\ sent = <<>>
    /\ halfClosed = FALSE
    /\ peer = "open"
    /\ input = FALSE
    /\ accepted = <<>>
    /\ promised = 0
    /\ misclosed = FALSE
    /\ nmsgs = 0 /\ ncalls = 0 /\ ninput = 0

-----------------------------------------------------------------------------
(* Pieces of the handlers.  Each says what becomes of connVars or pc.      *)

\* One of the connection's callbacks is called; r is where it returns to.
CallBack(r) ==
    /\ pc' = "cb"
    /\ ret' = IF pc = "cb" THEN ret ELSE r

NoCallBack == UNCHANGED <<pc, ret>>

\* A mutant: the close leaves the Dispatch as it is.
ClosedKeepingEvents(d) == d

Closed(d) == RemoveDispatch(DisableAll(d))

\* HandleClose up to close_cb_, which its users add with CallBack.
HandleClose ==
    /\ misclosed' = (misclosed \/ state_ \notin {"kConnected", "kDisconnecting"})
    /\ state_' = "kDisconnected"
    /\ dispatch_' = Closed(dispatch_)
    /\ connectionSize' = connectionSize - 1
    /\ UNCHANGED <<writebuf_, sent, halfClosed, accepted, promised>>

\* A write() of the socket fails for good.
Broken == peer = "rst" \/ halfClosed

\* A mutant: a message is written at once whatever is buffered.
IdleAlways == TRUE

\* Nothing is on its way: the message may be written directly.
Idle == ~IsWriting(dispatch_) /\ writebuf_ = <<>>

\* A mutant: what write() did not take waits for another message.
WatchedNever(wrote) == dispatch_

\* POLLOUT is asked for when bytes of the message are left.
Watched(wrote) ==
    IF wrote < MsgSize /\ ~IsWriting(dispatch_) THEN EnableWrite(dispatch_) ELSE dispatch_

\* SendInLoop on a connection that is still up; k is what write() takes.
SendInLoop(m, k) ==
    LET data == Bytes(m)
        wrote == IF Idle THEN k ELSE 0
        old == Len(writebuf_)
        size == old + MsgSize - wrote IN
    /\ state_ # "kDisconnected"
    /\ Idle => ~Broken
    /\ sent' = sent \o SubSeq(data, 1, wrote)
    /\ accepted' = accepted \o data
    /\ writebuf_' = writebuf_ \o SubSeq(data, wrote + 1, MsgSize)
    /\ funcs' = IF wrote < MsgSize /\ old < HighWaterMark /\ size >= HighWaterMark
                THEN Append(funcs, Func("highwater")) ELSE funcs
    /\ dispatch_' = Watched(wrote)
    /\ IF wrote = MsgSize THEN CallBack(pc) ELSE NoCallBack
    /\ UNCHANGED <<state_, connectionSize, halfClosed, promised, misclosed>>

\* SendInLoop when its write() fails: the message is lost with the connection.
SendInLoopFails ==
    /\ state_ # "kDisconnected"
    /\ Idle /\ Broken
    /\ HandleClose
    /\ CallBack(pc)
    /\ UNCHANGED funcs

\* SendInLoop on a closed connection gives the message up.
SendInLoopTooLate ==
    /\ state_ = "kDisconnected"
    /\ UNCHANGED <<connVars, funcs>>
    /\ NoCallBack

DoSend(m) ==
    \/ \E k \in 0..MsgSize : SendInLoop(m, k)
    \/ SendInLoopFails
    \/ SendInLoopTooLate

DoShutDownAlways ==
    /\ halfClosed' = TRUE
    /\ NoCallBack
    /\ UNCHANGED <<writebuf_, dispatch_, connectionSize, sent, accepted, misclosed, funcs>>

\* The functions that the operations run in the loop thread.
DoShutDown ==
    /\ halfClosed' = (halfClosed \/ ~IsWriting(dispatch_))
    /\ NoCallBack
    /\ UNCHANGED <<writebuf_, dispatch_, connectionSize, sent, accepted, misclosed, funcs>>

\* A mutant: a connection that is being shut down is not closed.
ClosableConnected == state_ = "kConnected"

Closable == state_ \in {"kConnected", "kDisconnecting"}

DoForceClose ==
    \/ /\ Closable
       /\ HandleClose
       /\ CallBack(pc)
       /\ UNCHANGED funcs
    \/ /\ ~Closable
       /\ UNCHANGED <<connVars, funcs>>
       /\ NoCallBack

DoStartRead ==
    /\ dispatch_' = IF IsReading(dispatch_) THEN dispatch_ ELSE EnableRead(dispatch_)
    /\ NoCallBack
    /\ UNCHANGED <<state_, writebuf_, connectionSize, sent, halfClosed, accepted,
                   promised, misclosed, funcs>>

DoStopRead ==
    /\ dispatch_' = IF IsReading(dispatch_) THEN DisableRead(dispatch_) ELSE dispatch_
    /\ NoCallBack
    /\ UNCHANGED <<state_, writebuf_, connectionSize, sent, halfClosed, accepted,
                   promised, misclosed, funcs>>

-----------------------------------------------------------------------------
(* The loop thread.                                                        *)

\* What this connection's steps never touch from inside the loop.
Outside == <<tpc, peer, ninput>>

\* StartWorking, run once by the acceptor or the connector.
StartWorking ==
    /\ pc = "start"
    /\ state_' = "kConnected"
    /\ dispatch_' = EnableRead(dispatch_)
    /\ connectionSize' = connectionSize + 1
    /\ CallBack("poll")
    /\ UNCHANGED <<writebuf_, sent, halfClosed, accepted, promised, misclosed,
                   revents, batch, funcs, input, bounds, Outside>>

\* What the kernel has to report; "out" depends on room in its buffer.
Ready ==
    {e \in {"in", "out", "hup"} :
        \/ e = "in" /\ "read" \in dispatch_.interest /\ (input \/ peer # "open")
        \/ e = "out" /\ "write" \in dispatch_.interest
        \/ e = "hup" /\ dispatch_.inKernel
                     /\ (peer = "rst" \/ (peer = "fin" /\ halfClosed))}

\* Poll() returns, for this connection or for another reason.
Poll(events) ==
    /\ pc = "poll"
    /\ events \in {{}, Ready, Ready \ {"out"}}
    /\ revents' = events
    /\ pc' = "timers"
    /\ UNCHANGED <<connVars, ret, batch, funcs, input, bounds, Outside>>

\* The turn of this connection's HandleEvent, if it was polled.
BeginEvents ==
    /\ pc = "timers"
    /\ pc' = IF revents = {} THEN "swap" ELSE "event"
    /\ UNCHANGED <<connVars, ret, revents, batch, funcs, input, bounds, Outside>>

\* HandleEventWithGuard: POLLHUP without POLLIN calls close_cb_.
HandleHup ==
    /\ pc = "event"
    /\ "hup" \in revents /\ "in" \notin revents
    /\ HandleClose
    /\ CallBack("write")
    /\ UNCHANGED <<revents, batch, funcs, input, bounds, Outside>>

\* HandleRead with bytes to read: message_cb_.
HandleReadMessage ==
    /\ pc = "event"
    /\ "in" \in revents /\ input
    /\ input' = FALSE
    /\ CallBack("write")
    /\ UNCHANGED <<connVars, revents, batch, funcs, bounds, Outside>>

\* HandleRead at the end of the stream or after a reset.
HandleReadEnd ==
    /\ pc = "event"
    /\ "in" \in revents /\ ~input /\ peer # "open"
    /\ HandleClose
    /\ CallBack("write")
    /\ UNCHANGED <<revents, batch, funcs, input, bounds, Outside>>

\* Nothing to read, or readv() fails for the moment.
HandleReadNothing ==
    /\ pc = "event"
    /\ "hup" \in revents => "in" \in revents
    /\ pc' = "write"
    /\ UNCHANGED <<connVars, ret, revents, batch, funcs, input, bounds, Outside>>

\* HandleWrite: write() takes k bytes of writebuf_.
HandleWriteSome(k) ==
    /\ pc = "write"
    /\ "out" \in revents /\ IsWriting(dispatch_) /\ ~Broken
    /\ k \in 1..Len(writebuf_)
    /\ sent' = sent \o SubSeq(writebuf_, 1, k)
    /\ writebuf_' = SubSeq(writebuf_, k + 1, Len(writebuf_))
    /\ IF writebuf_' = <<>>
       THEN dispatch_' = DisableWrite(dispatch_) /\ CallBack("drained")
       ELSE pc' = "swap" /\ UNCHANGED <<dispatch_, ret>>
    /\ UNCHANGED <<state_, connectionSize, halfClosed, accepted, promised, misclosed,
                   revents, batch, funcs, input, bounds, Outside>>

\* HandleWrite: write() fails for good.
HandleWriteFails ==
    /\ pc = "write"
    /\ "out" \in revents /\ IsWriting(dispatch_) /\ Broken
    /\ HandleClose
    /\ CallBack("swap")
    /\ UNCHANGED <<revents, batch, funcs, input, bounds, Outside>>

\* No POLLOUT, no write interest any more, or write() fails for the moment.
HandleWriteNothing ==
    /\ pc = "write"
    /\ pc' = "swap"
    /\ UNCHANGED <<connVars, ret, revents, batch, funcs, input, bounds, Outside>>

\* A mutant: a shutdown that waited for the buffer is forgotten.
ShutWhenDrainedNever == FALSE

ShutWhenDrained == state_ = "kDisconnecting"

\* The end of HandleWrite, after writecomplete_cb_ has returned.
HandleWriteDrained ==
    /\ pc = "drained"
    /\ IF ShutWhenDrained
       THEN HandleClose /\ CallBack("swap")
       ELSE pc' = "swap" /\ UNCHANGED <<connVars, ret>>
    /\ UNCHANGED <<revents, batch, funcs, input, bounds, Outside>>

\* A callback returns.
Return ==
    /\ pc = "cb"
    /\ pc' = ret
    /\ UNCHANGED <<connVars, ret, revents, batch, funcs, input, bounds, Outside>>

\* EventLoop::RunFuncs swaps its queue out.
SwapFuncs ==
    /\ pc = "swap"
    /\ pc' = "funcs"
    /\ revents' = {}
    /\ batch' = funcs
    /\ funcs' = <<>>
    /\ UNCHANGED <<connVars, ret, input, bounds, Outside>>

\* RunFuncs executes one function.
RunFunc ==
    /\ pc = "funcs"
    /\ batch # <<>>
    /\ batch' = Tail(batch)
    /\ LET f == Head(batch) IN
       \/ f.op = "send" /\ DoSend(f.msg)
       \/ f.op = "shutdown" /\ DoShutDown /\ UNCHANGED <<state_, promised>>
       \/ f.op = "forceclose" /\ DoForceClose
       \/ f.op = "startread" /\ DoStartRead
       \/ f.op = "stopread" /\ DoStopRead
       \/ f.op = "highwater" /\ CallBack("funcs") /\ UNCHANGED <<connVars, funcs>>
    /\ UNCHANGED <<revents, input, bounds, Outside>>

EndFuncs ==
    /\ pc = "funcs"
    /\ batch = <<>>
    /\ pc' = "poll"
    /\ UNCHANGED <<connVars, ret, revents, batch, funcs, input, bounds, Outside>>

-----------------------------------------------------------------------------
(* Public operations called on the loop thread, where RunInLoop runs its   *)
(* function on the spot and QueueInLoop does not.                          *)

\* A ShutDown() takes effect: what was taken on before is to be sent, but for what a
\* writecomplete_cb_ of HandleWrite that has not returned yet may have left buffered.
AfterDrain == pc = "drained" \/ (pc = "cb" /\ ret = "drained")
Promise == promised' = IF AfterDrain THEN Len(sent) ELSE Len(accepted)

InWindow(op) == \/ pc = "cb" /\ op \in CallbackOps
                \/ pc = "timers" /\ op \in TimerOps

LoopSendMessage ==
    /\ InWindow("send")
    /\ nmsgs < MaxMsgs
    /\ state_ = "kConnected"
    /\ nmsgs' = nmsgs + 1
    /\ DoSend(<<Loop, nmsgs'>>)
    /\ UNCHANGED <<revents, batch, input, ncalls, ninput, tpc, peer>>

\* One of the calls other than SendMessage, of which MaxCalls are made.
CountedCall(op) ==
    /\ ncalls < MaxCalls
    /\ ncalls' = ncalls + 1

LoopShutDown ==
    /\ InWindow("shutdown")
    /\ CountedCall("shutdown")
    /\ state_ = "kConnected"
    /\ state_' = "kDisconnecting"
    /\ Promise
    /\ DoShutDown
    /\ UNCHANGED <<revents, batch, input, nmsgs, ninput, tpc, peer>>

LoopForceClose ==
    /\ InWindow("forceclose")
    /\ CountedCall("forceclose")
    /\ state_ \in {"kConnected", "kDisconnecting"}
    /\ state_' = "kDisconnecting"
    /\ funcs' = Append(funcs, Func("forceclose"))
    /\ UNCHANGED <<writebuf_, dispatch_, connectionSize, sent, halfClosed, accepted,
                   promised, misclosed, loopVars, input, nmsgs, ninput, tpc, peer>>

LoopStartRead ==
    /\ InWindow("startread")
    /\ CountedCall("startread")
    /\ DoStartRead
    /\ UNCHANGED <<revents, batch, input, nmsgs, ninput, tpc, peer>>

LoopStopRead ==
    /\ InWindow("stopread")
    /\ CountedCall("stopread")
    /\ DoStopRead
    /\ UNCHANGED <<revents, batch, input, nmsgs, ninput, tpc, peer>>

-----------------------------------------------------------------------------
(* Public operations called on another thread: the look at state_ and the  *)
(* QueueInLoop are two steps.  A thread learns of the connection from its  *)
(* connection_cb_.                                                         *)

Starts(t, op) ==
    /\ op \in ThreadOps
    /\ tpc[t] = NoFunc
    /\ state_ # "kConnecting"

ThreadSendMessage(t) ==
    /\ Starts(t, "send")
    /\ nmsgs < MaxMsgs
    /\ state_ = "kConnected"
    /\ nmsgs' = nmsgs + 1
    /\ tpc' = [tpc EXCEPT ![t] = SendFunc(<<t, nmsgs'>>)]
    /\ UNCHANGED <<connVars, loopVars, funcs, peer, input, ncalls, ninput>>

ThreadShutDown(t) ==
    /\ Starts(t, "shutdown")
    /\ CountedCall("shutdown")
    /\ state_ = "kConnected"
    /\ state_' = "kDisconnecting"
    /\ Promise
    /\ tpc' = [tpc EXCEPT ![t] = Func("shutdown")]
    /\ UNCHANGED <<writebuf_, dispatch_, connectionSize, sent, halfClosed, accepted,
                   misclosed, loopVars, funcs, peer, input, nmsgs, ninput>>

ThreadForceClose(t) ==
    /\ Starts(t, "forceclose")
    /\ CountedCall("forceclose")
    /\ state_ \in {"kConnected", "kDisconnecting"}
    /\ state_' = "kDisconnecting"
    /\ tpc' = [tpc EXCEPT ![t] = Func("forceclose")]
    /\ UNCHANGED <<writebuf_, dispatch_, connectionSize, sent, halfClosed, accepted,
                   promised, misclosed, loopVars, funcs, peer, input, nmsgs, ninput>>

\* StartRead and StopRead look at nothing before they queue.
ThreadRead(t, op) ==
    /\ op \in {"startread", "stopread"}
    /\ Starts(t, op)
    /\ CountedCall(op)
    /\ tpc' = [tpc EXCEPT ![t] = Func(op)]
    /\ UNCHANGED <<connVars, loopVars, funcs, peer, input, nmsgs, ninput>>

\* The push of QueueInLoop.
Post(t) ==
    /\ tpc[t] # NoFunc
    /\ funcs' = Append(funcs, tpc[t])
    /\ tpc' = [tpc EXCEPT ![t] = NoFunc]
    /\ UNCHANGED <<connVars, loopVars, peer, input, bounds>>

-----------------------------------------------------------------------------
(* The peer.                                                               *)

PeerSends ==
    /\ peer = "open" /\ pc # "start"
    /\ ninput < MaxInput
    /\ ninput' = ninput + 1
    /\ input' = TRUE
    /\ UNCHANGED <<connVars, loopVars, funcs, tpc, peer, nmsgs, ncalls>>

PeerCloses(how) ==
    /\ how \in {"fin", "rst"} /\ pc # "start"
    /\ peer = "open" \/ (peer = "fin" /\ how = "rst")
    /\ peer' = how
    /\ UNCHANGED <<connVars, loopVars, funcs, tpc, input, bounds>>

HandleEvent ==
    \/ HandleHup \/ HandleReadMessage \/ HandleReadEnd \/ HandleReadNothing
    \/ (\E k \in 1..Len(writebuf_) : HandleWriteSome(k))
    \/ HandleWriteFails \/ HandleWriteNothing \/ HandleWriteDrained

LoopStep ==
    \/ StartWorking
    \/ (\E events \in SUBSET {"in", "out", "hup"} : Poll(events))
    \/ BeginEvents \/ HandleEvent \/ Return
    \/ SwapFuncs \/ RunFunc \/ EndFuncs

LoopCall ==
    LoopSendMessage \/ LoopShutDown \/ LoopForceClose \/ LoopStartRead \/ LoopStopRead

ThreadCall(t) ==
    \/ ThreadSendMessage(t) \/ ThreadShutDown(t) \/ ThreadForceClose(t)
    \/ \E op \in {"startread", "stopread"} : ThreadRead(t, op)

Next ==
    \/ LoopStep
    \/ LoopCall
    \/ \E t \in Threads : ThreadCall(t) \/ Post(t)
    \/ PeerSends
    \/ \E how \in {"fin", "rst"} : PeerCloses(how)

Spec == Init /\ [][Next]_vars

\* Threads that can run do run, Poll() returns (it has a time limit), and a
\* peer that lives keeps reading, so that room for output is reported, and
\* found, again and again.
Fairness ==
    /\ WF_vars(LoopStep)
    /\ SF_vars(\E events \in SUBSET {"in", "out", "hup"} : "out" \in events /\ Poll(events))
    /\ SF_vars(\E k \in 1..Len(writebuf_) : HandleWriteSome(k))
    /\ SF_vars(HandleWriteFails)
    /\ \A t \in Threads : WF_vars(Post(t))

FairSpec == Spec /\ Fairness

-----------------------------------------------------------------------------
(* Properties.                                                             *)

Open == state_ \in {"kConnected", "kDisconnecting"}

\* What the kernel got followed by what is buffered is what SendInLoop took
\* on, in order: the direct write never overtakes buffered bytes and partial
\* writes lose and repeat none (tcp_connection.cc:121-151, 227-272).  The
\* messages of one thread are taken on in the order it sent them.
StreamOrder ==
    /\ sent \o writebuf_ = accepted
    /\ \A i, j \in 1..Len(accepted) :
          i < j /\ accepted[i][1] = accepted[j][1] => accepted[i][2] <= accepted[j][2]

\* While the connection is open the kernel watches for what the Dispatch says,
\* and for room to write exactly when bytes are buffered: no busy loop on an
\* empty buffer, no bytes left behind without a POLLOUT to come.
WriteInterest ==
    Open => InSync(dispatch_) /\ (IsWriting(dispatch_) <=> writebuf_ # <<>>)

\* HandleClose runs only on an open connection, as it asserts
\* (tcp_connection.cc:155), so that close_cb_ and RemoveConnection come once;
\* and it leaves nothing behind, whichever way it came: neither the poller nor
\* the kernel knows the Dispatch, so that no Dispatch* outlives it, and
\* connection_size_ counts the connection exactly while it is open.
CloseOnce ==
    /\ TypeOK
    /\ ~misclosed
    /\ state_ = "kDisconnected" => Unregistered(dispatch_)
    /\ connectionSize = IF Open THEN 1 ELSE 0

\* A ShutDown ends the stream of an open connection, by shutting the write side
\* (tcp_connection.cc:82) or by closing once the buffer has drained (133-135), only
\* when every byte taken on before it has been handed to the kernel.  The exception
\* is a ShutDown that finds HandleWrite between the drain and its end: what
\* writecomplete_cb_ (131) has sent by then and the kernel did not take is dropped
\* by the close.  Other ways to close (errors, the peer, ForceClose) promise nothing.
ShutDownDelivers ==
    [][Open /\ (halfClosed' # halfClosed \/ (pc = "drained" /\ state_' = "kDisconnected"))
         => Len(sent') >= promised']_vars

\* A ShutDown is carried out, also when it races with the draining of the
\* buffer: the write side is shut or the connection closed.
ShutDownCompletes == (state_ = "kDisconnecting") ~> (halfClosed \/ state_ = "kDisconnected")

\* A ForceClose that took effect closes the connection.
ForceClosePending ==
    \/ \E i \in 1..Len(funcs) : funcs[i].op = "forceclose"
    \/ \E i \in 1..Len(batch) : batch[i].op = "forceclose"
    \/ \E t \in Threads : tpc[t].op = "forceclose"
ForceCloseCompletes == ForceClosePending ~> (state_ = "kDisconnected")
=============================================================================
