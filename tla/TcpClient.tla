------------------------------ MODULE TcpClient ------------------------------
(***************************************************************************)
(* A TcpClient (voyager/core/tcp_client.cc) with its TcpConnector, on its  *)
(* EventLoop, called from other threads and from callbacks.                *)
(*                                                                         *)
(* An iteration of the loop is                                             *)
(*   "poll" -> "timers" (-> "retry") -> "event" -> "swap" -> "funcs"       *)
(* and "cb" means that the caller's code runs in connection_cb_ ("up"),    *)
(* close_cb_ ("closed", "early") or connect_failure_cb_ ("failed"), to     *)
(* return to ret.  An established connection is its descriptor: in conns   *)
(* while open, in shut once ShutDown() was called on it.  Nobody but the   *)
(* loop holds a TcpConnectionPtr, so weak_ptr_ expires when the connection *)
(* closes.                                                                 *)
(*                                                                         *)
(* A connection also closes inside the caller's code, in connection_cb_    *)
(* first of all, when a send on it fails.  close_cb_ is "early" as long as *)
(* the Dispatch of the attempt that made the connection exists, which may  *)
(* then be running HandleEvent; its destruction is queued.                 *)
(***************************************************************************)
EXTENDS TcpConnector

CONSTANTS
    Threads,        \* the threads other than the loop thread
    RetryModes,     \* values of the argument of Connect()
    ConnectIn,      \* callbacks that call Connect()
    CloseIn,        \* callbacks that call Close()
    MaxConnects,    \* bound: calls of Connect() on other threads
    MaxReconnects,  \* bound: calls of Connect() in callbacks
    MaxCloses       \* bound: calls of Close()

Callbacks == {"up", "closed", "early", "failed"}

ASSUME CallsAssumption ==
    /\ RetryModes \subseteq BOOLEAN
    /\ ConnectIn \subseteq Callbacks /\ CloseIn \subseteq Callbacks
    /\ MaxConnects \in Nat /\ MaxReconnects \in Nat /\ MaxCloses \in Nat

VARIABLES
    clientConnect,   \* TcpClient::connect_
    weak_ptr_,       \* the connection it refers to, 0 if none
    conns, shut,     \* open connections, and those told to ShutDown()
    pc, ret, cb,     \* position of the loop thread; which callback runs
    polled,          \* the attempt whose Dispatch Poll() has reported
    batch,           \* the functions RunFuncs works on
    finishing,       \* HandleEvent has yet to finish a new connection
    storing,         \* a Connect() on the loop thread has yet to set connect_
    tpc,             \* position of each other thread
    nconnects, nreconnects, ncloses

clientVars == <<clientConnect, weak_ptr_, conns, shut>>
loopVars == <<pc, ret, cb, polled, handling, batch, finishing, storing>>
calls == <<nconnects, nreconnects, ncloses>>
vars == <<connectorVars, funcs, clientVars, loopVars, tpc, calls>>

TypeOK ==
    /\ ConnectorTypeOK
    /\ clientConnect \in BOOLEAN /\ finishing \in BOOLEAN /\ storing \in BOOLEAN
    /\ weak_ptr_ \in 0..attempts /\ polled \in 0..attempts
    /\ conns \subseteq 1..attempts /\ shut \subseteq 1..attempts
    /\ pc \in {"poll", "timers", "retry", "event", "swap", "funcs", "cb"}
    /\ ret \in {"timers", "swap", "funcs"}
    /\ cb \in {"none"} \cup Callbacks
    /\ tpc \in [Threads -> {"idle", "start", "store", "shutdown", "clear"} \X BOOLEAN]
    /\ nconnects \in 0..MaxConnects /\ nreconnects \in 0..MaxReconnects
    /\ ncloses \in 0..MaxCloses

Init ==
    /\ ConnectorInit
    /\ clientConnect = FALSE
    /\ weak_ptr_ = 0
    /\ conns = {} /\ shut = {}
    /\ pc = "poll" /\ ret = "funcs" /\ cb = "none"
    /\ polled = 0
    /\ batch = <<>>
    /\ finishing = FALSE /\ storing = FALSE
    /\ tpc = [t \in Threads |-> <<"idle", FALSE>>]
    /\ nconnects = 0 /\ nreconnects = 0 /\ ncloses = 0

-----------------------------------------------------------------------------
(* The loop thread.                                                        *)

\* A callback is called, to return to r; a nested one returns with the outer.
CallBack(kind, r) ==
    /\ pc' = "cb"
    /\ cb' = kind
    /\ ret' = IF pc = "cb" THEN ret ELSE r

\* A step that calls connect_failure_cb_ or goes on at r.
FailureCallBackOr(r) ==
    IF reported' > reported
    THEN CallBack("failed", r)
    ELSE pc' = r /\ UNCHANGED <<ret, cb>>

Poll(n) ==
    /\ pc = "poll"
    /\ n \in {0} \cup registered
    /\ polled' = n
    /\ pc' = "timers"
    /\ UNCHANGED <<connectorVars, funcs, clientVars, ret, cb, handling, batch, finishing,
                   storing, tpc, calls>>

\* A timer set by Retry() is taken out of the list ...
TakeTimer ==
    /\ pc = "timers"
    /\ timers > 0
    /\ timers' = timers - 1
    /\ pc' = "retry"
    /\ UNCHANGED <<state_, connect_, retry_, retry_time_, dispatch_, socket_,
                   registered, attempts, failures, reported, misdestroyed,
                   funcs, clientVars, ret, cb, polled, handling, batch, finishing,
                   storing, tpc, calls>>

\* ... and calls StartInLoop.
RetryTimer ==
    /\ pc = "retry"
    /\ StartInLoop(retry_, connect_)
    /\ FailureCallBackOr("timers")
    /\ UNCHANGED <<connect_, retry_, funcs, clientVars, polled, handling, batch,
                   finishing, storing, tpc, calls>>

EndTimers ==
    /\ pc = "timers"
    /\ pc' = "event"
    /\ UNCHANGED <<connectorVars, funcs, clientVars, ret, cb, polled, handling, batch,
                   finishing, storing, tpc, calls>>

\* Nothing was polled, or HandleEvent() finds that it is not connecting.
NoEvent ==
    /\ pc = "event"
    /\ polled = 0 \/ polled # dispatch_ \/ state_ # "kConnecting"
    /\ pc' = "swap"
    /\ UNCHANGED <<connectorVars, funcs, clientVars, ret, cb, polled, handling, batch,
                   finishing, storing, tpc, calls>>

HandleEventFailure ==
    /\ pc = "event"
    /\ polled # 0 /\ polled = dispatch_
    /\ HandleEventFails
    /\ FailureCallBackOr("swap")
    /\ handling' = IF pc' = "cb" THEN polled ELSE 0
    /\ UNCHANGED <<clientVars, polled, batch, finishing, storing, tpc, calls>>

\* HandleEvent() calls TcpClient::NewConnection, which makes the connection
\* and, in StartWorking, calls connection_cb_.
NewConnection ==
    /\ pc = "event"
    /\ polled # 0 /\ polled = dispatch_
    /\ HandleEventConnected
    /\ conns' = conns \cup {polled}
    /\ CallBack("up", "swap")
    /\ handling' = polled
    /\ finishing' = TRUE
    /\ UNCHANGED <<clientConnect, weak_ptr_, shut, polled, batch, storing, tpc, calls>>

\* A callback returns; NewConnection goes on to set weak_ptr_ and HandleEvent
\* to reset its socket, an outer Connect() to set connect_.
Return ==
    /\ pc = "cb"
    /\ pc' = ret
    /\ cb' = "none"
    /\ IF finishing
       THEN HandleEventFinish /\ weak_ptr_' = IF polled \in conns THEN polled ELSE 0
       ELSE UNCHANGED <<connectorVars, weak_ptr_>>
    /\ clientConnect' = (clientConnect \/ storing)
    /\ finishing' = FALSE /\ storing' = FALSE
    /\ handling' = 0
    /\ UNCHANGED <<funcs, conns, shut, ret, polled, batch, tpc, calls>>

\* An established connection closes and calls close_cb_: in its own HandleEvent, in a
\* function, or in a send of a timer, of another handler or of a callback.
ConnectionCloses(n) ==
    /\ pc \in {"timers", "swap", "funcs", "cb"}
    /\ n \in conns
    /\ conns' = conns \ {n}
    /\ weak_ptr_' = IF weak_ptr_ = n THEN 0 ELSE weak_ptr_
    /\ CallBack(IF n = dispatch_ THEN "early" ELSE "closed", pc)
    /\ UNCHANGED <<connectorVars, funcs, clientConnect, shut, polled, handling, batch,
                   finishing, storing, tpc, calls>>

SwapFuncs ==
    /\ pc = "swap"
    /\ pc' = "funcs"
    /\ polled' = 0
    /\ batch' = funcs
    /\ funcs' = <<>>
    /\ UNCHANGED <<connectorVars, clientVars, ret, cb, handling, finishing, storing, tpc, calls>>

\* The queued functions: Start(), Stop() and the reset of dispatch_.
RunFunc ==
    /\ pc = "funcs"
    /\ batch # <<>>
    /\ batch' = Tail(batch)
    /\ \/ /\ Head(batch).op = "start"
          /\ DoStart(Head(batch).retry)
          /\ FailureCallBackOr("funcs")
          /\ UNCHANGED funcs
       \/ /\ Head(batch).op = "stop"
          /\ StopInLoop
          /\ UNCHANGED <<pc, ret, cb>>
       \/ /\ Head(batch).op = "reset"
          /\ ReplaceDispatch(0)
          /\ UNCHANGED <<state_, connect_, retry_, retry_time_, socket_, registered,
                         timers, attempts, failures, reported, funcs, pc, ret, cb>>
    /\ UNCHANGED <<clientVars, polled, handling, finishing, storing, tpc, calls>>

EndFuncs ==
    /\ pc = "funcs"
    /\ batch = <<>>
    /\ pc' = "poll"
    /\ UNCHANGED <<connectorVars, funcs, clientVars, ret, cb, polled, handling, batch,
                   finishing, storing, tpc, calls>>

-----------------------------------------------------------------------------
(* Connect() and Close(), in a callback and on another thread.             *)

\* connect_ as Connect() sees it after it has looked at weak_ptr_.
StillConnected == weak_ptr_ # 0 /\ clientConnect

CountClose ==
    /\ ncloses < MaxCloses
    /\ ncloses' = ncloses + 1
    /\ UNCHANGED <<nconnects, nreconnects>>

CallbackConnect(retry) ==
    /\ pc = "cb" /\ cb \in ConnectIn
    /\ nreconnects < MaxReconnects
    /\ nreconnects' = nreconnects + 1
    /\ ~StillConnected
    /\ DoStart(retry)
    /\ IF reported' > reported
       THEN storing' = TRUE /\ clientConnect' = FALSE /\ cb' = "failed"
       ELSE clientConnect' = TRUE /\ UNCHANGED <<storing, cb>>
    /\ UNCHANGED <<funcs, weak_ptr_, conns, shut, pc, ret, polled, handling, batch,
                   finishing, tpc, nconnects, ncloses>>

CallbackClose ==
    /\ pc = "cb" /\ cb \in CloseIn
    /\ CountClose
    /\ clientConnect
    /\ StopInLoop
    /\ shut' = shut \cup ({weak_ptr_} \ {0})
    /\ clientConnect' = FALSE
    /\ UNCHANGED <<weak_ptr_, conns, loopVars, tpc>>

\* Connect() on thread t: the look at weak_ptr_ and connect_ ...
Connect(t, retry) ==
    /\ tpc[t][1] = "idle"
    /\ nconnects < MaxConnects
    /\ nconnects' = nconnects + 1
    /\ ~StillConnected
    /\ clientConnect' = FALSE
    /\ tpc' = [tpc EXCEPT ![t] = <<"start", retry>>]
    /\ UNCHANGED <<connectorVars, funcs, weak_ptr_, conns, shut, loopVars,
                   nreconnects, ncloses>>

\* ... the Start() it queues ...
ConnectStart(t) ==
    /\ tpc[t][1] = "start"
    /\ funcs' = Append(funcs, Func("start", tpc[t][2]))
    /\ tpc' = [tpc EXCEPT ![t] = <<"store", FALSE>>]
    /\ UNCHANGED <<connectorVars, clientVars, loopVars, calls>>

\* ... and the store to connect_.
ConnectStore(t) ==
    /\ tpc[t][1] = "store"
    /\ clientConnect' = TRUE
    /\ tpc' = [tpc EXCEPT ![t] = <<"idle", FALSE>>]
    /\ UNCHANGED <<connectorVars, funcs, weak_ptr_, conns, shut, loopVars, calls>>

\* Close() on thread t: the look at connect_ and the Stop() it queues ...
Close(t) ==
    /\ tpc[t][1] = "idle"
    /\ CountClose
    /\ clientConnect
    /\ funcs' = Append(funcs, Func("stop", FALSE))
    /\ tpc' = [tpc EXCEPT ![t] = <<"shutdown", FALSE>>]
    /\ UNCHANGED <<connectorVars, clientVars, loopVars>>

\* ... the ShutDown() of the connection it finds ...
CloseShutDown(t) ==
    /\ tpc[t][1] = "shutdown"
    /\ shut' = shut \cup ({weak_ptr_} \ {0})
    /\ tpc' = [tpc EXCEPT ![t] = <<"clear", FALSE>>]
    /\ UNCHANGED <<connectorVars, funcs, clientConnect, weak_ptr_, conns, loopVars, calls>>

\* ... and the store to connect_.
CloseClear(t) ==
    /\ tpc[t][1] = "clear"
    /\ clientConnect' = FALSE
    /\ tpc' = [tpc EXCEPT ![t] = <<"idle", FALSE>>]
    /\ UNCHANGED <<connectorVars, funcs, weak_ptr_, conns, shut, loopVars, calls>>

LoopStep ==
    \/ (\E n \in 0..attempts : Poll(n))
    \/ RetryTimer \/ EndTimers \/ NoEvent \/ HandleEventFailure \/ NewConnection
    \/ Return \/ SwapFuncs \/ RunFunc \/ EndFuncs

ThreadStep(t) ==
    ConnectStart(t) \/ ConnectStore(t) \/ CloseShutDown(t) \/ CloseClear(t)

Call ==
    \/ \E retry \in RetryModes : CallbackConnect(retry)
    \/ CallbackClose
    \/ \E t \in Threads : Close(t) \/ \E retry \in RetryModes : Connect(t, retry)

Next ==
    \/ LoopStep
    \/ TakeTimer
    \/ Call
    \/ \E t \in Threads : ThreadStep(t)
    \/ \E n \in conns : ConnectionCloses(n)

Spec == Init /\ [][Next]_vars

\* Threads run, timers that are set come due, and a descriptor that becomes
\* writable or fails is reported by Poll() again and again.
Fairness ==
    /\ WF_vars(LoopStep)
    /\ SF_vars(TakeTimer)
    /\ SF_vars(\E n \in registered : Poll(n))
    /\ \A t \in Threads : WF_vars(ThreadStep(t))

FairSpec == Spec /\ Fairness

-----------------------------------------------------------------------------
(* Properties.                                                             *)

\* No Dispatch is destroyed while the poller still points to it or inside its
\* own HandleEvent (the assert at dispatch.cc:22), and the one Poll() has reported
\* is alive when its HandleEvent is called, across Stop(), retries and the queued
\* reset (tcp_connector.cc:96-104, 170-177).
NoDanglingDispatch ==
    /\ registered \subseteq {dispatch_}
    /\ pc \in {"timers", "retry", "event"} /\ polled # 0 => polled = dispatch_
    /\ ~misdestroyed

\* While it is connecting, the connector has one socket, one Dispatch, both
\* of the same attempt and in the poller, and no retry timer is set; a timer
\* is set only while it is disconnected, and never two (tcp_connector.cc:36-177).
\* It is up to the callers: a Connect() over an attempt, in connect_failure_cb_ or in
\* an early close_cb_ breaks it.
OneAttempt ==
    /\ TypeOK
    /\ NoDanglingDispatch
    /\ state_ = "kConnecting" =>
          connect_ /\ socket_ # 0 /\ dispatch_ = socket_ /\ registered = {socket_} /\ timers = 0
    /\ state_ # "kConnecting" => registered = {}
    /\ timers <= 1

\* After Stop() no connect() is made, although retry timers stay set.
StopHolds == [][~connect_ /\ ~connect_' => attempts' = attempts]_vars

\* A Start() is answered: the connector connects, reports a failure or is
\* stopped; with retry it never gives up in silence.
StartAnswered == connect_ ~> (~connect_ \/ state_ = "kConnected" \/ reported > 0)
=============================================================================
