--------------------------- MODULE TcpClientProofs ---------------------------
(***************************************************************************)
(* Theorems about TcpClient and its TcpConnector, for every set of threads *)
(* and every bound on failures, calls and retry times.                     *)
(***************************************************************************)
EXTENDS TcpClient, SequenceTheorems, TLAPS

USE DEF Callbacks

\* A function in the loop's queue, and what a queue of them holds.
Function == [op : {"start", "stop", "reset"}, retry : BOOLEAN]
Has(q, op) == \E i \in 1..Len(q) : q[i].op = op
AtMostOne(q, op) == \A i, j \in 1..Len(q) : q[i].op = op /\ q[j].op = op => i = j

\* Where the loop thread is, or will be when the callback has returned.
Where == IF pc = "cb" THEN ret ELSE pc

\* The connector has neither a Dispatch nor a retry timer.
AtRest == dispatch_ = 0 /\ timers = 0

\* The contract of TcpConnector::Start(), which does not look at what is under
\* way: every connect() that is not a retry's finds the connector at rest.
StartsAtRest == attempts' # attempts /\ pc # "retry" => AtRest

\* The types, RunFuncs' batch included.
Types == TypeOK /\ batch \in Seq(Function)

\* The queued reset comes before the next timers and the next Poll().
ResetSoon ==
    \/ Where = "swap" /\ Has(funcs, "reset")
    \/ Where = "funcs" /\ Has(batch, "reset")

\* The parts of the inductive invariant: RunFuncs' batch is empty elsewhere;
BatchInv == Where # "funcs" => batch = <<>>

\* the Dispatch that was polled is still dispatch_ until the events are done;
PollInv == Where \in {"timers", "retry", "event"} /\ polled # 0 => polled = dispatch_

\* a HandleEvent that called back runs on dispatch_;
HandlingInv ==
    /\ pc # "cb" => handling = 0 /\ ~finishing
    /\ handling # 0 => handling = dispatch_
    /\ finishing => state_ # "kConnecting" /\ dispatch_ # 0

\* one reset at most is queued, for a Dispatch out of the poller;
ResetInv ==
    /\ Has(batch, "reset") \/ Has(funcs, "reset") => state_ # "kConnecting" /\ dispatch_ # 0
    /\ ~(Has(batch, "reset") /\ Has(funcs, "reset"))
    /\ AtMostOne(batch, "reset") /\ AtMostOne(funcs, "reset")

\* one timer at most, set while disconnected, and it finds no Dispatch;
TimerInv ==
    /\ timers <= 1
    /\ timers > 0 \/ pc = "retry" => state_ = "kDisConnected"
    /\ pc = "retry" => timers = 0
    /\ (timers > 0 \/ pc = "retry" \/ state_ = "kConnected") /\ dispatch_ # 0 => ResetSoon

\* the poller watches the Dispatch of the attempt under way and no other.
ConnectingInv ==
    /\ state_ = "kConnecting" => connect_ /\ dispatch_ # 0 /\ socket_ = dispatch_
    /\ registered = IF state_ = "kConnecting" THEN {dispatch_} ELSE {}
    /\ ~misdestroyed

CInv ==
    /\ Types
    /\ BatchInv /\ PollInv /\ HandlingInv /\ ResetInv /\ TimerInv /\ ConnectingInv

-----------------------------------------------------------------------------
(* Queues of functions.                                                    *)

\* An empty queue holds nothing.
LEMMA HasEmpty == ASSUME NEW op PROVE ~Has(<<>>, op) /\ AtMostOne(<<>>, op)
  BY DEF Has, AtMostOne

\* What a queue holds after a push.
LEMMA HasAppend ==
  ASSUME NEW q \in Seq(Function), NEW f \in Function, NEW op
  PROVE  /\ Append(q, f) \in Seq(Function)
         /\ Has(Append(q, f), op) <=> Has(q, op) \/ f.op = op
         /\ AtMostOne(q, op) /\ ~(Has(q, op) /\ f.op = op) => AtMostOne(Append(q, f), op)
<1>1. /\ Append(q, f) \in Seq(Function) /\ Len(q) \in Nat
      /\ Len(Append(q, f)) = Len(q) + 1
      /\ \A i \in 1..Len(q) : Append(q, f)[i] = q[i]
      /\ Append(q, f)[Len(q) + 1] = f
  BY AppendProperties, LenProperties
<1>2. Has(Append(q, f), op) <=> Has(q, op) \/ f.op = op
  <2>1. ASSUME Has(q, op) PROVE Has(Append(q, f), op)
    <3>1. PICK i \in 1..Len(q) : q[i].op = op
      BY <2>1 DEF Has
    <3>2. i \in 1..Len(Append(q, f)) /\ Append(q, f)[i].op = op
      BY <1>1, <3>1
    <3> QED
      BY <3>2 DEF Has
  <2>2. ASSUME f.op = op PROVE Has(Append(q, f), op)
    <3>1. Len(q) + 1 \in 1..Len(Append(q, f)) /\ Append(q, f)[Len(q) + 1].op = op
      BY <1>1, <2>2
    <3> QED
      BY <3>1 DEF Has
  <2>3. ASSUME Has(Append(q, f), op), f.op # op PROVE Has(q, op)
    <3>1. PICK i \in 1..Len(Append(q, f)) : Append(q, f)[i].op = op
      BY <2>3 DEF Has
    <3>2. i \in 1..Len(q) /\ q[i].op = op
      BY <1>1, <2>3, <3>1
    <3> QED
      BY <3>2 DEF Has
  <2> QED
    BY <2>1, <2>2, <2>3
<1>3. ASSUME AtMostOne(q, op), ~(Has(q, op) /\ f.op = op) PROVE AtMostOne(Append(q, f), op)
  <2> SUFFICES ASSUME NEW i \in 1..Len(Append(q, f)), NEW j \in 1..Len(Append(q, f)),
                      Append(q, f)[i].op = op, Append(q, f)[j].op = op
               PROVE  i = j
    BY DEF AtMostOne
  <2>1. CASE f.op = op
    <3>1. \A k \in 1..Len(q) : q[k].op # op
      BY <1>3, <2>1 DEF Has
    <3> QED
      BY <1>1, <3>1
  <2>2. CASE f.op # op
    <3>1. i \in 1..Len(q) /\ j \in 1..Len(q) /\ q[i].op = op /\ q[j].op = op
      BY <1>1, <2>2
    <3> QED
      BY <1>3, <3>1 DEF AtMostOne
  <2> QED
    BY <2>1, <2>2
<1> QED
  BY <1>1, <1>2, <1>3

\* What a queue holds after a pop.
LEMMA HasTail ==
  ASSUME NEW q \in Seq(Function), q # <<>>, NEW op
  PROVE  /\ Tail(q) \in Seq(Function) /\ Head(q) \in Function
         /\ Has(Tail(q), op) => Has(q, op)
         /\ Head(q).op = op => Has(q, op)
         /\ Has(q, op) => Has(Tail(q), op) \/ Head(q).op = op
         /\ AtMostOne(q, op) => AtMostOne(Tail(q), op)
         /\ AtMostOne(q, op) /\ Head(q).op = op => ~Has(Tail(q), op)
<1>1. /\ Tail(q) \in Seq(Function) /\ Head(q) \in Function
      /\ Len(q) \in Nat /\ Len(q) > 0
      /\ Len(Tail(q)) = Len(q) - 1 /\ Head(q) = q[1]
      /\ \A i \in 1..Len(Tail(q)) : Tail(q)[i] = q[i + 1]
  BY HeadTailProperties, LenProperties, EmptySeq
<1>2. ASSUME Has(Tail(q), op)
      PROVE  \E i \in 2..Len(q) : q[i].op = op
  <2>1. PICK i \in 1..Len(Tail(q)) : Tail(q)[i].op = op
    BY <1>2 DEF Has
  <2>2. i + 1 \in 2..Len(q) /\ q[i + 1].op = op
    BY <1>1, <2>1
  <2> QED
    BY <2>2
<1>3. Has(Tail(q), op) => Has(q, op)
  BY <1>1, <1>2 DEF Has
<1>4. Head(q).op = op => Has(q, op)
  BY <1>1 DEF Has
<1>5. ASSUME Has(q, op), Head(q).op # op PROVE Has(Tail(q), op)
  <2>1. PICK i \in 1..Len(q) : q[i].op = op
    BY <1>5 DEF Has
  <2>2. i # 1
    BY <1>1, <1>5, <2>1
  <2>3. i - 1 \in 1..Len(Tail(q)) /\ Tail(q)[i - 1] = q[i]
    BY <1>1, <2>2
  <2> QED
    BY <2>1, <2>3 DEF Has
<1>6. ASSUME AtMostOne(q, op) PROVE AtMostOne(Tail(q), op)
  <2> SUFFICES ASSUME NEW i \in 1..Len(Tail(q)), NEW j \in 1..Len(Tail(q)),
                      Tail(q)[i].op = op, Tail(q)[j].op = op
               PROVE  i = j
    BY DEF AtMostOne
  <2>1. /\ i + 1 \in 1..Len(q) /\ j + 1 \in 1..Len(q)
        /\ q[i + 1].op = op /\ q[j + 1].op = op
    BY <1>1
  <2>2. i + 1 = j + 1
    BY <1>6, <2>1 DEF AtMostOne
  <2> QED
    BY <1>1, <2>2
<1>7. ASSUME AtMostOne(q, op), Head(q).op = op PROVE ~Has(Tail(q), op)
  <2> SUFFICES ASSUME Has(Tail(q), op) PROVE FALSE
    OBVIOUS
  <2>1. PICK i \in 2..Len(q) : q[i].op = op
    BY <1>2
  <2>2. 1 \in 1..Len(q) /\ i \in 1..Len(q) /\ q[1].op = op /\ i # 1
    BY <1>1, <1>7, <2>1
  <2> QED
    BY <1>7, <2>1, <2>2 DEF AtMostOne
<1> QED
  BY <1>1, <1>3, <1>4, <1>5, <1>6, <1>7

-----------------------------------------------------------------------------
(* Types.                                                                  *)

\* What StartInLoop() changes has its type afterwards.
StartTyped ==
    /\ state_' \in {"kDisConnected", "kConnected", "kConnecting"}
    /\ retry_time_' \in InitRetryTime..MaxRetryTime
    /\ attempts' \in Nat /\ attempts' >= attempts
    /\ failures' \in 0..MaxFailures /\ timers' \in Nat /\ reported' \in 0..failures'
    /\ dispatch_' \in 0..attempts' /\ socket_' \in 0..attempts'
    /\ registered' \subseteq 1..attempts'
    /\ misdestroyed' \in BOOLEAN

\* StartInLoop() keeps the types of what it changes.
LEMMA StartTypes ==
  ASSUME TypeOK, NEW retrying \in BOOLEAN, NEW wanted \in BOOLEAN,
         StartInLoop(retrying, wanted)
  PROVE  StartTyped
<1> USE RetryAssumption, FailuresAssumption DEF StartTyped
<1>1. CASE ~wanted
  <2>1. /\ state_' = state_ /\ retry_time_' = retry_time_ /\ attempts' = attempts
        /\ failures' = failures /\ timers' = timers /\ reported' = reported
        /\ dispatch_' = dispatch_ /\ socket_' = socket_ /\ registered' = registered
        /\ (misdestroyed' = misdestroyed)
    BY <1>1 DEF StartInLoop
  <2> QED
    BY <2>1 DEF TypeOK, ConnectorTypeOK
<1>2. CASE ConnectInProgress
  <2>1. attempts' = attempts + 1 /\ socket_' = attempts + 1 /\ dispatch_' = attempts + 1
        /\ registered' = registered \cup {attempts + 1} /\ state_' = "kConnecting"
        /\ timers' = timers /\ retry_time_' = retry_time_ /\ reported' = reported
        /\ failures' = failures
    BY <1>2 DEF ConnectInProgress, Connecting, ReplaceDispatch
  <2>2. misdestroyed' \in BOOLEAN
    BY <1>2, Zenon DEF ConnectInProgress, Connecting, ReplaceDispatch
  <2> QED
    BY <2>1, <2>2 DEF TypeOK, ConnectorTypeOK
<1>3. CASE ConnectRefused(retrying, wanted)
  <2>1. /\ attempts' = attempts + 1 /\ socket_' = attempts + 1 /\ dispatch_' = dispatch_
        /\ registered' = registered /\ (misdestroyed' = misdestroyed)
        /\ failures < MaxFailures /\ failures' = failures + 1
        /\ state_' = "kDisConnected"
        /\ reported' = reported \/ reported' = reported + 1
        /\ timers' = timers \/ timers' = timers + 1
        /\ retry_time_' = retry_time_ \/ retry_time_' = Doubled
    BY <1>3 DEF ConnectRefused, Retry
  <2>2. Doubled \in InitRetryTime..MaxRetryTime
    BY DEF TypeOK, ConnectorTypeOK, Doubled
  <2>3. /\ attempts \in Nat /\ dispatch_ \in 0..attempts /\ registered \subseteq 1..attempts
        /\ timers \in Nat /\ retry_time_ \in InitRetryTime..MaxRetryTime
        /\ failures \in 0..MaxFailures /\ reported \in 0..failures
    BY DEF TypeOK, ConnectorTypeOK
  <2>4. misdestroyed' \in BOOLEAN
    BY <2>1, Zenon DEF TypeOK, ConnectorTypeOK
  <2>5. /\ attempts' \in Nat /\ attempts' >= attempts
        /\ dispatch_' \in 0..attempts' /\ socket_' \in 0..attempts'
        /\ registered' \subseteq 1..attempts'
    BY <2>1, <2>3
  <2>6. failures' \in 0..MaxFailures /\ timers' \in Nat /\ reported' \in 0..failures'
    BY <2>1, <2>3
  <2>7. retry_time_' \in InitRetryTime..MaxRetryTime
    BY <2>1, <2>2, <2>3
  <2> QED
    BY <2>1, <2>4, <2>5, <2>6, <2>7
<1>4. CASE ConnectFatal
  <2>1. /\ attempts' = attempts + 1 /\ socket_' = 0 /\ dispatch_' = dispatch_
        /\ registered' = registered /\ (misdestroyed' = misdestroyed)
        /\ failures < MaxFailures /\ failures' = failures + 1
        /\ state_' = state_ /\ reported' = reported + 1
        /\ timers' = timers /\ retry_time_' = retry_time_
    BY <1>4 DEF ConnectFatal
  <2> QED
    BY <2>1 DEF TypeOK, ConnectorTypeOK
<1> QED
  BY <1>1, <1>2, <1>3, <1>4 DEF StartInLoop

\* A StartInLoop() leaves the rest of the connector as it was.
LEMMA StartKeepsConnector ==
  ASSUME TypeOK, StartTyped, connect_' \in BOOLEAN, retry_' \in BOOLEAN,
         funcs' = funcs, handling' = handling
  PROVE  ConnectorTypeOK' /\ attempts' \in Nat /\ attempts' >= attempts
<1>1. /\ attempts \in Nat /\ handling \in 0..attempts
      /\ funcs \in Seq([op : {"start", "stop", "reset"}, retry : BOOLEAN])
  BY DEF TypeOK, ConnectorTypeOK
<1>2. attempts' \in Nat /\ attempts' >= attempts
  BY DEF StartTyped
<1>3. handling' \in 0..attempts'
  BY <1>1, <1>2
<1>4. funcs' \in Seq([op : {"start", "stop", "reset"}, retry : BOOLEAN])
  BY <1>1
<1> QED
  BY <1>2, <1>3, <1>4, Zenon DEF StartTyped, ConnectorTypeOK

\* The initial state has the types.
LEMMA InitTypes == Init => Types
<1> SUFFICES ASSUME Init PROVE Types
  OBVIOUS
<1> USE DEF Init, ConnectorInit
<1>1. connect_ \in BOOLEAN /\ retry_ \in BOOLEAN /\ misdestroyed \in BOOLEAN
      /\ clientConnect \in BOOLEAN /\ finishing \in BOOLEAN /\ storing \in BOOLEAN
  BY Zenon
<1>2. tpc \in [Threads -> {"idle", "start", "store", "shutdown", "clear"} \X BOOLEAN]
  OBVIOUS
<1>3. ConnectorTypeOK
  BY <1>1, RetryAssumption, FailuresAssumption DEF ConnectorTypeOK
<1>4. batch \in Seq(Function)
  OBVIOUS
<1>5. /\ weak_ptr_ \in 0..attempts /\ polled \in 0..attempts
      /\ conns \subseteq 1..attempts /\ shut \subseteq 1..attempts
      /\ pc \in {"poll", "timers", "retry", "event", "swap", "funcs", "cb"}
      /\ ret \in {"timers", "swap", "funcs"}
      /\ cb \in {"none"} \cup Callbacks
      /\ nconnects \in 0..MaxConnects /\ nreconnects \in 0..MaxReconnects
      /\ ncloses \in 0..MaxCloses
  BY CallsAssumption
<1> HIDE DEF Init
<1> QED
  BY <1>1, <1>2, <1>3, <1>4, <1>5 DEF TypeOK, Types

\* The functions that are queued are functions.
LEMMA FuncTypes ==
  ASSUME NEW op \in {"start", "stop", "reset"}, NEW retry \in BOOLEAN
  PROVE  Func(op, retry) \in Function /\ Func(op, retry).op = op
  BY DEF Func, Function

\* ResetDispatch() keeps the types of what it changes.
LEMMA ResetTypes ==
  ASSUME Types, ResetDispatch
  PROVE  registered' \subseteq registered /\ funcs' \in Seq(Function)
<1>1. funcs \in Seq(Function)
  BY DEF Types, TypeOK, ConnectorTypeOK, Function
<1>2. PICK f \in Function : f = Func("reset", FALSE)
  BY FuncTypes
<1>3. funcs' = funcs \/ funcs' = Append(funcs, f)
  BY <1>2 DEF ResetDispatch
<1>4. funcs' \in Seq(Function)
  BY <1>1, <1>3, HasAppend
<1> QED
  BY <1>4 DEF ResetDispatch

\* Stop() keeps the types of what it changes.
LEMMA StopTypes ==
  ASSUME Types, StopInLoop
  PROVE  /\ handling' \in 0..attempts => ConnectorTypeOK'
         /\ attempts' = attempts
<1>1. /\ retry_time_' = retry_time_ /\ attempts' = attempts
      /\ failures' = failures /\ timers' = timers /\ reported' = reported
      /\ dispatch_' = dispatch_ /\ socket_' = socket_
      /\ (retry_' = retry_) /\ (misdestroyed' = misdestroyed) /\ (connect_' = FALSE)
  BY DEF StopInLoop
<1>2. connect_' \in BOOLEAN /\ retry_' \in BOOLEAN /\ misdestroyed' \in BOOLEAN
  BY <1>1, Zenon DEF Types, TypeOK, ConnectorTypeOK
<1>3. state_' \in {state_, "kDisConnected"} /\ registered' \subseteq registered
  BY DEF StopInLoop, ResetDispatch
<1>7. funcs' \in Seq(Function)
  BY ResetTypes DEF StopInLoop, Types, TypeOK, ConnectorTypeOK, Function
<1>8. /\ state_' \in {"kDisConnected", "kConnected", "kConnecting"}
      /\ registered' \subseteq 1..attempts'
      /\ retry_time_' \in InitRetryTime..MaxRetryTime
      /\ attempts' \in Nat /\ failures' \in 0..MaxFailures /\ timers' \in Nat
      /\ dispatch_' \in 0..attempts' /\ socket_' \in 0..attempts'
      /\ reported' \in 0..failures'
  BY <1>1, <1>3 DEF Types, TypeOK, ConnectorTypeOK
<1> QED
  BY <1>1, <1>2, <1>7, <1>8 DEF ConnectorTypeOK, Function

\* A step of the loop thread keeps the types.
LEMMA LoopTypes == ASSUME Types, LoopStep \/ TakeTimer PROVE Types'
<1> USE RetryAssumption, FailuresAssumption DEF connectorVars, clientVars, loopVars, calls
<1>1. CASE \E n \in 0..attempts : Poll(n)
  BY <1>1 DEF Poll, Types, TypeOK, ConnectorTypeOK
<1>2. CASE TakeTimer
  BY <1>2 DEF TakeTimer, Types, TypeOK, ConnectorTypeOK
<1>3. CASE EndTimers
  BY <1>3 DEF EndTimers, Types, TypeOK, ConnectorTypeOK
<1>4. CASE NoEvent
  BY <1>4 DEF NoEvent, Types, TypeOK, ConnectorTypeOK
<1>5. CASE EndFuncs
  BY <1>5 DEF EndFuncs, Types, TypeOK, ConnectorTypeOK
<1>6. CASE SwapFuncs
  BY <1>6 DEF SwapFuncs, Types, TypeOK, ConnectorTypeOK, Function
<1>7. CASE Return
  <2>1. /\ clientConnect' \in BOOLEAN /\ finishing' \in BOOLEAN /\ storing' \in BOOLEAN
    BY <1>7, Zenon DEF Return, Types, TypeOK
  <2>2. /\ pc' = ret /\ cb' = "none" /\ handling' = 0 /\ UNCHANGED <<funcs, conns, shut, ret, polled, batch, tpc>>
        /\ UNCHANGED <<nconnects, nreconnects, ncloses>>
    BY <1>7 DEF Return
  <2>3. /\ UNCHANGED <<state_, connect_, retry_, dispatch_, registered, timers, attempts,
                      failures, reported, misdestroyed>>
        /\ retry_time_' \in {retry_time_, InitRetryTime} /\ socket_' \in {socket_, 0}
        /\ weak_ptr_' \in {weak_ptr_, polled, 0}
    BY <1>7 DEF Return, HandleEventFinish
  <2> QED
    BY <2>1, <2>2, <2>3 DEF Types, TypeOK, ConnectorTypeOK
<1>8. CASE NewConnection
  <2>1. registered' \subseteq registered /\ funcs' \in Seq(Function)
    BY <1>8, ResetTypes DEF NewConnection, HandleEventConnected
  <2>2. /\ state_' = "kConnected" /\ (finishing' = TRUE) /\ handling' = polled
        /\ conns' = conns \cup {polled} /\ polled # 0
        /\ pc' = "cb" /\ cb' = "up" /\ ret' = "swap"
        /\ UNCHANGED <<connect_, retry_, retry_time_, dispatch_, socket_, timers, attempts,
                      failures, reported, misdestroyed, clientConnect, weak_ptr_, shut, polled,
                      batch, storing, tpc, nconnects, nreconnects, ncloses>>
    BY <1>8 DEF NewConnection, HandleEventConnected, CallBack
  <2>3. finishing' \in BOOLEAN
    BY <2>2, Zenon
  <2> QED
    BY <2>1, <2>2, <2>3 DEF Types, TypeOK, ConnectorTypeOK, Function
<1>9. CASE HandleEventFailure
  <2>1. registered' \subseteq registered /\ funcs' \in Seq(Function)
    BY <1>9, ResetTypes DEF HandleEventFailure, HandleEventFails
  <2>2. /\ failures < MaxFailures /\ failures' = failures + 1 /\ state_' = "kDisConnected"
        /\ reported' \in {reported, reported + 1} /\ timers' \in {timers, timers + 1}
        /\ retry_time_' \in {retry_time_, Doubled}
        /\ UNCHANGED <<connect_, retry_, dispatch_, socket_, attempts, misdestroyed, clientConnect,
                      weak_ptr_, conns, shut, polled, batch, finishing, storing, tpc,
                      nconnects, nreconnects, ncloses>>
    BY <1>9 DEF HandleEventFailure, HandleEventFails, Retry
  <2>3. /\ pc' \in {"cb", "swap"} /\ cb' \in {cb, "failed"} /\ ret' \in {ret, "swap"}
        /\ handling' \in {polled, 0}
    BY <1>9 DEF HandleEventFailure, FailureCallBackOr, CallBack
  <2>4. Doubled \in InitRetryTime..MaxRetryTime
    BY DEF Types, TypeOK, ConnectorTypeOK, Doubled
  <2>5. /\ failures' \in 0..MaxFailures /\ reported' \in 0..failures' /\ timers' \in Nat
        /\ retry_time_' \in InitRetryTime..MaxRetryTime
    BY <2>2, <2>4 DEF Types, TypeOK, ConnectorTypeOK
  <2>6. handling' \in 0..attempts' /\ registered' \subseteq 1..attempts'
    BY <2>1, <2>2, <2>3 DEF Types, TypeOK, ConnectorTypeOK
  <2>7. ConnectorTypeOK'
    BY <2>1, <2>2, <2>5, <2>6 DEF Types, TypeOK, ConnectorTypeOK, Function
  <2>8. /\ pc' \in {"poll", "timers", "retry", "event", "swap", "funcs", "cb"}
        /\ ret' \in {"timers", "swap", "funcs"} /\ cb' \in {"none"} \cup Callbacks
    BY <2>3 DEF Types, TypeOK, Callbacks
  <2> QED
    BY <2>2, <2>7, <2>8 DEF Types, TypeOK
<1>10. CASE RetryTimer
  <2>1. retry_ \in BOOLEAN /\ connect_ \in BOOLEAN /\ TypeOK
    BY DEF Types, TypeOK, ConnectorTypeOK
  <2>2. StartInLoop(retry_, connect_)
    BY <1>10 DEF RetryTimer
  <2>3. /\ pc' \in {"cb", "timers"} /\ cb' \in {cb, "failed"} /\ ret' \in {ret, "timers"}
        /\ UNCHANGED <<connect_, retry_, funcs, clientConnect, weak_ptr_, conns, shut, polled,
                      handling, batch, finishing, storing, tpc, nconnects, nreconnects, ncloses>>
    BY <1>10 DEF RetryTimer, FailureCallBackOr, CallBack
  <2> HIDE DEF connectorVars, clientVars, loopVars, calls
  <2>4. StartTyped
    BY <2>1, <2>2, StartTypes, Zenon
  <2>5. ConnectorTypeOK' /\ attempts' \in Nat /\ attempts' >= attempts
    <3>1. (connect_' = connect_) /\ (retry_' = retry_) /\ funcs' = funcs /\ handling' = handling
      BY <2>3
    <3>2. connect_' \in BOOLEAN /\ retry_' \in BOOLEAN
      BY <2>1, <3>1, Zenon
    <3> QED
      BY <2>1, <2>4, <3>1, <3>2, StartKeepsConnector
  <2>6. attempts \in Nat
    BY DEF Types, TypeOK, ConnectorTypeOK
  <2>7. TypeOK'
    BY <2>1, <2>3, <2>5, <2>6 DEF TypeOK
  <2> QED
    BY <2>3, <2>7 DEF Types
<1>11. CASE RunFunc
  <2>1. batch \in Seq(Function) /\ batch # <<>> /\ batch' = Tail(batch)
    BY <1>11 DEF RunFunc, Types
  <2>2. batch' \in Seq(Function) /\ Head(batch) \in Function
    BY <2>1, HasTail
  <2>3. UNCHANGED <<clientConnect, weak_ptr_, conns, shut, polled, handling, finishing, storing,
                    tpc, nconnects, nreconnects, ncloses>>
    BY <1>11 DEF RunFunc
  <2>4. /\ pc' \in {"cb", "funcs"} /\ cb' \in {cb, "failed"} /\ ret' \in {ret, "funcs"}
    BY <1>11 DEF RunFunc, FailureCallBackOr, CallBack
  <2>5. ConnectorTypeOK' /\ attempts' \in Nat /\ attempts' >= attempts
    <3>1. CASE Head(batch).op = "start"
      <4>1. DoStart(Head(batch).retry)
        BY <1>11, <3>1 DEF RunFunc
      <4>2. (connect_' = TRUE) /\ (retry_' = Head(batch).retry) /\ StartInLoop(Head(batch).retry, TRUE)
        BY <4>1 DEF DoStart
      <4>3. Head(batch).retry \in BOOLEAN
        BY <2>2 DEF Function
      <4>4. connect_' \in BOOLEAN /\ retry_' \in BOOLEAN
        BY <4>2, <4>3, Zenon
      <4>5. TypeOK
        BY DEF Types
      <4> HIDE DEF connectorVars, clientVars, loopVars, calls
      <4>6. StartTyped
        BY <4>2, <4>3, <4>5, StartTypes, Zenon
      <4>7. funcs' = funcs /\ handling' = handling
        BY <1>11, <2>3, <3>1 DEF RunFunc
      <4> QED
        BY <4>4, <4>5, <4>6, <4>7, StartKeepsConnector
    <3>2. CASE Head(batch).op = "stop"
      <4>1. StopInLoop /\ handling' = handling
        BY <1>11, <3>2 DEF RunFunc
      <4>2. attempts \in Nat /\ handling \in 0..attempts
        BY DEF Types, TypeOK, ConnectorTypeOK
      <4> HIDE DEF Types
      <4> QED
        BY <4>1, <4>2, StopTypes
    <3>3. CASE Head(batch).op = "reset"
      <4>1. dispatch_' = 0 /\ UNCHANGED <<state_, connect_, retry_, retry_time_, socket_, registered,
                         timers, attempts, failures, reported, funcs, handling>>
        BY <1>11, <3>3 DEF RunFunc, ReplaceDispatch
      <4>2. misdestroyed' \in BOOLEAN
        BY <1>11, <3>3, Zenon DEF RunFunc, ReplaceDispatch
      <4> QED
        BY <4>1, <4>2 DEF Types, TypeOK, ConnectorTypeOK
    <3> QED
      BY <2>2, <3>1, <3>2, <3>3 DEF Function
  <2> HIDE DEF connectorVars, clientVars, loopVars, calls
  <2>6. attempts \in Nat
    BY DEF Types, TypeOK, ConnectorTypeOK
  <2>7. TypeOK
    BY DEF Types
  <2>8. TypeOK'
    BY <2>3, <2>4, <2>5, <2>6, <2>7 DEF TypeOK
  <2> QED
    BY <2>2, <2>8 DEF Types
<1> QED
  BY <1>1, <1>2, <1>3, <1>4, <1>5, <1>6, <1>7, <1>8, <1>9, <1>10, <1>11 DEF LoopStep

\* A position of another thread is one of the five.
LEMMA ThreadTypes ==
  ASSUME Types, NEW t \in Threads, NEW p \in {"idle", "start", "store", "shutdown", "clear"},
         NEW retry \in BOOLEAN, tpc' = [tpc EXCEPT ![t] = <<p, retry>>]
  PROVE  tpc' \in [Threads -> {"idle", "start", "store", "shutdown", "clear"} \X BOOLEAN]
  BY DEF Types, TypeOK

\* A call of Connect() or Close(), a step of another thread and the close of a
\* connection keep the types.
LEMMA CallTypes ==
  ASSUME Types,
         Call \/ (\E t \in Threads : ThreadStep(t)) \/ (\E n \in conns : ConnectionCloses(n))
  PROVE  Types'
<1> USE DEF connectorVars, clientVars, loopVars, calls
<1>0. TypeOK /\ attempts \in Nat /\ handling \in 0..attempts /\ funcs \in Seq(Function)
  BY DEF Types, TypeOK, ConnectorTypeOK, Function
<1>1. CASE \E retry \in RetryModes : CallbackConnect(retry)
  <2>1. PICK retry \in RetryModes : CallbackConnect(retry)
    BY <1>1
  <2>2. retry \in BOOLEAN
    BY <2>1, CallsAssumption
  <2>3. (connect_' = TRUE) /\ (retry_' = retry) /\ StartInLoop(retry, TRUE)
    BY <2>1 DEF CallbackConnect, DoStart
  <2>4. connect_' \in BOOLEAN /\ retry_' \in BOOLEAN
    BY <2>2, <2>3, Zenon
  <2>5. StartTyped
    BY <1>0, <2>2, <2>3, StartTypes, Zenon
  <2>6. storing' \in BOOLEAN /\ clientConnect' \in BOOLEAN
    BY <1>0, <2>1, Zenon DEF CallbackConnect, TypeOK
  <2>7. /\ cb' \in {cb, "failed"} /\ nreconnects' \in 0..MaxReconnects
        /\ UNCHANGED <<funcs, weak_ptr_, conns, shut, pc, ret, polled, handling, batch,
                       finishing, tpc, nconnects, ncloses>>
    BY <1>0, <2>1, CallsAssumption DEF CallbackConnect, TypeOK
  <2> HIDE DEF connectorVars, clientVars, loopVars, calls
  <2>8. ConnectorTypeOK' /\ attempts' \in Nat /\ attempts' >= attempts
    <3>1. funcs' = funcs /\ handling' = handling /\ ConnectorTypeOK
      BY <1>0, <2>7 DEF TypeOK
    <3> QED
      BY <2>4, <2>5, <3>1 DEF StartTyped, ConnectorTypeOK
  <2>9. TypeOK'
    BY <1>0, <2>6, <2>7, <2>8 DEF TypeOK
  <2> QED
    BY <2>7, <2>9 DEF Types
<1>2. CASE CallbackClose
  <2>1. StopInLoop /\ shut' = shut \cup ({weak_ptr_} \ {0})
        /\ UNCHANGED <<weak_ptr_, conns, pc, ret, cb, polled, handling, batch, finishing,
                       storing, tpc, nconnects, nreconnects>>
    BY <1>2 DEF CallbackClose, CountClose
  <2>2. ncloses' \in 0..MaxCloses
    BY <1>0, <1>2, CallsAssumption DEF CallbackClose, CountClose, TypeOK
  <2>3. clientConnect' \in BOOLEAN
    BY <1>2, Zenon DEF CallbackClose
  <2>4. ConnectorTypeOK' /\ attempts' = attempts
    BY <1>0, <2>1, StopTypes
  <2> HIDE DEF connectorVars, clientVars, loopVars, calls
  <2>5. TypeOK'
    BY <1>0, <2>1, <2>2, <2>3, <2>4 DEF TypeOK
  <2> QED
    BY <2>1, <2>5 DEF Types
<1>3. CASE \E t \in Threads : \E retry \in RetryModes : Connect(t, retry)
  <2>1. PICK t \in Threads, retry \in RetryModes : Connect(t, retry)
    BY <1>3
  <2>2. tpc' \in [Threads -> {"idle", "start", "store", "shutdown", "clear"} \X BOOLEAN]
    BY <2>1, ThreadTypes, CallsAssumption DEF Connect
  <2>3. clientConnect' \in BOOLEAN
    BY <2>1, Zenon DEF Connect
  <2>4. nconnects' \in 0..MaxConnects
    BY <1>0, <2>1, CallsAssumption DEF Connect, TypeOK
  <2> QED
    BY <2>1, <2>2, <2>3, <2>4 DEF Connect, Types, TypeOK, ConnectorTypeOK
<1>4. CASE \E t \in Threads : Close(t)
  <2>1. PICK t \in Threads : Close(t)
    BY <1>4
  <2>2. tpc' \in [Threads -> {"idle", "start", "store", "shutdown", "clear"} \X BOOLEAN]
    BY <2>1, ThreadTypes DEF Close
  <2>3. PICK f \in Function : f = Func("stop", FALSE)
    BY FuncTypes
  <2>4. funcs' \in Seq(Function)
    BY <1>0, <2>1, <2>3, HasAppend DEF Close
  <2>5. ncloses' \in 0..MaxCloses /\ UNCHANGED <<nconnects, nreconnects>>
    BY <1>0, <2>1, CallsAssumption DEF Close, CountClose, TypeOK
  <2>6. UNCHANGED <<connectorVars, clientVars, loopVars>>
    BY <2>1 DEF Close
  <2> QED
    BY <2>2, <2>4, <2>5, <2>6 DEF Types, TypeOK, ConnectorTypeOK, Function
<1>5. CASE \E t \in Threads : ConnectStart(t)
  <2>1. PICK t \in Threads : ConnectStart(t)
    BY <1>5
  <2>2. tpc' \in [Threads -> {"idle", "start", "store", "shutdown", "clear"} \X BOOLEAN]
    BY <2>1, ThreadTypes DEF ConnectStart
  <2>3. tpc[t][2] \in BOOLEAN
    BY <1>0 DEF TypeOK
  <2>4. PICK f \in Function : f = Func("start", tpc[t][2])
    BY <2>3, FuncTypes
  <2>5. funcs' \in Seq(Function)
    BY <1>0, <2>1, <2>4, HasAppend DEF ConnectStart
  <2> QED
    BY <2>1, <2>2, <2>5 DEF ConnectStart, Types, TypeOK, ConnectorTypeOK, Function
<1>6. CASE \E t \in Threads : ConnectStore(t) \/ CloseClear(t)
  <2>1. PICK t \in Threads : ConnectStore(t) \/ CloseClear(t)
    BY <1>6
  <2>2. tpc' \in [Threads -> {"idle", "start", "store", "shutdown", "clear"} \X BOOLEAN]
    BY <2>1, ThreadTypes DEF ConnectStore, CloseClear
  <2>3. clientConnect' \in BOOLEAN
    BY <2>1, Zenon DEF ConnectStore, CloseClear
  <2>4. UNCHANGED <<connectorVars, funcs, weak_ptr_, conns, shut, loopVars, calls>>
    BY <2>1 DEF ConnectStore, CloseClear
  <2> QED
    BY <2>2, <2>3, <2>4 DEF Types, TypeOK, ConnectorTypeOK
<1>7. CASE \E t \in Threads : CloseShutDown(t)
  <2>1. PICK t \in Threads : CloseShutDown(t)
    BY <1>7
  <2>2. tpc' \in [Threads -> {"idle", "start", "store", "shutdown", "clear"} \X BOOLEAN]
    BY <2>1, ThreadTypes DEF CloseShutDown
  <2> QED
    BY <2>1, <2>2 DEF CloseShutDown, Types, TypeOK, ConnectorTypeOK
<1>8. CASE \E n \in conns : ConnectionCloses(n)
  BY <1>8 DEF ConnectionCloses, CallBack, Types, TypeOK, ConnectorTypeOK
<1> QED
  BY <1>1, <1>2, <1>3, <1>4, <1>5, <1>6, <1>7, <1>8 DEF Call, ThreadStep

\* Every step keeps the types.
LEMMA NextTypes == Types /\ [Next]_vars => Types'
<1> SUFFICES ASSUME Types, [Next]_vars PROVE Types'
  OBVIOUS
<1>1. CASE LoopStep \/ TakeTimer
  BY <1>1, LoopTypes
<1>2. CASE Call \/ (\E t \in Threads : ThreadStep(t)) \/ (\E n \in conns : ConnectionCloses(n))
  BY <1>2, CallTypes
<1>3. CASE UNCHANGED vars
  BY <1>3 DEF vars, connectorVars, clientVars, loopVars, calls, Types, TypeOK, ConnectorTypeOK
<1> QED
  BY <1>1, <1>2, <1>3 DEF Next

\* The types hold of every behaviour.
THEOREM TypesHold == Spec => []Types
  BY InitTypes, NextTypes, PTL DEF Spec

-----------------------------------------------------------------------------
(* Stop().                                                                 *)

\* For every number of threads, calls and retries: while connect_ stays FALSE
\* the connector makes no connect(), whatever timers are still set
\* (tcp_connector.cc:61-81).
THEOREM StoppedStaysStopped == Spec => StopHolds
<1>1. [Next]_vars => [~connect_ /\ ~connect_' => attempts' = attempts]_vars
  <2> SUFFICES ASSUME Next, ~connect_, ~connect_' PROVE attempts' = attempts
    BY DEF vars
  <2> USE DEF connectorVars
  <2>1. CASE RetryTimer
    BY <2>1 DEF RetryTimer, StartInLoop
  <2>2. CASE LoopStep /\ ~RetryTimer
    BY <2>2 DEF LoopStep, Poll, EndTimers, NoEvent, HandleEventFailure, HandleEventFails,
                NewConnection, HandleEventConnected, Return, HandleEventFinish, SwapFuncs,
                RunFunc, DoStart, StopInLoop, EndFuncs
  <2>3. CASE Call
    BY <2>3 DEF Call, CallbackConnect, DoStart, CallbackClose, StopInLoop, Connect, Close
  <2>4. CASE TakeTimer \/ (\E t \in Threads : ThreadStep(t)) \/ (\E n \in conns : ConnectionCloses(n))
    BY <2>4 DEF TakeTimer, ThreadStep, ConnectStart, ConnectStore, CloseShutDown, CloseClear,
                ConnectionCloses
  <2> QED
    BY <2>1, <2>2, <2>3, <2>4 DEF Next
<1> QED
  BY <1>1, PTL DEF Spec, StopHolds

-----------------------------------------------------------------------------
(* The inductive invariant.                                                *)

\* The initial state satisfies it.
LEMMA InitCInv == Init => CInv
<1> SUFFICES ASSUME Init PROVE CInv
  OBVIOUS
<1>1. Types
  BY InitTypes
<1>2. /\ pc = "poll" /\ polled = 0 /\ handling = 0 /\ ~finishing /\ timers = 0 /\ dispatch_ = 0
      /\ state_ = "kDisConnected" /\ registered = {} /\ ~misdestroyed
      /\ batch = <<>> /\ funcs = <<>>
  BY DEF Init, ConnectorInit
<1>3. ~Has(batch, "reset") /\ AtMostOne(batch, "reset")
      /\ ~Has(funcs, "reset") /\ AtMostOne(funcs, "reset")
  BY <1>2, HasEmpty
<1> QED
  BY <1>1, <1>2, <1>3 DEF CInv, BatchInv, PollInv, HandlingInv, ResetInv, TimerInv,
     ConnectingInv, Where, ResetSoon

\* How StartInLoop() leaves a connector that was at rest: connecting with one
\* Dispatch, or as it was, with a timer at most.
StartOutcome ==
    /\ ~misdestroyed'
    /\ \/ /\ state_' = "kConnecting"
          /\ dispatch_' # 0 /\ socket_' = dispatch_' /\ registered' = {dispatch_'}
          /\ timers' = 0
       \/ /\ state_' # "kConnecting"
          /\ dispatch_' = 0 /\ registered' = {}
          /\ timers' = 0 \/ (timers' = 1 /\ state_' = "kDisConnected")

\* StartInLoop() on a connector at rest.
LEMMA StartFromRest ==
  ASSUME CInv, AtRest, NEW retrying \in BOOLEAN, StartInLoop(retrying, TRUE)
  PROVE  StartOutcome
<1>1. /\ dispatch_ = 0 /\ timers = 0 /\ state_ # "kConnecting" /\ registered = {}
      /\ ~misdestroyed /\ attempts \in Nat
  BY DEF CInv, AtRest, ConnectingInv, Types, TypeOK, ConnectorTypeOK
<1>2. CASE ConnectInProgress
  <2>1. /\ dispatch_' = attempts + 1 /\ socket_' = attempts + 1 /\ state_' = "kConnecting"
        /\ registered' = registered \cup {attempts + 1} /\ timers' = timers
        /\ ~misdestroyed'
    BY <1>1, <1>2 DEF ConnectInProgress, Connecting, ReplaceDispatch
  <2> QED
    BY <1>1, <2>1 DEF StartOutcome
<1>3. CASE ConnectRefused(retrying, TRUE)
  <2>1. /\ dispatch_' = dispatch_ /\ registered' = registered /\ (misdestroyed' = misdestroyed)
        /\ state_' = "kDisConnected" /\ timers' \in {timers, timers + 1}
    BY <1>3 DEF ConnectRefused, Retry
  <2> QED
    BY <1>1, <2>1 DEF StartOutcome
<1>4. CASE ConnectFatal
  <2>1. /\ dispatch_' = dispatch_ /\ registered' = registered /\ (misdestroyed' = misdestroyed)
        /\ state_' = state_ /\ timers' = timers
    BY <1>4 DEF ConnectFatal
  <2> QED
    BY <1>1, <2>1 DEF StartOutcome
<1> QED
  BY <1>2, <1>3, <1>4 DEF StartInLoop

\* A start from rest keeps the invariant if the loop is in order.
LEMMA AfterStart ==
  ASSUME Types', StartOutcome, connect_', BatchInv', PollInv', pc' # "retry",
         handling' = 0, ~finishing',
         ~Has(batch', "reset"), ~Has(funcs', "reset"),
         AtMostOne(batch', "reset"), AtMostOne(funcs', "reset")
  PROVE  CInv'
<1>1. HandlingInv' /\ ResetInv'
  BY DEF HandlingInv, ResetInv
<1>2. TimerInv'
  BY DEF StartOutcome, TimerInv
<1>3. ConnectingInv'
  BY DEF StartOutcome, ConnectingInv
<1> QED
  BY <1>1, <1>2, <1>3 DEF CInv

\* StopInLoop() keeps the invariant.
LEMMA StopKeeps ==
  ASSUME CInv, Types', StopInLoop, pc # "retry",
         UNCHANGED <<pc, ret, polled, handling, finishing>>,
         batch = <<>> => batch' = <<>>,
         Has(batch', "reset") <=> Has(batch, "reset"), AtMostOne(batch', "reset")
  PROVE  CInv'
<1>1. UNCHANGED <<pc, ret, polled, handling, timers, dispatch_, socket_>>
      /\ (finishing' = finishing) /\ (misdestroyed' = misdestroyed)
  BY DEF StopInLoop
<1>2. CASE state_ = "kConnecting"
  <2>1. /\ dispatch_ # 0 /\ registered = {dispatch_} /\ timers = 0 /\ ~misdestroyed
        /\ ~Has(funcs, "reset") /\ ~Has(batch, "reset") /\ AtMostOne(funcs, "reset") /\ ~finishing
        /\ timers \in Nat
    BY <1>2 DEF CInv, ConnectingInv, TimerInv, ResetInv, HandlingInv, Types, TypeOK, ConnectorTypeOK
  <2>2. /\ state_' = "kDisConnected" /\ registered' = registered \ {dispatch_}
        /\ funcs' = Append(funcs, Func("reset", FALSE))
    BY <1>2, <2>1 DEF StopInLoop, ResetDispatch
  <2>3. funcs \in Seq(Function)
    BY DEF CInv, Types, TypeOK, ConnectorTypeOK, Function
  <2>4. PICK f \in Function : f = Func("reset", FALSE) /\ f.op = "reset"
    BY FuncTypes
  <2>5. Has(funcs', "reset") /\ AtMostOne(funcs', "reset")
    BY <2>1, <2>2, <2>3, <2>4, HasAppend
  <2>6. BatchInv' /\ PollInv' /\ HandlingInv'
    BY <1>1, <2>1, <2>2 DEF CInv, BatchInv, PollInv, HandlingInv, Where
  <2>7. ResetInv'
    BY <1>1, <2>1, <2>2, <2>5 DEF ResetInv
  <2>8. TimerInv' /\ ConnectingInv'
    BY <1>1, <2>1, <2>2 DEF TimerInv, ConnectingInv
  <2> QED
    BY <2>6, <2>7, <2>8 DEF CInv
<1>3. CASE state_ # "kConnecting"
  <2>1. UNCHANGED <<state_, registered, funcs>>
    BY <1>3 DEF StopInLoop
  <2>2. BatchInv' /\ PollInv' /\ HandlingInv' /\ ResetInv'
    BY <1>1, <2>1 DEF CInv, BatchInv, PollInv, HandlingInv, ResetInv, Where
  <2>3. TimerInv' /\ ConnectingInv'
    BY <1>1, <1>3, <2>1 DEF CInv, TimerInv, ConnectingInv, ResetSoon, Where
  <2> QED
    BY <2>2, <2>3 DEF CInv
<1> QED
  BY <1>2, <1>3

\* A retry timer finds no Dispatch and starts at most one attempt.
LEMMA RetryTimerKeeps == ASSUME CInv, Types', RetryTimer PROVE CInv'
<1>1. /\ pc = "retry" /\ StartInLoop(retry_, connect_) /\ FailureCallBackOr("timers")
      /\ (connect_' = connect_) /\ UNCHANGED <<funcs, polled, handling, batch>>
      /\ (finishing' = finishing)
  BY DEF RetryTimer
<1>2. /\ timers = 0 /\ dispatch_ = 0 /\ state_ = "kDisConnected" /\ registered = {}
      /\ batch = <<>> /\ polled = 0 /\ handling = 0 /\ ~finishing
      /\ ~Has(funcs, "reset") /\ ~Has(batch, "reset")
      /\ AtMostOne(funcs, "reset") /\ AtMostOne(batch, "reset")
  BY <1>1 DEF CInv, TimerInv, ResetSoon, Where, BatchInv, PollInv, HandlingInv, ResetInv,
              ConnectingInv
<1>3. pc' # "retry" /\ Where' = "timers"
  BY <1>1 DEF FailureCallBackOr, CallBack, Where
<1>4. BatchInv' /\ PollInv'
  BY <1>1, <1>2 DEF BatchInv, PollInv
<1>5. CASE connect_
  <2>1. retry_ \in BOOLEAN /\ connect_ = TRUE
    BY <1>5 DEF CInv, Types, TypeOK, ConnectorTypeOK
  <2>2. StartInLoop(retry_, TRUE) /\ AtRest
    BY <1>1, <1>2, <2>1 DEF AtRest
  <2>3. StartOutcome
    BY <2>1, <2>2, StartFromRest
  <2> QED
    BY <1>1, <1>2, <1>3, <1>4, <1>5, <2>3, AfterStart
<1>6. CASE ~connect_
  <2>1. UNCHANGED <<state_, dispatch_, socket_, registered, timers>> /\ (misdestroyed' = misdestroyed)
    BY <1>1, <1>6 DEF StartInLoop
  <2>2. HandlingInv' /\ ResetInv' /\ TimerInv'
    BY <1>1, <1>2, <1>3, <2>1 DEF HandlingInv, ResetInv, TimerInv
  <2>3. ConnectingInv'
    BY <1>2, <2>1 DEF CInv, ConnectingInv
  <2> QED
    BY <1>4, <2>2, <2>3 DEF CInv
<1> QED
  BY <1>5, <1>6

\* A queued function keeps the invariant if a Start() finds the connector at rest.
LEMMA RunFuncKeeps == ASSUME CInv, Types', RunFunc, StartsAtRest PROVE CInv'
<1>1. /\ pc = "funcs" /\ batch # <<>> /\ batch' = Tail(batch)
      /\ UNCHANGED <<polled, handling>> /\ (finishing' = finishing)
  BY DEF RunFunc
<1>2. batch \in Seq(Function) /\ handling = 0 /\ ~finishing
  BY <1>1 DEF CInv, Types, HandlingInv
<1>3. /\ Head(batch) \in Function
      /\ Has(batch', "reset") => Has(batch, "reset")
      /\ Head(batch).op = "reset" => Has(batch, "reset")
      /\ Has(batch, "reset") => Has(batch', "reset") \/ Head(batch).op = "reset"
      /\ AtMostOne(batch, "reset") => AtMostOne(batch', "reset")
      /\ AtMostOne(batch, "reset") /\ Head(batch).op = "reset" => ~Has(batch', "reset")
  BY <1>1, <1>2, HasTail
<1>4. AtMostOne(batch', "reset")
  BY <1>3 DEF CInv, ResetInv
<1>5. CASE Head(batch).op = "start"
  <2>1. DoStart(Head(batch).retry) /\ FailureCallBackOr("funcs") /\ funcs' = funcs
    BY <1>5 DEF RunFunc
  <2>2. connect_' /\ StartInLoop(Head(batch).retry, TRUE)
    BY <2>1 DEF DoStart
  <2>3. attempts' = attempts + 1 /\ attempts \in Nat
    BY <2>2 DEF StartInLoop, ConnectInProgress, ConnectRefused, ConnectFatal, CInv, Types,
                TypeOK, ConnectorTypeOK
  <2>4. AtRest
    BY <1>1, <2>3 DEF StartsAtRest
  <2>5. Head(batch).retry \in BOOLEAN
    BY <1>3 DEF Function
  <2>6. StartOutcome
    BY <2>2, <2>4, <2>5, StartFromRest
  <2>7. /\ ~Has(funcs', "reset") /\ ~Has(batch', "reset") /\ AtMostOne(funcs', "reset")
    BY <1>3, <2>1, <2>4 DEF CInv, ResetInv, AtRest
  <2>8. pc' # "retry" /\ Where' = "funcs"
    BY <1>1, <2>1 DEF FailureCallBackOr, CallBack, Where
  <2>9. BatchInv' /\ PollInv'
    BY <2>8 DEF BatchInv, PollInv
  <2> QED
    BY <1>1, <1>2, <1>4, <2>2, <2>6, <2>7, <2>8, <2>9, AfterStart
<1>6. CASE Head(batch).op = "stop"
  <2>1. StopInLoop /\ UNCHANGED <<pc, ret>>
    BY <1>6 DEF RunFunc
  <2> QED
    BY <1>1, <1>3, <1>4, <1>6, <2>1, StopKeeps
<1>7. CASE Head(batch).op = "reset"
  <2>1. /\ UNCHANGED <<state_, socket_, registered, timers, funcs, pc, ret>>
        /\ (connect_' = connect_) /\ dispatch_' = 0
        /\ misdestroyed' = (misdestroyed \/ (dispatch_ # 0 /\ dispatch_ # 0 /\ dispatch_ = handling))
    BY <1>7 DEF RunFunc, ReplaceDispatch
  <2>2. state_ # "kConnecting" /\ dispatch_ # 0 /\ ~Has(funcs, "reset") /\ ~Has(batch', "reset")
    BY <1>3, <1>7 DEF CInv, ResetInv
  <2>3. ~misdestroyed'
    BY <1>2, <2>1, <2>2 DEF CInv, ConnectingInv
  <2>4. BatchInv' /\ PollInv' /\ HandlingInv'
    BY <1>1, <1>2, <2>1 DEF BatchInv, PollInv, HandlingInv, Where
  <2>5. ResetInv' /\ TimerInv' /\ ConnectingInv'
    BY <1>1, <1>4, <2>1, <2>2, <2>3 DEF CInv, ResetInv, TimerInv, ConnectingInv
  <2> QED
    BY <2>4, <2>5 DEF CInv
<1> QED
  BY <1>3, <1>5, <1>6, <1>7 DEF Function

\* HandleEvent() ends the attempt: its Dispatch is out of the poller and a reset
\* is queued, which RunFuncs runs in this iteration.
LEMMA HandleEventKeeps == ASSUME CInv, Types', HandleEventFailure \/ NewConnection PROVE CInv'
<1>1. /\ pc = "event" /\ polled # 0 /\ polled = dispatch_ /\ state_ = "kConnecting"
      /\ ResetDispatch /\ UNCHANGED <<dispatch_, polled, batch>>
      /\ (misdestroyed' = misdestroyed)
  BY DEF HandleEventFailure, NewConnection, HandleEventFails, HandleEventConnected
<1>2. /\ dispatch_ # 0 /\ registered = {dispatch_} /\ timers = 0 /\ ~misdestroyed
      /\ ~Has(funcs, "reset") /\ ~Has(batch, "reset") /\ AtMostOne(funcs, "reset") /\ ~finishing
      /\ AtMostOne(batch, "reset") /\ handling = 0 /\ batch = <<>>
  BY <1>1 DEF CInv, ConnectingInv, TimerInv, ResetInv, HandlingInv, BatchInv, Where, Types,
              TypeOK, ConnectorTypeOK
<1>3. registered' = registered \ {dispatch_} /\ funcs' = Append(funcs, Func("reset", FALSE))
  BY <1>1, <1>2 DEF ResetDispatch
<1>4. funcs \in Seq(Function)
  BY DEF CInv, Types, TypeOK, ConnectorTypeOK, Function
<1>5. PICK f \in Function : f = Func("reset", FALSE) /\ f.op = "reset"
  BY FuncTypes
<1>6. Has(funcs', "reset") /\ AtMostOne(funcs', "reset")
  BY <1>2, <1>3, <1>4, <1>5, HasAppend
<1>7. Where' = "swap" /\ pc' # "retry" /\ (pc' # "cb" => handling' = 0)
      /\ handling' \in {0, polled}
  BY <1>1 DEF HandleEventFailure, NewConnection, FailureCallBackOr, CallBack, Where
<1>8. /\ state_' \in {"kDisConnected", "kConnected"}
      /\ timers' = 0 \/ (timers' = 1 /\ state_' = "kDisConnected")
  BY <1>2 DEF HandleEventFailure, HandleEventFails, Retry, NewConnection, HandleEventConnected
<1>9. pc' # "cb" => ~finishing'
  BY <1>2 DEF HandleEventFailure, NewConnection, CallBack
<1>10. BatchInv' /\ PollInv' /\ HandlingInv'
  BY <1>1, <1>2, <1>7, <1>8, <1>9 DEF BatchInv, PollInv, HandlingInv
<1>11. ResetInv'
  BY <1>1, <1>2, <1>6, <1>8 DEF ResetInv
<1>12. TimerInv'
  BY <1>6, <1>7, <1>8 DEF TimerInv, ResetSoon
<1>13. ConnectingInv'
  BY <1>1, <1>2, <1>3, <1>8 DEF ConnectingInv
<1> QED
  BY <1>10, <1>11, <1>12, <1>13 DEF CInv

\* The other steps of the loop thread keep the invariant.
LEMMA LoopKeeps ==
  ASSUME CInv, Types',
         \/ (\E n \in 0..attempts : Poll(n)) \/ TakeTimer \/ EndTimers \/ NoEvent \/ Return
         \/ SwapFuncs \/ EndFuncs \/ (\E n \in conns : ConnectionCloses(n))
  PROVE  CInv'
<1> USE DEF connectorVars
<1>1. CASE \E n \in 0..attempts : Poll(n)
  <2>1. UNCHANGED <<state_, dispatch_, socket_, registered, timers, funcs, ret, handling, batch>>
        /\ (connect_' = connect_) /\ (misdestroyed' = misdestroyed) /\ (finishing' = finishing)
        /\ pc = "poll" /\ pc' = "timers" /\ polled' \in {0} \cup registered
    BY <1>1 DEF Poll
  <2> QED
    BY <2>1 DEF CInv, BatchInv, PollInv, HandlingInv, ResetInv, TimerInv, ConnectingInv, Where, ResetSoon
<1>2. CASE TakeTimer
  <2>1. UNCHANGED <<state_, dispatch_, socket_, registered, polled, funcs, ret, handling, batch>>
        /\ (connect_' = connect_) /\ (misdestroyed' = misdestroyed) /\ (finishing' = finishing)
        /\ pc = "timers" /\ pc' = "retry" /\ timers > 0 /\ timers' = timers - 1 /\ timers \in Nat
    BY <1>2 DEF TakeTimer, CInv, Types, TypeOK, ConnectorTypeOK
  <2> QED
    BY <2>1 DEF CInv, BatchInv, PollInv, HandlingInv, ResetInv, TimerInv, ConnectingInv, Where, ResetSoon
<1>3. CASE EndTimers \/ NoEvent
  <2>1. UNCHANGED <<state_, dispatch_, socket_, registered, timers, polled, funcs, ret, handling, batch>>
        /\ (connect_' = connect_) /\ (misdestroyed' = misdestroyed) /\ (finishing' = finishing)
        /\ ((pc = "timers" /\ pc' = "event") \/ (pc = "event" /\ pc' = "swap"))
    BY <1>3 DEF EndTimers, NoEvent
  <2> QED
    BY <2>1 DEF CInv, BatchInv, PollInv, HandlingInv, ResetInv, TimerInv, ConnectingInv, Where, ResetSoon
<1>4. CASE EndFuncs
  <2>1. UNCHANGED <<state_, dispatch_, socket_, registered, timers, polled, funcs, ret, handling, batch>>
        /\ (connect_' = connect_) /\ (misdestroyed' = misdestroyed) /\ (finishing' = finishing)
        /\ pc = "funcs" /\ pc' = "poll" /\ batch = <<>>
    BY <1>4 DEF EndFuncs
  <2>2. ~Has(batch, "reset")
    BY <2>1, HasEmpty
  <2> QED
    BY <2>1, <2>2 DEF CInv, BatchInv, PollInv, HandlingInv, ResetInv, TimerInv, ConnectingInv, Where, ResetSoon
<1>5. CASE SwapFuncs
  <2>1. UNCHANGED <<state_, dispatch_, socket_, registered, timers, ret, handling>>
        /\ (connect_' = connect_) /\ (misdestroyed' = misdestroyed) /\ (finishing' = finishing)
        /\ pc = "swap" /\ pc' = "funcs" /\ polled' = 0 /\ batch' = funcs /\ funcs' = <<>>
    BY <1>5 DEF SwapFuncs
  <2>2. ~Has(funcs', "reset") /\ AtMostOne(funcs', "reset")
    BY <2>1, HasEmpty
  <2> QED
    BY <2>1, <2>2 DEF CInv, BatchInv, PollInv, HandlingInv, ResetInv, TimerInv, ConnectingInv, Where, ResetSoon
<1>6. CASE Return
  <2>1. UNCHANGED <<state_, dispatch_, registered, timers, polled, funcs, ret, batch>>
        /\ (connect_' = connect_) /\ (misdestroyed' = misdestroyed) /\ ~finishing'
        /\ pc = "cb" /\ pc' = ret /\ handling' = 0
        /\ (~finishing => socket_' = socket_)
    BY <1>6 DEF Return, HandleEventFinish
  <2>2. ret \in {"timers", "swap", "funcs"}
    BY DEF CInv, Types, TypeOK
  <2>3. BatchInv' /\ PollInv' /\ HandlingInv' /\ ResetInv'
    BY <2>1, <2>2 DEF CInv, BatchInv, PollInv, HandlingInv, ResetInv, Where
  <2>4. TimerInv' /\ ConnectingInv'
    BY <2>1, <2>2 DEF CInv, HandlingInv, TimerInv, ConnectingInv, Where, ResetSoon
  <2> QED
    BY <2>3, <2>4 DEF CInv
<1>7. CASE \E n \in conns : ConnectionCloses(n)
  <2>1. UNCHANGED <<state_, dispatch_, socket_, registered, timers, polled, funcs, handling, batch>>
        /\ (connect_' = connect_) /\ (misdestroyed' = misdestroyed) /\ (finishing' = finishing)
        /\ pc \in {"timers", "swap", "funcs", "cb"} /\ pc' = "cb"
        /\ ret' = (IF pc = "cb" THEN ret ELSE pc)
    BY <1>7 DEF ConnectionCloses, CallBack
  <2> QED
    BY <2>1 DEF CInv, BatchInv, PollInv, HandlingInv, ResetInv, TimerInv, ConnectingInv, Where, ResetSoon
<1> QED
  BY <1>1, <1>2, <1>3, <1>4, <1>5, <1>6, <1>7

\* Connect() and Close() in a callback keep the invariant if Connect() finds the
\* connector at rest.
LEMMA CallbackKeeps ==
  ASSUME CInv, Types', StartsAtRest,
         CallbackClose \/ \E retry \in RetryModes : CallbackConnect(retry)
  PROVE  CInv'
<1>1. CASE CallbackClose
  <2>1. StopInLoop /\ UNCHANGED <<pc, ret, polled, handling, finishing, batch>> /\ pc = "cb"
    BY <1>1 DEF CallbackClose, loopVars
  <2>2. AtMostOne(batch, "reset")
    BY DEF CInv, ResetInv
  <2> QED
    BY <2>1, <2>2, StopKeeps
<1>2. ASSUME NEW retry \in RetryModes, CallbackConnect(retry) PROVE CInv'
  <2>1. /\ pc = "cb" /\ DoStart(retry)
        /\ UNCHANGED <<funcs, pc, ret, polled, handling, batch>> /\ (finishing' = finishing)
    BY <1>2 DEF CallbackConnect
  <2>2. connect_' /\ StartInLoop(retry, TRUE) /\ retry \in BOOLEAN
    BY <2>1, CallsAssumption DEF DoStart
  <2>3. attempts' = attempts + 1 /\ attempts \in Nat
    BY <2>2 DEF StartInLoop, ConnectInProgress, ConnectRefused, ConnectFatal, CInv, Types,
                TypeOK, ConnectorTypeOK
  <2>4. AtRest
    BY <2>1, <2>3 DEF StartsAtRest
  <2>5. StartOutcome
    BY <2>2, <2>4, StartFromRest
  <2>6. /\ ~Has(funcs, "reset") /\ ~Has(batch, "reset")
        /\ AtMostOne(funcs, "reset") /\ AtMostOne(batch, "reset")
        /\ handling = 0 /\ ~finishing
    BY <2>4 DEF CInv, ResetInv, HandlingInv, AtRest
  <2>7. Where \in {"timers", "retry", "event"} => polled = 0
    BY <2>4 DEF CInv, PollInv, AtRest
  <2>8. BatchInv' /\ PollInv'
    BY <2>1, <2>7 DEF CInv, BatchInv, PollInv, Where
  <2> QED
    BY <2>1, <2>2, <2>5, <2>6, <2>8, AfterStart
<1> QED
  BY <1>1, <1>2

\* Other threads touch nothing the invariant is about but the queue, to which
\* they add no reset.
LEMMA ThreadKeeps ==
  ASSUME CInv, Types', NEW t \in Threads,
         Close(t) \/ ThreadStep(t) \/ \E retry \in RetryModes : Connect(t, retry)
  PROVE  CInv'
<1>1. /\ UNCHANGED <<state_, dispatch_, socket_, registered, timers>>
      /\ (connect_' = connect_) /\ (misdestroyed' = misdestroyed)
      /\ UNCHANGED <<pc, ret, polled, handling, batch>> /\ (finishing' = finishing)
  BY DEF Close, ThreadStep, Connect, ConnectStart, ConnectStore, CloseShutDown, CloseClear,
         connectorVars, loopVars
<1>2. funcs \in Seq(Function) /\ tpc[t][2] \in BOOLEAN
  BY DEF CInv, Types, TypeOK, ConnectorTypeOK, Function
<1>3. /\ Has(funcs', "reset") <=> Has(funcs, "reset")
      /\ AtMostOne(funcs, "reset") => AtMostOne(funcs', "reset")
  <2>1. CASE funcs' = funcs
    BY <2>1
  <2>2. ASSUME NEW f \in Function, f.op # "reset", funcs' = Append(funcs, f)
        PROVE  /\ Has(funcs', "reset") <=> Has(funcs, "reset")
               /\ AtMostOne(funcs, "reset") => AtMostOne(funcs', "reset")
    BY <1>2, <2>2, HasAppend
  <2>3. CASE ConnectStart(t)
    <3>1. PICK f \in Function : f = Func("start", tpc[t][2]) /\ f.op = "start"
      BY <1>2, FuncTypes
    <3> QED
      BY <2>2, <2>3, <3>1 DEF ConnectStart
  <2>4. CASE Close(t)
    <3>1. PICK f \in Function : f = Func("stop", FALSE) /\ f.op = "stop"
      BY FuncTypes
    <3> QED
      BY <2>2, <2>4, <3>1 DEF Close
  <2> QED
    BY <2>1, <2>3, <2>4 DEF ThreadStep, Connect, ConnectStore, CloseShutDown, CloseClear
<1>4. BatchInv' /\ PollInv' /\ HandlingInv' /\ ConnectingInv'
  BY <1>1 DEF CInv, BatchInv, PollInv, HandlingInv, ConnectingInv, Where
<1>5. ResetInv'
  BY <1>1, <1>3 DEF CInv, ResetInv
<1>6. TimerInv'
  BY <1>1, <1>3 DEF CInv, TimerInv, ResetSoon, Where
<1> QED
  BY <1>4, <1>5, <1>6 DEF CInv

\* A step in which a Start() finds the connector at rest keeps the invariant.
LEMMA NextCInv == CInv /\ [Next]_vars /\ [StartsAtRest]_vars => CInv'
<1> SUFFICES ASSUME CInv, [Next]_vars, [StartsAtRest]_vars PROVE CInv'
  OBVIOUS
<1>0. Types'
  BY NextTypes DEF CInv
<1>1. CASE UNCHANGED vars
  BY <1>0, <1>1 DEF vars, connectorVars, loopVars, CInv, BatchInv, PollInv, HandlingInv, ResetInv,
                    TimerInv, ConnectingInv, Where, ResetSoon
<1>2. CASE Next /\ StartsAtRest
  <2>1. CASE RetryTimer
    BY <1>0, <2>1, RetryTimerKeeps
  <2>2. CASE RunFunc
    BY <1>0, <1>2, <2>2, RunFuncKeeps
  <2>3. CASE HandleEventFailure \/ NewConnection
    BY <1>0, <2>3, HandleEventKeeps
  <2>4. CASE \/ (\E n \in 0..attempts : Poll(n)) \/ TakeTimer \/ EndTimers \/ NoEvent \/ Return
             \/ SwapFuncs \/ EndFuncs \/ (\E n \in conns : ConnectionCloses(n))
    BY <1>0, <2>4, LoopKeeps
  <2>5. CASE CallbackClose \/ \E retry \in RetryModes : CallbackConnect(retry)
    BY <1>0, <1>2, <2>5, CallbackKeeps
  <2>6. CASE \E t \in Threads : Close(t) \/ ThreadStep(t) \/ \E retry \in RetryModes : Connect(t, retry)
    BY <1>0, <2>6, ThreadKeeps
  <2> QED
    BY <1>2, <2>1, <2>2, <2>3, <2>4, <2>5, <2>6 DEF Next, LoopStep, Call
<1>3. CASE Next /\ UNCHANGED vars
  BY <1>1, <1>3
<1> QED
  BY <1>1, <1>2, <1>3

\* The invariant gives OneAttempt.
LEMMA CInvOneAttempt == CInv => OneAttempt
<1> SUFFICES ASSUME CInv PROVE OneAttempt
  OBVIOUS
<1>1. TypeOK /\ timers \in Nat
  BY DEF CInv, Types, TypeOK, ConnectorTypeOK
<1>2. NoDanglingDispatch
  BY DEF CInv, ConnectingInv, PollInv, Where, NoDanglingDispatch
<1> QED
  BY <1>1, <1>2 DEF CInv, ConnectingInv, TimerInv, OneAttempt

\* For every number of threads, calls, failures and retries, and whichever callbacks
\* call Connect() and Close(): as long as each Start() finds the connector at rest,
\* there is one attempt at a time, its Dispatch is destroyed neither while the poller
\* has it nor inside its HandleEvent, and at most one retry timer is set
\* (tcp_connector.cc:47-191).
THEOREM OneAttemptFromRest == Spec /\ [][StartsAtRest]_vars => []OneAttempt
  BY InitCInv, NextCInv, CInvOneAttempt, PTL DEF Spec

-----------------------------------------------------------------------------
(* A client that keeps to the contract: it calls Connect() once, and again *)
(* only in close_cb_, and there only if the Dispatch of the attempt that   *)
(* made the connection is gone.  In an early close_cb_, that of a send     *)
(* which fails inside connection_cb_, a Connect() would put a new Dispatch *)
(* in the place of the one whose HandleEvent is running.                   *)

OneClient == MaxConnects <= 1 /\ ConnectIn \subseteq {"closed"}

\* A close_cb_ that calls Connect() does so once: the connector is still where the
\* connection that closed had left it.
ReconnectsOnce == nreconnects' # nreconnects => state_ = "kConnected"

Starting(t) == tpc[t][1] = "start"

\* The first Start() is in one place only until it runs, and nothing has been tried
\* before it has.
FirstStart ==
    /\ \A t \in Threads : Starting(t) =>
          attempts = 0 /\ nconnects = 1 /\ ~Has(funcs, "start") /\ ~Has(batch, "start")
    /\ \A t, u \in Threads : Starting(t) /\ Starting(u) => t = u
    /\ Has(funcs, "start") => attempts = 0 /\ nconnects = 1 /\ ~Has(batch, "start")
    /\ Has(batch, "start") => attempts = 0 /\ nconnects = 1
    /\ AtMostOne(funcs, "start") /\ AtMostOne(batch, "start")
    /\ attempts # 0 => nconnects = 1
    /\ timers > 0 \/ pc = "retry" => attempts # 0

\* There is one connection at most, the one the connector last made, and a Dispatch that
\* is left is the one it was made with; in close_cb_ the connection is gone, and until
\* Connect() is called again the connector still says kConnected.
OneConnection ==
    /\ conns # {} => state_ = "kConnected"
    /\ \A m, n \in conns : m = n
    /\ \A n \in conns : dispatch_ \in {0, n}
    /\ pc = "cb" /\ cb = "closed" =>
          /\ conns = {} /\ attempts # 0
          /\ state_ = "kConnected" => dispatch_ = 0
          /\ nreconnects = 0 => state_ = "kConnected"

KInv == CInv /\ FirstStart /\ OneConnection

\* The initial state satisfies it.
LEMMA InitKInv == Init => KInv
<1> SUFFICES ASSUME Init PROVE KInv
  OBVIOUS
<1>1. CInv
  BY InitCInv
<1>2. /\ pc = "poll" /\ timers = 0 /\ attempts = 0 /\ conns = {}
      /\ batch = <<>> /\ funcs = <<>> /\ tpc = [t \in Threads |-> <<"idle", FALSE>>]
  BY DEF Init, ConnectorInit
<1>3. ~Has(batch, "start") /\ AtMostOne(batch, "start")
      /\ ~Has(funcs, "start") /\ AtMostOne(funcs, "start")
  BY <1>2, HasEmpty
<1>4. \A t \in Threads : ~Starting(t)
  BY <1>2 DEF Starting
<1> QED
  BY <1>1, <1>2, <1>3, <1>4 DEF KInv, FirstStart, OneConnection

\* Such a client starts the connector at rest only.
LEMMA ClientStartsAtRest ==
  ASSUME OneClient, KInv, Next, ReconnectsOnce
  PROVE  StartsAtRest
<1> SUFFICES ASSUME attempts' # attempts, pc # "retry" PROVE AtRest
  BY DEF StartsAtRest
<1>0. timers \in Nat /\ attempts \in Nat /\ dispatch_ \in 0..attempts /\ batch \in Seq(Function)
  BY DEF KInv, CInv, Types, TypeOK, ConnectorTypeOK
<1>1. CASE RunFunc
  <2>1. batch # <<>> /\ Head(batch).op = "start"
    BY <1>1 DEF RunFunc, StopInLoop
  <2>2. Has(batch, "start")
    BY <1>0, <2>1, HasTail
  <2> QED
    BY <1>0, <2>2 DEF KInv, FirstStart, AtRest
<1>2. CASE \E retry \in RetryModes : CallbackConnect(retry)
  <2>1. pc = "cb" /\ cb = "closed" /\ nreconnects' = nreconnects + 1 /\ nreconnects \in Nat
    BY <1>2 DEF CallbackConnect, OneClient, KInv, CInv, Types, TypeOK
  <2>2. state_ = "kConnected" /\ dispatch_ = 0
    BY <2>1 DEF ReconnectsOnce, KInv, OneConnection
  <2> QED
    BY <1>0, <2>2 DEF KInv, CInv, TimerInv, AtRest
<1>3. ~RetryTimer
  BY DEF RetryTimer
<1>4. ASSUME LoopStep, ~RetryTimer, ~RunFunc PROVE attempts' = attempts
  BY <1>4 DEF LoopStep, Poll, EndTimers, NoEvent, HandleEventFailure, HandleEventFails,
              NewConnection, HandleEventConnected, Return, HandleEventFinish, SwapFuncs,
              EndFuncs, connectorVars
<1>5. ASSUME TakeTimer \/ CallbackClose \/ (\E t \in Threads : ThreadStep(t))
             \/ (\E n \in conns : ConnectionCloses(n))
             \/ (\E t \in Threads : Close(t) \/ \E retry \in RetryModes : Connect(t, retry))
      PROVE  attempts' = attempts
  BY <1>5 DEF TakeTimer, CallbackClose, StopInLoop, ThreadStep, ConnectStart, ConnectStore,
              CloseShutDown, CloseClear, ConnectionCloses, Close, Connect, connectorVars
<1> QED
  BY <1>1, <1>2, <1>3, <1>4, <1>5 DEF Next, Call

\* A step that starts no attempt and queues no Start() leaves the first one in its place.
LEMMA FirstStartKept ==
  ASSUME FirstStart, UNCHANGED <<attempts, tpc, nconnects>>,
         Has(funcs', "start") => Has(funcs, "start"), AtMostOne(funcs', "start"),
         Has(batch', "start") => Has(batch, "start"), AtMostOne(batch', "start"),
         timers' > 0 \/ pc' = "retry" => attempts # 0
  PROVE  FirstStart'
  BY DEF FirstStart, Starting

\* ResetDispatch() queues no Start().
LEMMA ResetQueuesNoStart ==
  ASSUME KInv, ResetDispatch \/ funcs' = funcs
  PROVE  /\ Has(funcs', "start") => Has(funcs, "start")
         /\ AtMostOne(funcs', "start")
<1>1. funcs \in Seq(Function) /\ AtMostOne(funcs, "start")
  BY DEF KInv, FirstStart, CInv, Types, TypeOK, ConnectorTypeOK, Function
<1>2. PICK f \in Function : f = Func("reset", FALSE) /\ f.op = "reset"
  BY FuncTypes
<1>3. funcs' = funcs \/ funcs' = Append(funcs, f)
  BY <1>2 DEF ResetDispatch
<1> QED
  BY <1>1, <1>2, <1>3, HasAppend

\* Until the first Start() has run it is in one place: the steps of the loop thread.
LEMMA LoopFirstStart == ASSUME KInv, LoopStep \/ TakeTimer PROVE FirstStart'
<1> USE DEF connectorVars, calls
<1>0. /\ FirstStart /\ AtMostOne(funcs, "start") /\ AtMostOne(batch, "start")
      /\ timers \in Nat /\ attempts \in Nat /\ batch \in Seq(Function)
  BY DEF KInv, FirstStart, CInv, Types, TypeOK, ConnectorTypeOK
<1>1. CASE RunFunc
  <2>1. /\ pc = "funcs" /\ batch # <<>> /\ batch' = Tail(batch)
        /\ UNCHANGED <<tpc, nconnects>>
    BY <1>1 DEF RunFunc
  <2>2. /\ Head(batch) \in Function
        /\ Has(batch', "start") => Has(batch, "start")
        /\ Head(batch).op = "start" => Has(batch, "start")
        /\ AtMostOne(batch', "start")
        /\ Head(batch).op = "start" => ~Has(batch', "start")
    BY <1>0, <2>1, HasTail
  <2>3. CASE Head(batch).op = "start"
    <3>1. funcs' = funcs /\ FailureCallBackOr("funcs")
      BY <1>1, <2>3 DEF RunFunc
    <3>2. attempts = 0 /\ nconnects = 1 /\ ~Has(funcs, "start")
          /\ \A t \in Threads : ~Starting(t)
      BY <1>0, <2>2, <2>3 DEF FirstStart
    <3>3. attempts' = attempts + 1
      BY <1>1, <2>3 DEF RunFunc, DoStart, StartInLoop, ConnectInProgress, ConnectRefused,
                        ConnectFatal
    <3> QED
      BY <1>0, <2>1, <2>2, <2>3, <3>1, <3>2, <3>3 DEF FirstStart, Starting
  <2>4. CASE Head(batch).op = "stop"
    <3>1. UNCHANGED <<timers, attempts, pc>> /\ (ResetDispatch \/ funcs' = funcs)
      BY <1>1, <2>4 DEF RunFunc, StopInLoop
    <3>2. (Has(funcs', "start") => Has(funcs, "start")) /\ AtMostOne(funcs', "start")
      BY <3>1, ResetQueuesNoStart
    <3>3. timers' > 0 \/ pc' = "retry" => attempts # 0
      BY <1>0, <3>1 DEF FirstStart
    <3> QED
      BY <1>0, <2>1, <2>2, <3>1, <3>2, <3>3, FirstStartKept
  <2>5. CASE Head(batch).op = "reset"
    <3>1. UNCHANGED <<timers, attempts, pc, funcs>>
      BY <1>1, <2>5 DEF RunFunc
    <3>2. timers' > 0 \/ pc' = "retry" => attempts # 0
      BY <1>0, <3>1 DEF FirstStart
    <3> QED
      BY <1>0, <2>1, <2>2, <3>1, <3>2, FirstStartKept
  <2> QED
    BY <2>2, <2>3, <2>4, <2>5 DEF Function
<1>2. CASE RetryTimer
  <2>1. UNCHANGED <<funcs, batch, tpc, nconnects>> /\ pc = "retry"
        /\ (attempts' = attempts \/ attempts' = attempts + 1)
    BY <1>2 DEF RetryTimer, StartInLoop, ConnectInProgress, ConnectRefused, ConnectFatal
  <2>2. attempts # 0 /\ attempts' # 0 /\ nconnects = 1
    BY <1>0, <2>1 DEF FirstStart
  <2> QED
    BY <1>0, <2>1, <2>2 DEF FirstStart, Starting
<1>3. CASE HandleEventFailure \/ NewConnection
  <2>1. /\ UNCHANGED <<attempts, batch, tpc, nconnects>> /\ ResetDispatch
        /\ pc = "event" /\ polled # 0 /\ polled = dispatch_ /\ dispatch_ \in 0..attempts
    BY <1>3 DEF HandleEventFailure, NewConnection, HandleEventFails, HandleEventConnected, KInv,
                CInv, Types, TypeOK, ConnectorTypeOK
  <2>2. (Has(funcs', "start") => Has(funcs, "start")) /\ AtMostOne(funcs', "start")
    BY <2>1, ResetQueuesNoStart
  <2>3. attempts # 0
    BY <1>0, <2>1
  <2> QED
    BY <1>0, <2>1, <2>2, <2>3, FirstStartKept
<1>4. CASE SwapFuncs
  <2>1. /\ UNCHANGED <<attempts, timers, tpc, nconnects>> /\ batch' = funcs /\ funcs' = <<>>
        /\ pc' = "funcs"
    BY <1>4 DEF SwapFuncs
  <2>2. ~Has(funcs', "start") /\ AtMostOne(funcs', "start")
    BY <2>1, HasEmpty
  <2> QED
    BY <1>0, <2>1, <2>2 DEF FirstStart, Starting
<1>5. CASE (\E n \in 0..attempts : Poll(n)) \/ TakeTimer \/ EndTimers \/ NoEvent \/ Return \/ EndFuncs
  <2>1. /\ UNCHANGED <<attempts, funcs, batch, tpc, nconnects>>
        /\ (timers' = timers \/ (timers > 0 /\ timers' = timers - 1))
        /\ (pc' = "retry" => timers > 0)
    BY <1>5 DEF Poll, TakeTimer, EndTimers, NoEvent, Return, HandleEventFinish, EndFuncs, KInv,
                CInv, Types, TypeOK
  <2>2. timers' > 0 \/ pc' = "retry" => attempts # 0
    BY <1>0, <2>1 DEF FirstStart
  <2> QED
    BY <1>0, <2>1, <2>2, FirstStartKept
<1> QED
  BY <1>1, <1>2, <1>3, <1>4, <1>5 DEF LoopStep

\* ... and the steps of callers and threads, of which one may call Connect() once.
LEMMA CallFirstStart ==
  ASSUME OneClient, KInv,
         Call \/ (\E t \in Threads : ThreadStep(t)) \/ (\E n \in conns : ConnectionCloses(n))
  PROVE  FirstStart'
<1> USE DEF connectorVars, loopVars, calls
<1>0. /\ FirstStart /\ AtMostOne(funcs, "start") /\ AtMostOne(batch, "start")
      /\ timers \in Nat /\ attempts \in Nat /\ funcs \in Seq(Function)
      /\ tpc \in [Threads -> {"idle", "start", "store", "shutdown", "clear"} \X BOOLEAN]
      /\ nconnects \in Nat
  BY DEF KInv, FirstStart, CInv, Types, TypeOK, ConnectorTypeOK, Function
<1>1. CASE \E retry \in RetryModes : CallbackConnect(retry)
  <2>1. /\ UNCHANGED <<funcs, batch, tpc, nconnects>> /\ pc = "cb" /\ pc' = pc /\ cb = "closed"
        /\ attempts' = attempts + 1
    BY <1>1 DEF CallbackConnect, OneClient, DoStart, StartInLoop, ConnectInProgress,
                ConnectRefused, ConnectFatal
  <2>2. attempts # 0 /\ attempts' # 0 /\ nconnects = 1
    BY <1>0, <2>1 DEF KInv, OneConnection, FirstStart
  <2> QED
    BY <1>0, <2>1, <2>2 DEF FirstStart, Starting
<1>2. CASE CallbackClose
  <2>1. UNCHANGED <<timers, attempts, pc, batch, tpc, nconnects>> /\ (ResetDispatch \/ funcs' = funcs)
    BY <1>2 DEF CallbackClose, CountClose, StopInLoop
  <2>2. (Has(funcs', "start") => Has(funcs, "start")) /\ AtMostOne(funcs', "start")
    BY <2>1, ResetQueuesNoStart
  <2>3. timers' > 0 \/ pc' = "retry" => attempts # 0
    BY <1>0, <2>1 DEF FirstStart
  <2> QED
    BY <1>0, <2>1, <2>2, <2>3, FirstStartKept
<1>3. CASE \E n \in conns : ConnectionCloses(n)
  <2>1. UNCHANGED <<timers, attempts, funcs, batch, tpc, nconnects>> /\ pc' = "cb"
    BY <1>3 DEF ConnectionCloses, CallBack
  <2>2. timers' > 0 \/ pc' = "retry" => attempts # 0
    BY <1>0, <2>1 DEF FirstStart
  <2> QED
    BY <1>0, <2>1, <2>2, FirstStartKept
<1>4. CASE \E t \in Threads : \E retry \in RetryModes : Connect(t, retry)
  <2>1. PICK t \in Threads, retry \in RetryModes : Connect(t, retry)
    BY <1>4
  <2>2. /\ UNCHANGED <<timers, attempts, funcs, batch, pc>>
        /\ nconnects < MaxConnects /\ nconnects' = nconnects + 1
        /\ tpc' = [tpc EXCEPT ![t] = <<"start", retry>>]
    BY <2>1 DEF Connect
  <2>3. nconnects = 0 /\ nconnects' = 1
    BY <1>0, <2>2, CallsAssumption DEF OneClient
  <2>4. attempts = 0 /\ ~Has(funcs, "start") /\ ~Has(batch, "start")
        /\ \A u \in Threads : ~Starting(u)
    BY <1>0, <2>3 DEF FirstStart
  <2>5. \A u \in Threads : u # t => ~(Starting(u))'
    BY <1>0, <2>2, <2>4 DEF Starting
  <2> QED
    BY <1>0, <2>2, <2>3, <2>4, <2>5 DEF FirstStart
<1>5. CASE \E t \in Threads : ConnectStart(t)
  <2>1. PICK t \in Threads : ConnectStart(t)
    BY <1>5
  <2>2. /\ UNCHANGED <<timers, attempts, batch, pc, nconnects>> /\ Starting(t)
        /\ tpc' = [tpc EXCEPT ![t] = <<"store", FALSE>>]
        /\ funcs' = Append(funcs, Func("start", tpc[t][2]))
    BY <2>1 DEF ConnectStart, Starting
  <2>3. attempts = 0 /\ nconnects = 1 /\ ~Has(funcs, "start") /\ ~Has(batch, "start")
        /\ \A u \in Threads : Starting(u) => u = t
    BY <1>0, <2>2 DEF FirstStart
  <2>4. \A u \in Threads : ~(Starting(u))'
    <3>1. tpc'[t] = <<"store", FALSE>> /\ \A u \in Threads : u # t => tpc'[u] = tpc[u]
      BY <1>0, <2>2
    <3>2. \A u \in Threads : u # t => ~Starting(u)
      BY <2>3
    <3> QED
      BY <3>1, <3>2 DEF Starting
  <2>5. tpc[t][2] \in BOOLEAN
    BY <1>0
  <2>6. PICK f \in Function : f = Func("start", tpc[t][2])
    BY <2>5, FuncTypes
  <2>7. AtMostOne(funcs', "start")
    BY <1>0, <2>2, <2>3, <2>6, HasAppend
  <2> QED
    BY <1>0, <2>2, <2>3, <2>4, <2>7 DEF FirstStart
<1>6. CASE \E t \in Threads : Close(t)
  <2>1. PICK t \in Threads : Close(t)
    BY <1>6
  <2>2. /\ UNCHANGED <<timers, attempts, batch, pc, nconnects>>
        /\ tpc' = [tpc EXCEPT ![t] = <<"shutdown", FALSE>>]
        /\ funcs' = Append(funcs, Func("stop", FALSE))
    BY <2>1 DEF Close, CountClose
  <2>3. PICK f \in Function : f = Func("stop", FALSE) /\ f.op = "stop"
    BY FuncTypes
  <2>4. (Has(funcs', "start") => Has(funcs, "start")) /\ AtMostOne(funcs', "start")
    BY <1>0, <2>2, <2>3, HasAppend
  <2>5. \A u \in Threads : (Starting(u))' => Starting(u)
    <3>1. tpc'[t] = <<"shutdown", FALSE>> /\ \A u \in Threads : u # t => tpc'[u] = tpc[u]
      BY <1>0, <2>2
    <3> QED
      BY <3>1 DEF Starting
  <2> QED
    BY <1>0, <2>2, <2>4, <2>5 DEF FirstStart
<1>7. CASE \E t \in Threads : ConnectStore(t) \/ CloseShutDown(t) \/ CloseClear(t)
  <2>1. PICK t \in Threads : ConnectStore(t) \/ CloseShutDown(t) \/ CloseClear(t)
    BY <1>7
  <2>2. /\ UNCHANGED <<timers, attempts, batch, funcs, pc, nconnects>>
        /\ (tpc' = [tpc EXCEPT ![t] = <<"idle", FALSE>>] \/ tpc' = [tpc EXCEPT ![t] = <<"clear", FALSE>>])
    BY <2>1 DEF ConnectStore, CloseShutDown, CloseClear
  <2>3. \A u \in Threads : (Starting(u))' => Starting(u)
    <3>1. PICK p \in {"idle", "clear"} : tpc' = [tpc EXCEPT ![t] = <<p, FALSE>>]
      BY <2>2
    <3>2. tpc'[t] = <<p, FALSE>> /\ \A u \in Threads : u # t => tpc'[u] = tpc[u]
      BY <1>0, <3>1
    <3> QED
      BY <3>2 DEF Starting
  <2> QED
    BY <1>0, <2>2, <2>3 DEF FirstStart
<1> QED
  BY <1>1, <1>2, <1>3, <1>4, <1>5, <1>6, <1>7 DEF Call, ThreadStep

\* One connection at most, and close_cb_ finds none.
LEMMA NextOneConnection ==
  ASSUME OneClient, KInv, Next
  PROVE  OneConnection'
<1> USE DEF connectorVars, clientVars, loopVars, calls
<1>0. /\ OneConnection /\ attempts \in Nat /\ nreconnects \in Nat /\ conns \subseteq 1..attempts
      /\ batch \in Seq(Function) /\ ret \in {"timers", "swap", "funcs"}
  BY DEF KInv, CInv, Types, TypeOK, ConnectorTypeOK
<1>1. CASE RunFunc
  <2>1. /\ pc = "funcs" /\ batch # <<>> /\ conns' = conns
    BY <1>1 DEF RunFunc
  <2>2. CASE Head(batch).op = "start"
    <3>1. Has(batch, "start")
      BY <1>0, <2>1, <2>2, HasTail
    <3>2. conns = {}
      BY <1>0, <3>1 DEF KInv, FirstStart
    <3>3. FailureCallBackOr("funcs")
      BY <1>1, <2>2 DEF RunFunc
    <3>4. pc' = "cb" => cb' = "failed"
      BY <3>3 DEF FailureCallBackOr, CallBack
    <3> QED
      BY <2>1, <3>2, <3>4 DEF OneConnection
  <2>3. CASE Head(batch).op # "start"
    <3>1. pc' = pc /\ (state_ # "kConnecting" => state_' = state_) /\ dispatch_' \in {dispatch_, 0}
      BY <1>1, <2>3 DEF RunFunc, StopInLoop, ReplaceDispatch
    <3> QED
      BY <1>0, <2>1, <3>1 DEF OneConnection
  <2> QED
    BY <2>2, <2>3
<1>2. CASE RetryTimer
  <2>1. /\ pc = "retry" /\ conns' = conns /\ FailureCallBackOr("timers")
    BY <1>2 DEF RetryTimer
  <2>2. conns = {}
    BY <1>0, <2>1 DEF KInv, CInv, TimerInv, OneConnection
  <2>3. pc' = "cb" => cb' = "failed"
    BY <2>1 DEF FailureCallBackOr, CallBack
  <2> QED
    BY <2>1, <2>2, <2>3 DEF OneConnection
<1>3. CASE HandleEventFailure
  <2>1. /\ state_ = "kConnecting" /\ conns' = conns /\ FailureCallBackOr("swap")
    BY <1>3 DEF HandleEventFailure, HandleEventFails
  <2>2. conns = {}
    BY <1>0, <2>1 DEF OneConnection
  <2>3. pc' = "cb" => cb' = "failed"
    BY <2>1 DEF FailureCallBackOr, CallBack
  <2> QED
    BY <2>1, <2>2, <2>3 DEF OneConnection
<1>4. CASE NewConnection
  <2>1. /\ state_ = "kConnecting" /\ state_' = "kConnected" /\ conns' = conns \cup {polled}
        /\ cb' = "up" /\ polled = dispatch_ /\ dispatch_' = dispatch_
    BY <1>4 DEF NewConnection, HandleEventConnected, CallBack
  <2>2. conns = {}
    BY <1>0, <2>1 DEF OneConnection
  <2> QED
    BY <2>1, <2>2 DEF OneConnection
<1>5. CASE (\E n \in 0..attempts : Poll(n)) \/ TakeTimer \/ EndTimers \/ NoEvent \/ Return
           \/ SwapFuncs \/ EndFuncs
  <2>1. UNCHANGED <<state_, dispatch_, conns, attempts, nreconnects>> /\ pc' # "cb"
    BY <1>0, <1>5 DEF Poll, TakeTimer, EndTimers, NoEvent, Return, HandleEventFinish, SwapFuncs, EndFuncs
  <2> QED
    BY <1>0, <2>1 DEF OneConnection
<1>6. CASE \E n \in conns : ConnectionCloses(n)
  <2>1. PICK n \in conns : ConnectionCloses(n)
    BY <1>6
  <2>2. /\ conns' = conns \ {n} /\ UNCHANGED <<state_, dispatch_, attempts, nreconnects>>
        /\ cb' = (IF n = dispatch_ THEN "early" ELSE "closed")
    BY <2>1 DEF ConnectionCloses, CallBack
  <2>3. state_ = "kConnected" /\ conns' = {} /\ attempts # 0 /\ dispatch_ \in {0, n}
    BY <1>0, <2>1, <2>2 DEF OneConnection
  <2> QED
    BY <2>2, <2>3 DEF OneConnection
<1>7. CASE \E retry \in RetryModes : CallbackConnect(retry)
  <2>1. /\ UNCHANGED <<conns, pc, ret>> /\ pc = "cb" /\ cb = "closed" /\ cb' \in {cb, "failed"}
        /\ nreconnects' = nreconnects + 1 /\ attempts' = attempts + 1
        /\ (state_' \in {"kConnecting", "kDisConnected"} \/ UNCHANGED <<state_, dispatch_>>)
    BY <1>7 DEF CallbackConnect, OneClient, DoStart, StartInLoop, ConnectInProgress,
                ConnectRefused, ConnectFatal, Connecting, Retry
  <2>2. conns = {}
    BY <1>0, <2>1 DEF OneConnection
  <2>3. nreconnects' # 0 /\ attempts' # 0
    BY <1>0, <2>1
  <2> QED
    BY <1>0, <2>1, <2>2, <2>3 DEF OneConnection
<1>8. CASE CallbackClose
  <2>1. /\ UNCHANGED <<conns, pc, cb, dispatch_, attempts, nreconnects>>
        /\ (state_ # "kConnecting" => state_' = state_)
        /\ state_' \in {state_, "kDisConnected"}
    BY <1>8 DEF CallbackClose, CountClose, StopInLoop
  <2> QED
    BY <1>0, <2>1 DEF OneConnection
<1>9. CASE \E t \in Threads : ThreadStep(t) \/ Close(t) \/ \E retry \in RetryModes : Connect(t, retry)
  <2>1. UNCHANGED <<state_, dispatch_, conns, pc, cb, attempts, nreconnects>>
    BY <1>9 DEF ThreadStep, ConnectStart, ConnectStore, CloseShutDown, CloseClear, Close,
                CountClose, Connect
  <2> QED
    BY <1>0, <2>1 DEF OneConnection
<1> QED
  BY <1>1, <1>2, <1>3, <1>4, <1>5, <1>6, <1>7, <1>8, <1>9 DEF Next, LoopStep, Call

\* Steps of such a client keep the invariant.
LEMMA NextKInv == OneClient /\ KInv /\ [Next]_vars /\ [ReconnectsOnce]_vars => KInv'
<1> SUFFICES ASSUME OneClient, KInv, [Next]_vars, [ReconnectsOnce]_vars PROVE KInv'
  OBVIOUS
<1>1. CASE UNCHANGED vars
  <2>1. CInv'
    BY <1>1, NextCInv DEF KInv
  <2>2. UNCHANGED <<funcs, batch, attempts, tpc, nconnects, timers, pc, state_, conns, cb, ret,
                    dispatch_, nreconnects>>
    BY <1>1 DEF vars, connectorVars, clientVars, loopVars, calls
  <2> QED
    BY <2>1, <2>2 DEF KInv, FirstStart, OneConnection, Starting
<1>2. CASE Next /\ ReconnectsOnce
  <2>1. StartsAtRest
    BY <1>2, ClientStartsAtRest
  <2>2. CInv'
    BY <1>2, <2>1, NextCInv DEF KInv
  <2>3. FirstStart'
    BY <1>2, LoopFirstStart, CallFirstStart DEF Next
  <2>4. OneConnection'
    BY <1>2, NextOneConnection
  <2> QED
    BY <2>2, <2>3, <2>4 DEF KInv
<1> QED
  BY <1>1, <1>2

\* A client that calls Connect() once on a thread and then only in close_cb_, once in each
\* and in none that runs before the queued destruction of the attempt's Dispatch
\* (tcp_connector.cc:175), has one attempt at a time, however often it reconnects, whoever
\* calls Close(), and also if the connection closes inside connection_cb_.
THEOREM OneAttemptOfClient ==
  OneClient => (Spec /\ [][ReconnectsOnce]_vars => []OneAttempt)
<1> SUFFICES ASSUME OneClient PROVE Spec /\ [][ReconnectsOnce]_vars => []OneAttempt
  OBVIOUS
<1>1. KInv /\ [Next]_vars /\ [ReconnectsOnce]_vars => KInv'
  BY NextKInv
<1>2. KInv => OneAttempt
  BY CInvOneAttempt DEF KInv
<1> QED
  BY InitKInv, <1>1, <1>2, PTL DEF Spec

\* In particular, with at most one reconnection, which is not in an early close_cb_, there
\* is nothing to assume of the steps: one attempt at a time, across retries, closes inside
\* connection_cb_, and Close() on any thread and in any callback.
THEOREM OneAttemptAtATime ==
  OneClient /\ MaxReconnects <= 1 => (Spec => []OneAttempt)
<1> SUFFICES ASSUME OneClient, MaxReconnects <= 1 PROVE Spec => []OneAttempt
  OBVIOUS
<1>1. KInv /\ [Next]_vars => [ReconnectsOnce]_vars
  <2> SUFFICES ASSUME KInv, Next, nreconnects' # nreconnects PROVE state_ = "kConnected"
    BY DEF ReconnectsOnce, vars, calls
  <2>1. nreconnects \in Nat
    BY DEF KInv, CInv, Types, TypeOK
  <2>2. CASE \E retry \in RetryModes : CallbackConnect(retry)
    <3>1. nreconnects < MaxReconnects /\ pc = "cb" /\ cb = "closed"
      BY <2>2 DEF CallbackConnect, OneClient
    <3>2. nreconnects = 0
      BY <2>1, <3>1, CallsAssumption
    <3> QED
      BY <3>1, <3>2 DEF KInv, OneConnection
  <2>3. ~(LoopStep \/ TakeTimer \/ \E n \in conns : ConnectionCloses(n))
    BY DEF LoopStep, Poll, RetryTimer, EndTimers, NoEvent, HandleEventFailure, NewConnection,
           Return, SwapFuncs, RunFunc, EndFuncs, TakeTimer, ConnectionCloses, calls
  <2>4. ~(CallbackClose \/ \E t \in Threads :
             ThreadStep(t) \/ Close(t) \/ \E retry \in RetryModes : Connect(t, retry))
    BY DEF CallbackClose, CountClose, ThreadStep, ConnectStart, ConnectStore, CloseShutDown,
           CloseClear, Close, Connect, calls
  <2> QED
    BY <2>2, <2>3, <2>4 DEF Next, Call
<1>2. KInv /\ [Next]_vars => KInv'
  BY <1>1, NextKInv
<1>3. KInv => OneAttempt
  BY CInvOneAttempt DEF KInv
<1> QED
  BY InitKInv, <1>2, <1>3, PTL DEF Spec
=============================================================================
