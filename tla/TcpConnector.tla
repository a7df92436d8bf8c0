---------------------------- MODULE TcpConnector ----------------------------
(***************************************************************************)
(* The state and the steps of a TcpConnector                               *)
(* (voyager/core/tcp_connector.cc) on its loop thread; module TcpClient    *)
(* adds the client that owns it, the other threads and the loop.           *)
(*                                                                         *)
(* Every connect() makes a socket and, when it is under way, a Dispatch;   *)
(* both are named by the number of the attempt, 0 being none.              *)
(***************************************************************************)
EXTENDS Naturals, Sequences

CONSTANTS
    InitRetryTime, MaxRetryTime,   \* kInitRetryTime and kMaxRetryTime
    MaxFailures                    \* bound: connect() calls that fail

ASSUME RetryAssumption ==
    /\ InitRetryTime \in Nat \ {0}
    /\ MaxRetryTime \in Nat
    /\ InitRetryTime <= MaxRetryTime
ASSUME FailuresAssumption == MaxFailures \in Nat

VARIABLES
    state_, connect_, retry_, retry_time_,
    dispatch_, socket_,
    registered,    \* attempts whose Dispatch is in the poller and in epoll
    handling,      \* the attempt whose Dispatch is running HandleEvent
    timers,        \* retry timers that are set
    funcs,         \* EventLoop's queue: the connector's functions in it
    attempts,      \* connect() calls so far
    failures,      \* how many of them failed
    reported,      \* calls of connect_failure_cb_ so far
    misdestroyed   \* history: a Dispatch was destroyed inside its HandleEvent

connectorVars == <<state_, connect_, retry_, retry_time_, dispatch_, socket_,
                   registered, timers, attempts, failures, reported, misdestroyed>>

Func(op, retry) == [op |-> op, retry |-> retry]

ConnectorTypeOK ==
    /\ state_ \in {"kDisConnected", "kConnected", "kConnecting"}
    /\ connect_ \in BOOLEAN /\ retry_ \in BOOLEAN
    /\ retry_time_ \in InitRetryTime..MaxRetryTime
    /\ attempts \in Nat /\ failures \in 0..MaxFailures /\ timers \in Nat
    /\ dispatch_ \in 0..attempts /\ socket_ \in 0..attempts /\ handling \in 0..attempts
    /\ registered \subseteq 1..attempts
    /\ funcs \in Seq([op : {"start", "stop", "reset"}, retry : BOOLEAN])
    /\ reported \in 0..failures /\ misdestroyed \in BOOLEAN

ConnectorInit ==
    /\ state_ = "kDisConnected"
    /\ connect_ = FALSE
    /\ retry_ = TRUE
    /\ retry_time_ = InitRetryTime
    /\ dispatch_ = 0 /\ socket_ = 0 /\ handling = 0
    /\ registered = {}
    /\ timers = 0
    /\ funcs = <<>>
    /\ attempts = 0 /\ failures = 0
    /\ reported = 0
    /\ misdestroyed = FALSE

-----------------------------------------------------------------------------
(* Pieces of the steps.                                                    *)

\* dispatch_ takes another value and the Dispatch it held is destroyed.
ReplaceDispatch(d) ==
    /\ dispatch_' = d
    /\ misdestroyed' = (misdestroyed \/ (dispatch_ # 0 /\ dispatch_ # d /\ dispatch_ = handling))

\* Connecting(): a new Dispatch waits for the socket to become writable.
Connecting(n) ==
    /\ state_' = "kConnecting"
    /\ ReplaceDispatch(n)
    /\ registered' = registered \cup {n}

\* The delay after the next one.
Doubled == IF retry_time_ * 2 < MaxRetryTime THEN retry_time_ * 2 ELSE MaxRetryTime

RetryWithoutTimer(retrying, wanted) ==
    /\ state_' = "kDisConnected"
    /\ reported' = IF retrying THEN reported ELSE reported + 1
    /\ UNCHANGED <<timers, retry_time_>>

\* Retry(): report a failure, or set a timer unless stopped.
Retry(retrying, wanted) ==
    /\ state_' = "kDisConnected"
    /\ reported' = IF retrying THEN reported ELSE reported + 1
    /\ IF retrying /\ wanted
       THEN timers' = timers + 1 /\ retry_time_' = Doubled
       ELSE UNCHANGED <<timers, retry_time_>>

\* Connect() with each of the results of connect(); a failure that calls
\* connect_failure_cb_ counts in reported'.
ConnectInProgress ==
    /\ attempts' = attempts + 1
    /\ socket_' = attempts'
    /\ Connecting(attempts')
    /\ UNCHANGED <<timers, retry_time_, reported, failures>>

ConnectRefused(retrying, wanted) ==
    /\ failures < MaxFailures
    /\ failures' = failures + 1
    /\ attempts' = attempts + 1
    /\ socket_' = attempts'
    /\ Retry(retrying, wanted)
    /\ UNCHANGED <<dispatch_, misdestroyed, registered>>

ConnectFatal ==
    /\ failures < MaxFailures
    /\ failures' = failures + 1
    /\ attempts' = attempts + 1
    /\ socket_' = 0
    /\ reported' = reported + 1
    /\ UNCHANGED <<state_, dispatch_, misdestroyed, registered, timers, retry_time_>>

StartInLoopIgnoringStop(retrying, wanted) ==
    /\ ConnectInProgress \/ ConnectRefused(retrying, wanted) \/ ConnectFatal

\* StartInLoop(), retry_ and connect_ being what the caller has just set.
StartInLoop(retrying, wanted) ==
    /\ IF wanted
       THEN ConnectInProgress \/ ConnectRefused(retrying, wanted) \/ ConnectFatal
       ELSE UNCHANGED <<state_, retry_time_, dispatch_, socket_, registered, timers,
                        attempts, failures, reported, misdestroyed>>

\* The function of Start().
DoStart(retry) ==
    /\ retry_' = retry
    /\ connect_' = TRUE
    /\ StartInLoop(retry, TRUE)

\* ResetDispatch(): out of the poller now, destroyed by a queued function.
ResetDispatch ==
    IF dispatch_ # 0
    THEN /\ registered' = registered \ {dispatch_}
         /\ funcs' = Append(funcs, Func("reset", FALSE))
    ELSE UNCHANGED <<registered, funcs>>

StopInLoopKeepingDispatch ==
    /\ connect_' = FALSE
    /\ state_' = IF state_ = "kConnecting" THEN "kDisConnected" ELSE state_
    /\ UNCHANGED <<registered, funcs>>
    /\ UNCHANGED <<retry_, retry_time_, dispatch_, socket_, timers, attempts,
                   failures, reported, misdestroyed>>

\* StopInLoop().
StopInLoop ==
    /\ connect_' = FALSE
    /\ IF state_ = "kConnecting"
       THEN state_' = "kDisConnected" /\ ResetDispatch
       ELSE UNCHANGED <<state_, registered, funcs>>
    /\ UNCHANGED <<retry_, retry_time_, dispatch_, socket_, timers, attempts,
                   failures, reported, misdestroyed>>

\* HandleEvent() when the socket has an error or is connected to itself.
HandleEventFails ==
    /\ state_ = "kConnecting"
    /\ failures < MaxFailures
    /\ failures' = failures + 1
    /\ ResetDispatch
    /\ Retry(retry_, connect_)
    /\ UNCHANGED <<connect_, retry_, dispatch_, socket_, attempts, misdestroyed>>

\* HandleEvent() when the connection is up, to the point where
\* newconnection_cb_ is called; connect_ is set whenever an attempt is under
\* way (OneAttempt in TcpClient), so that it is always called.
HandleEventConnected ==
    /\ state_ = "kConnecting"
    /\ connect_
    /\ state_' = "kConnected"
    /\ ResetDispatch
    /\ UNCHANGED <<connect_, retry_, retry_time_, dispatch_, socket_, timers, attempts,
                   failures, reported, misdestroyed>>

\* HandleEvent() after newconnection_cb_ has returned.
HandleEventFinish ==
    /\ retry_time_' = InitRetryTime
    /\ socket_' = 0
    /\ UNCHANGED <<state_, connect_, retry_, dispatch_, registered, timers, attempts,
                   failures, reported, misdestroyed>>
=============================================================================
