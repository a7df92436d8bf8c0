----------------------------- MODULE HttpServer -----------------------------
(***************************************************************************)
(* HttpServer (http_server.cc) on the connections that TcpServer gives to  *)
(* its loops: the limits of TcpMonitor (tcp_monitor.cc), the buckets of    *)
(* idle connections, and the life of a connection's Context through        *)
(* OnConnection, OnMessage and OnClose.                                    *)
(*                                                                         *)
(* Loops run in parallel; each runs its connections' callbacks, its timer  *)
(* and its queued functions one after the other.  A request is what        *)
(* ParseBuffer makes of the bytes that have come.                          *)
(***************************************************************************)
EXTENDS Naturals, Sequences, FiniteSets

CONSTANTS
    Loops,               \* the loops of the server
    Conns,               \* connections peers make
    Ips,                 \* peer addresses
    IpOf,                \* the peer address of each connection
    Owners,              \* how TcpServer may spread the connections over the loops
    idle_ticks_,         \* keep_alive_time_out / tick_time
    kMaxAllConnections,
    kMaxIpConnections

ASSUME ConnsAssumption == IpOf \in [Conns -> Ips] /\ Owners \subseteq [Conns -> Loops]
ASSUME OptionsAssumption ==
    idle_ticks_ \in Nat \ {0} /\ kMaxAllConnections \in Nat /\ kMaxIpConnections \in Nat

VARIABLES
    state_,       \* of each TcpConnection, "none" before StartWorking
    owner,        \* the loop of a connection
    funcs,        \* per loop: connections whose ForceClose function is queued
    counter_,     \* of TcpMonitor
    ip_counter_,  \* of TcpMonitor; an absent key is 0
    buckets_,     \* per loop and tick: connections whose Entry is in the bucket
    current,      \* per loop: the tick, the second half of buckets_
    index,        \* of each Entry
    context,      \* of each connection: the state of its parser, or null
    stuck,        \* loops that are spinning in ParseBuffer
    broken,       \* a Context that is not there was used
    served,       \* history: connections OnConnection let in
    since         \* history: ticks of its loop since a connection was last active

monitor == <<counter_, ip_counter_>>
wheel == <<buckets_, current, index>>
vars == <<state_, owner, funcs, monitor, wheel, context, stuck, broken, served, since>>

Ticks == 0..idle_ticks_ - 1

TypeOK ==
    /\ state_ \in [Conns -> {"none", "kConnected", "kDisconnecting", "kDisconnected"}]
    /\ owner \in [Conns -> Loops]
    /\ funcs \in [Loops -> Seq(Conns)]
    /\ counter_ \in Nat
    /\ ip_counter_ \in [Ips -> Nat]
    /\ buckets_ \in [Loops -> [Ticks -> SUBSET Conns]]
    /\ current \in [Loops -> Ticks]
    /\ index \in [Conns -> Ticks \cup {idle_ticks_}]
    /\ context \in [Conns -> {"null", "parsing", "kEnd"}]
    /\ stuck \subseteq Loops
    /\ broken \in BOOLEAN
    /\ served \subseteq Conns
    /\ since \in [Conns -> Nat]

Init ==
    /\ state_ = [c \in Conns |-> "none"]
    /\ owner \in Owners
    /\ funcs = [l \in Loops |-> <<>>]
    /\ counter_ = 0
    /\ ip_counter_ = [i \in Ips |-> 0]
    /\ buckets_ = [l \in Loops |-> [t \in Ticks |-> {}]]
    /\ current = [l \in Loops |-> 0]
    /\ index = [c \in Conns |-> idle_ticks_]   \* -1 in the code
    /\ context = [c \in Conns |-> "null"]
    /\ stuck = {}
    /\ broken = FALSE
    /\ served = {}
    /\ since = [c \in Conns |-> 0]

Opened(c) == state_[c] \in {"kConnected", "kDisconnecting"}
Running(l) == l \notin stuck /\ ~broken

-----------------------------------------------------------------------------
(* TcpMonitor.                                                             *)

\* Comparing the connections of an address before the new one is counted.
TooManyByOne(c) ==
    \/ counter_ + 1 > kMaxAllConnections
    \/ kMaxIpConnections # 0 /\ ip_counter_[IpOf[c]] > kMaxIpConnections

\* OnConnection refuses: the connection is counted first.  An address seen
\* for the first time is never over its limit.  HttpServer leaves the allow
\* and the deny set empty.
TooMany(c) ==
    \/ counter_ + 1 > kMaxAllConnections
    \/ /\ kMaxIpConnections # 0
       /\ ip_counter_[IpOf[c]] # 0
       /\ ip_counter_[IpOf[c]] + 1 > kMaxIpConnections

Count(c) ==
    /\ counter_' = counter_ + 1
    /\ ip_counter_' = IF kMaxIpConnections = 0 THEN ip_counter_
                      ELSE [ip_counter_ EXCEPT ![IpOf[c]] = @ + 1]

\* TcpMonitor::OnClose
Uncount(c) ==
    /\ counter_' = counter_ - 1
    /\ ip_counter_' = IF kMaxIpConnections = 0 THEN ip_counter_
                      ELSE [ip_counter_ EXCEPT ![IpOf[c]] = @ - 1]

-----------------------------------------------------------------------------
(* Idle connections.                                                       *)

\* The Entry lives as long as a bucket holds it.
EntryAlive(c) == \E t \in Ticks : c \in buckets_[owner[c]][t]

\* UpdateBuckets puts the Entry into the bucket of the current tick, once.
UpdateBuckets(c) ==
    LET l == owner[c] IN
    /\ IF index[c] # current[l]
       THEN /\ buckets_' = [buckets_ EXCEPT ![l][current[l]] = @ \cup {c}]
            /\ index' = [index EXCEPT ![c] = current[l]]
       ELSE UNCHANGED <<buckets_, index>>
    /\ since' = [since EXCEPT ![c] = 0]
    /\ UNCHANGED current

\* A mutant: the wheel turns before its last bucket.
NextTickEarly(l) == IF current[l] + 2 >= idle_ticks_ THEN 0 ELSE current[l] + 1

NextTick(l) == IF current[l] + 1 = idle_ticks_ THEN 0 ELSE current[l] + 1

\* A mutant: the bucket the wheel starts with is not emptied.
ExpiredButFirst(l, t) ==
    {c \in buckets_[l][t] : t # 0 /\ \A u \in Ticks \ {t} : c \notin buckets_[l][u]}

\* Connections of loop l whose Entry goes when bucket t is cleared.
Expired(l, t) ==
    {c \in buckets_[l][t] : \A u \in Ticks \ {t} : c \notin buckets_[l][u]}

\* ~Entry() calls ShutDown(), which acts on a connected connection.
ShutDownAll(cs) ==
    state_' = [c \in Conns |->
                 IF c \in cs /\ state_[c] = "kConnected" THEN "kDisconnecting" ELSE state_[c]]

OneTickOlder(l) ==
    [c \in Conns |-> IF owner[c] = l /\ state_[c] = "kConnected" THEN since[c] + 1 ELSE since[c]]

\* The timer of loop l: the next bucket is cleared.
OnTimer(l) ==
    /\ Running(l)
    /\ current' = [current EXCEPT ![l] = NextTick(l)]
    /\ buckets_' = [buckets_ EXCEPT ![l][NextTick(l)] = {}]
    /\ ShutDownAll(Expired(l, NextTick(l)))
    /\ since' = OneTickOlder(l)
    /\ UNCHANGED <<owner, funcs, monitor, index, context, stuck, broken, served>>

-----------------------------------------------------------------------------
(* A connection.                                                           *)

\* StartWorking and OnConnection, the connection let in.
OnConnection(c) ==
    /\ Running(owner[c])
    /\ state_[c] = "none"
    /\ ~TooMany(c)
    /\ state_' = [state_ EXCEPT ![c] = "kConnected"]
    /\ Count(c)
    /\ UpdateBuckets(c)
    /\ context' = [context EXCEPT ![c] = "parsing"]
    /\ served' = served \cup {c}
    /\ UNCHANGED <<owner, funcs, stuck, broken>>

\* A mutant: the connection is marked and nothing is queued.
QueueForceCloseNever(c) == UNCHANGED funcs

QueueForceClose(c) == funcs' = [funcs EXCEPT ![owner[c]] = Append(@, c)]

\* StartWorking and OnConnection, the connection refused: ForceClose() queues
\* its closing function, and the connection has no Context.
OnConnectionRefused(c) ==
    /\ Running(owner[c])
    /\ state_[c] = "none"
    /\ TooMany(c)
    /\ state_' = [state_ EXCEPT ![c] = "kDisconnecting"]
    /\ Count(c)
    /\ QueueForceClose(c)
    /\ UNCHANGED <<owner, wheel, context, stuck, broken, served, since>>

\* HandleClose of the connection, with OnClose.
Close(c) ==
    /\ state_' = [state_ EXCEPT ![c] = "kDisconnected"]
    /\ Uncount(c)
    /\ context' = [context EXCEPT ![c] = "null"]

\* The loop runs the queued function of a ForceClose.
RunForceClose(l) ==
    /\ Running(l)
    /\ funcs[l] # <<>>
    /\ funcs' = [funcs EXCEPT ![l] = Tail(@)]
    /\ IF Opened(Head(funcs[l]))
       THEN Close(Head(funcs[l]))
       ELSE UNCHANGED <<state_, monitor, context>>
    /\ UNCHANGED <<owner, wheel, stuck, broken, served, since>>

\* The peer closes or the connection fails: HandleClose from an event.
HandleClose(c) ==
    /\ Running(owner[c])
    /\ Opened(c)
    /\ Close(c)
    /\ UNCHANGED <<owner, funcs, wheel, stuck, broken, served, since>>

\* OnMessage begins on a connection whose parser can take bytes.  Reading
\* goes on after ShutDown().
Readable(c) == Running(owner[c]) /\ Opened(c)

\* The end of OnMessage: an active connection moves to the current bucket.
Refresh(c) ==
    IF state_[c] = "kConnected" /\ EntryAlive(c)
    THEN UpdateBuckets(c)
    ELSE UNCHANGED <<wheel, since>>

\* A part of a request, or a whole one answered on a connection kept open;
\* the parser stays in kEnd if the callback takes back a close by the header.
OnMessageKept(c) ==
    /\ Readable(c) /\ context[c] = "parsing"
    /\ Refresh(c)
    /\ \E p \in {"parsing", "kEnd"} : context' = [context EXCEPT ![c] = p]
    /\ UNCHANGED <<state_, owner, funcs, monitor, stuck, broken, served>>

\* What is not a request: 400 and ShutDown().
OnMessageBad(c) ==
    /\ Readable(c) /\ context[c] = "parsing"
    /\ ShutDownAll({c})
    /\ UNCHANGED <<owner, funcs, monitor, wheel, context, stuck, broken, served, since>>

\* The same, and the 400 cannot be sent: the connection is closed inside
\* OnMessage, which goes on to ask the parser of the deleted Context.
OnMessageBadUnsent(c) ==
    /\ Readable(c) /\ context[c] = "parsing" /\ state_[c] = "kConnected"
    /\ Close(c)
    /\ broken' = TRUE
    /\ UNCHANGED <<owner, funcs, wheel, stuck, served, since>>

\* A request answered with the connection to be closed, by its header, which
\* leaves the parser as it is, or by the callback.
OnMessageLast(c) ==
    /\ Readable(c) /\ context[c] = "parsing"
    /\ ShutDownAll({c})
    /\ \E p \in {"parsing", "kEnd"} : context' = [context EXCEPT ![c] = p]
    /\ UNCHANGED <<owner, funcs, monitor, wheel, stuck, broken, served, since>>

\* The response of either kind cannot be sent: the connection is closed.
OnMessageUnsent(c) ==
    /\ Readable(c) /\ context[c] = "parsing" /\ state_[c] = "kConnected"
    /\ Close(c)
    /\ UNCHANGED <<owner, funcs, wheel, stuck, broken, served, since>>

\* Bytes after the last request: ParseBuffer does not leave its loop in kEnd.
OnMessageAfterLast(c) ==
    /\ Readable(c) /\ context[c] = "kEnd"
    /\ stuck' = stuck \cup {owner[c]}
    /\ UNCHANGED <<state_, owner, funcs, monitor, wheel, context, broken, served, since>>

\* Bytes on a connection that was refused and is not yet closed.
OnMessageNoContext(c) ==
    /\ Readable(c) /\ context[c] = "null"
    /\ broken' = TRUE
    /\ UNCHANGED <<state_, owner, funcs, monitor, wheel, context, stuck, served, since>>

OnMessage(c) ==
    \/ OnMessageKept(c) \/ OnMessageBad(c) \/ OnMessageBadUnsent(c) \/ OnMessageLast(c)
    \/ OnMessageUnsent(c) \/ OnMessageAfterLast(c) \/ OnMessageNoContext(c)

Next ==
    \/ \E c \in Conns :
          OnConnection(c) \/ OnConnectionRefused(c) \/ HandleClose(c) \/ OnMessage(c)
    \/ \E l \in Loops : RunForceClose(l) \/ OnTimer(l)

Spec == Init /\ [][Next]_vars

\* Loops run what is queued to them.
Fairness == \A l \in Loops : WF_vars(RunForceClose(l))

FairSpec == Spec /\ Fairness

-----------------------------------------------------------------------------
(* Properties.                                                             *)

\* TcpMonitor counts exactly the connections that are open, the refused ones
\* until they are closed, although loops count in parallel and close in any
\* order; and never are more connections served than the limits allow.
LimitsHold ==
    LET OpenAmong(cs) == Cardinality({c \in cs : Opened(c)})
        From(i) == {c \in Conns : IpOf[c] = i}
    IN  /\ TypeOK
        /\ counter_ = OpenAmong(Conns)
        /\ OpenAmong(served) <= kMaxAllConnections
        /\ kMaxIpConnections # 0 =>
              \A i \in Ips : /\ ip_counter_[i] = OpenAmong(From(i))
                             /\ OpenAmong(served \cap From(i)) <= kMaxIpConnections

\* A connection that is served and silent is shut down within idle_ticks_
\* ticks of its loop's timer.
IdleShutDown ==
    \A c \in served : state_[c] = "kConnected" => since[c] < idle_ticks_

\* The timer shuts down no connection that was active in the last
\* idle_ticks_ - 1 ticks, however its Entry moved through the buckets.
ActiveKept ==
    [][\A c \in Conns, l \in Loops :
         OnTimer(l) /\ state_[c] = "kConnected" /\ state_'[c] = "kDisconnecting"
            => since[c] + 1 = idle_ticks_]_vars

\* A connection OnConnection refused is closed, unless its loop is lost.
RefusedClosed ==
    \A c \in Conns :
        (Opened(c) /\ c \notin served) ~> (~Opened(c) \/ ~Running(owner[c]))
=============================================================================
