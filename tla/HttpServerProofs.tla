--------------------------- MODULE HttpServerProofs ---------------------------
(***************************************************************************)
(* Theorems about HttpServer, for every set of loops, connections and      *)
(* addresses, every assignment of connections to loops, every limit and    *)
(* any number of ticks.                                                    *)
(***************************************************************************)
EXTENDS HttpServer, FiniteSetTheorems, TLAPS

OpenConns == {c \in Conns : Opened(c)}
OpenFrom(i) == {c \in Conns : IpOf[c] = i /\ Opened(c)}
ServedOpen == {c \in served : Opened(c)}
ServedFrom(i) == {c \in served : IpOf[c] = i /\ Opened(c)}

\* TcpMonitor's counters are the numbers of open connections, which are finite
\* although Conns need not be.
CountsInv ==
    /\ IsFiniteSet(OpenConns)
    /\ counter_ = Cardinality(OpenConns)
    /\ kMaxIpConnections # 0 => \A i \in Ips : ip_counter_[i] = Cardinality(OpenFrom(i))

\* What was let in stays within the limits; what has not begun was not let in.
ServedInv ==
    /\ \A c \in served : state_[c] # "none"
    /\ Cardinality(ServedOpen) <= kMaxAllConnections
    /\ kMaxIpConnections # 0 => \A i \in Ips : Cardinality(ServedFrom(i)) <= kMaxIpConnections

\* Ticks since a wheel that is at k was at t.
Age(k, t) == IF t <= k THEN k - t ELSE k - t + idle_ticks_

\* A connected connection is in the bucket it was last put into, which is as old as
\* its last activity, and in no older one; buckets hold connections of their loop,
\* and a connection that has not begun was put into none.
WheelInv ==
    /\ \A c \in Conns : state_[c] = "none" => index[c] = idle_ticks_
    /\ \A l \in Loops : \A t \in Ticks : \A c \in buckets_[l][t] : owner[c] = l
    /\ \A c \in Conns : state_[c] = "kConnected" =>
          /\ index[c] \in Ticks
          /\ c \in buckets_[owner[c]][index[c]]
          /\ since[c] = Age(current[owner[c]], index[c])
          /\ \A t \in Ticks :
                c \in buckets_[owner[c]][t] => since[c] <= Age(current[owner[c]], t)

IInv == TypeOK /\ CountsInv /\ ServedInv /\ WheelInv

-----------------------------------------------------------------------------
(* Types.                                                                  *)

\* Every initial state satisfies the inductive invariant.
LEMMA InitIInv == Init => IInv
<1> SUFFICES ASSUME Init PROVE IInv
  OBVIOUS
<1> USE ConnsAssumption, OptionsAssumption DEF Init
<1>1. broken \in BOOLEAN
  BY Zenon
<1>2. 0 \in Ticks /\ <<>> \in Seq(Conns)
  BY DEF Ticks
<1>3. TypeOK
  BY <1>1, <1>2 DEF TypeOK
<1>4. OpenConns = {} /\ ServedOpen = {} /\ \A i : OpenFrom(i) = {} /\ ServedFrom(i) = {}
  BY DEF OpenConns, OpenFrom, ServedOpen, ServedFrom, Opened
<1>5. CountsInv
  BY <1>4, FS_EmptySet DEF CountsInv
<1>6. ServedInv
  <2>1. Cardinality(ServedOpen) = 0 /\ \A i \in Ips : Cardinality(ServedFrom(i)) = 0
    BY <1>4, FS_EmptySet
  <2>2. \A c \in served : state_[c] # "none"
    OBVIOUS
  <2> QED
    BY <2>1, <2>2, SMT DEF ServedInv
<1>7. WheelInv
  BY DEF WheelInv
<1> QED
  BY <1>3, <1>5, <1>6, <1>7 DEF IInv

\* Putting a connection into the bucket of the current tick keeps the types.
LEMMA UpdateBucketsTypes ==
  ASSUME TypeOK, NEW c \in Conns, UpdateBuckets(c)
  PROVE  /\ buckets_' \in [Loops -> [Ticks -> SUBSET Conns]]
         /\ index' \in [Conns -> Ticks \cup {idle_ticks_}]
         /\ since' \in [Conns -> Nat]
         /\ current' = current
<1> USE DEF TypeOK, UpdateBuckets
<1>1. owner[c] \in Loops /\ current[owner[c]] \in Ticks
  OBVIOUS
<1>2. since' \in [Conns -> Nat] /\ current' = current
  OBVIOUS
<1>3. index' \in [Conns -> Ticks \cup {idle_ticks_}]
  BY <1>1
<1>4. buckets_' \in [Loops -> [Ticks -> SUBSET Conns]]
  <2>1. [buckets_[owner[c]] EXCEPT ![current[owner[c]]] = @ \cup {c}]
           \in [Ticks -> SUBSET Conns]
    BY <1>1
  <2> QED
    BY <1>1, <2>1
<1> QED
  BY <1>2, <1>3, <1>4

\* Counting an open connection down keeps the counters natural numbers: it was
\* counted.
LEMMA UncountTypes ==
  ASSUME IInv, NEW c \in Conns, Opened(c), Uncount(c)
  PROVE  counter_' \in Nat /\ ip_counter_' \in [Ips -> Nat]
<1> USE ConnsAssumption DEF IInv, TypeOK, CountsInv, Uncount
<1>1. Cardinality(OpenConns) \in Nat /\ Cardinality(OpenConns) # 0
  <2>1. OpenConns # {}
    BY DEF OpenConns
  <2> QED
    BY <2>1, FS_CardinalityType, FS_EmptySet
<1>2. counter_' \in Nat
  BY <1>1
<1>3. ip_counter_' \in [Ips -> Nat]
  <2>1. CASE kMaxIpConnections = 0
    BY <2>1
  <2>2. CASE kMaxIpConnections # 0
    <3>1. IpOf[c] \in Ips /\ c \in OpenFrom(IpOf[c])
      BY DEF OpenFrom
    <3>2. OpenFrom(IpOf[c]) \in SUBSET OpenConns
      BY DEF OpenFrom, OpenConns
    <3>3. IsFiniteSet(OpenFrom(IpOf[c]))
      BY <3>2, FS_Subset
    <3>4. ip_counter_[IpOf[c]] \in Nat /\ ip_counter_[IpOf[c]] # 0
      BY <2>2, <3>1, <3>3, FS_CardinalityType, FS_EmptySet
    <3> QED
      BY <2>2, <3>1, <3>4
  <2> QED
    BY <2>1, <2>2
<1> QED
  BY <1>2, <1>3

\* A step keeps the types.
LEMMA NextTypeOK == IInv /\ [Next]_vars => TypeOK'
<1> SUFFICES ASSUME IInv, [Next]_vars PROVE TypeOK'
  OBVIOUS
<1> USE ConnsAssumption, OptionsAssumption DEF IInv
<1>1. ASSUME NEW c \in Conns, OnConnection(c) PROVE TypeOK'
  <2>1. counter_' \in Nat /\ ip_counter_' \in [Ips -> Nat]
    BY <1>1 DEF OnConnection, Count, TypeOK
  <2>2. UpdateBuckets(c)
    BY <1>1 DEF OnConnection
  <2> QED
    BY <1>1, <2>1, <2>2, UpdateBucketsTypes DEF OnConnection, TypeOK
<1>2. ASSUME NEW c \in Conns, OnConnectionRefused(c) PROVE TypeOK'
  <2>1. counter_' \in Nat /\ ip_counter_' \in [Ips -> Nat]
    BY <1>2 DEF OnConnectionRefused, Count, TypeOK
  <2>2. funcs' \in [Loops -> Seq(Conns)]
    BY <1>2 DEF OnConnectionRefused, QueueForceClose, TypeOK
  <2> QED
    BY <1>2, <2>1, <2>2 DEF OnConnectionRefused, TypeOK, wheel
<1>3. ASSUME NEW c \in Conns, HandleClose(c) PROVE TypeOK'
  <2>1. counter_' \in Nat /\ ip_counter_' \in [Ips -> Nat]
    BY <1>3, UncountTypes DEF HandleClose, Close
  <2> QED
    BY <1>3, <2>1 DEF HandleClose, Close, TypeOK, wheel
<1>4. ASSUME NEW c \in Conns, OnMessage(c) PROVE TypeOK'
  <2>1. CASE OnMessageKept(c)
    <3>1. /\ buckets_' \in [Loops -> [Ticks -> SUBSET Conns]]
          /\ index' \in [Conns -> Ticks \cup {idle_ticks_}]
          /\ since' \in [Conns -> Nat]
          /\ current' = current
      BY <2>1, UpdateBucketsTypes DEF OnMessageKept, Refresh, wheel, TypeOK
    <3>2. context' \in [Conns -> {"null", "parsing", "kEnd"}]
      BY <2>1 DEF OnMessageKept, TypeOK
    <3> QED
      BY <2>1, <3>1, <3>2 DEF OnMessageKept, TypeOK, monitor
  <2>2. CASE OnMessageBad(c) \/ OnMessageLast(c)
    <3>1. state_' \in [Conns -> {"none", "kConnected", "kDisconnecting", "kDisconnected"}]
      BY <2>2 DEF OnMessageBad, OnMessageLast, ShutDownAll, TypeOK
    <3>2. context' \in [Conns -> {"null", "parsing", "kEnd"}]
      BY <2>2 DEF OnMessageBad, OnMessageLast, TypeOK
    <3> QED
      BY <2>2, <3>1, <3>2 DEF OnMessageBad, OnMessageLast, TypeOK, monitor, wheel
  <2>3. CASE OnMessageBadUnsent(c) \/ OnMessageUnsent(c)
    <3>1. Close(c) /\ Opened(c)
      BY <2>3 DEF OnMessageBadUnsent, OnMessageUnsent, Readable
    <3>2. counter_' \in Nat /\ ip_counter_' \in [Ips -> Nat]
      BY <3>1, UncountTypes DEF Close
    <3>3. broken' \in BOOLEAN
      BY <2>3, Zenon DEF OnMessageBadUnsent, OnMessageUnsent, TypeOK
    <3> QED
      BY <2>3, <3>1, <3>2, <3>3 DEF OnMessageBadUnsent, OnMessageUnsent, Close, TypeOK, wheel
  <2>4. CASE OnMessageAfterLast(c)
    BY <2>4 DEF OnMessageAfterLast, TypeOK, monitor, wheel
  <2>5. CASE OnMessageNoContext(c)
    <3>1. broken' \in BOOLEAN
      BY <2>5, Zenon DEF OnMessageNoContext
    <3> QED
      BY <2>5, <3>1 DEF OnMessageNoContext, TypeOK, monitor, wheel
  <2> QED
    BY <1>4, <2>1, <2>2, <2>3, <2>4, <2>5 DEF OnMessage
<1>5. ASSUME NEW l \in Loops, RunForceClose(l) PROVE TypeOK'
  <2>1. funcs[l] \in Seq(Conns) /\ Head(funcs[l]) \in Conns /\ Tail(funcs[l]) \in Seq(Conns)
    BY <1>5 DEF RunForceClose, TypeOK
  <2>2. funcs' \in [Loops -> Seq(Conns)]
    BY <1>5, <2>1 DEF RunForceClose, TypeOK
  <2>3. CASE Opened(Head(funcs[l]))
    <3>1. Close(Head(funcs[l]))
      BY <1>5, <2>3 DEF RunForceClose
    <3>2. counter_' \in Nat /\ ip_counter_' \in [Ips -> Nat]
      BY <2>1, <2>3, <3>1, UncountTypes DEF Close
    <3> QED
      BY <1>5, <2>1, <2>2, <3>1, <3>2 DEF RunForceClose, Close, TypeOK, wheel
  <2>4. CASE ~Opened(Head(funcs[l]))
    BY <1>5, <2>2, <2>4 DEF RunForceClose, TypeOK, wheel, monitor
  <2> QED
    BY <2>3, <2>4
<1>6. ASSUME NEW l \in Loops, OnTimer(l) PROVE TypeOK'
  <2>1. NextTick(l) \in Ticks
    BY DEF NextTick, TypeOK, Ticks
  <2>2. current' \in [Loops -> Ticks] /\ buckets_' \in [Loops -> [Ticks -> SUBSET Conns]]
    BY <1>6, <2>1 DEF OnTimer, TypeOK
  <2>3. since' \in [Conns -> Nat]
    BY <1>6 DEF OnTimer, OneTickOlder, TypeOK
  <2>4. state_' \in [Conns -> {"none", "kConnected", "kDisconnecting", "kDisconnected"}]
    BY <1>6 DEF OnTimer, ShutDownAll, TypeOK
  <2> QED
    BY <1>6, <2>2, <2>3, <2>4 DEF OnTimer, TypeOK, monitor
<1>7. CASE UNCHANGED vars
  BY <1>7 DEF vars, TypeOK, monitor, wheel
<1> QED
  BY <1>1, <1>2, <1>3, <1>4, <1>5, <1>6, <1>7 DEF Next

-----------------------------------------------------------------------------
(* The counters and the limits.                                            *)

\* A connection that begins is counted, in all and for its address.
LEMMA CountOpens ==
  ASSUME IInv, NEW c \in Conns, state_[c] = "none", Count(c),
         state_'[c] \in {"kConnected", "kDisconnecting"},
         \A d \in Conns : d # c => state_'[d] = state_[d]
  PROVE  CountsInv'
<1> USE ConnsAssumption DEF IInv, TypeOK, CountsInv, Count
<1>1. OpenConns' = OpenConns \cup {c} /\ c \notin OpenConns
  BY DEF OpenConns, Opened
<1>2. IsFiniteSet(OpenConns') /\ Cardinality(OpenConns') = Cardinality(OpenConns) + 1
  BY <1>1, FS_AddElement
<1>3. ASSUME NEW i \in Ips, kMaxIpConnections # 0
      PROVE  ip_counter_'[i] = Cardinality(OpenFrom(i)')
  <2>1. IsFiniteSet(OpenFrom(i))
    <3>1. OpenFrom(i) \in SUBSET OpenConns
      BY DEF OpenFrom, OpenConns
    <3> QED
      BY <3>1, FS_Subset
  <2>2. CASE IpOf[c] = i
    <3>1. OpenFrom(i)' = OpenFrom(i) \cup {c} /\ c \notin OpenFrom(i)
      BY <2>2 DEF OpenFrom, Opened
    <3>2. Cardinality(OpenFrom(i) \cup {c}) = Cardinality(OpenFrom(i)) + 1
      BY <2>1, <3>1, FS_AddElement
    <3> QED
      BY <1>3, <2>2, <3>1, <3>2
  <2>3. CASE IpOf[c] # i
    <3>1. OpenFrom(i)' = OpenFrom(i)
      BY <2>3 DEF OpenFrom, Opened
    <3> QED
      BY <1>3, <2>3, <3>1
  <2> QED
    BY <2>2, <2>3
<1> QED
  BY <1>2, <1>3

\* A connection that closes is counted down.
LEMMA CountCloses ==
  ASSUME IInv, NEW c \in Conns, Opened(c), Close(c)
  PROVE  CountsInv'
<1> USE ConnsAssumption DEF IInv, TypeOK, CountsInv, Close, Uncount
<1>1. OpenConns' = OpenConns \ {c} /\ c \in OpenConns
  BY DEF OpenConns, Opened
<1>2. IsFiniteSet(OpenConns') /\ Cardinality(OpenConns') = Cardinality(OpenConns) - 1
  BY <1>1, FS_RemoveElement
<1>3. ASSUME NEW i \in Ips, kMaxIpConnections # 0
      PROVE  ip_counter_'[i] = Cardinality(OpenFrom(i)')
  <2>1. IsFiniteSet(OpenFrom(i))
    <3>1. OpenFrom(i) \in SUBSET OpenConns
      BY DEF OpenFrom, OpenConns
    <3> QED
      BY <3>1, FS_Subset
  <2>2. CASE IpOf[c] = i
    <3>1. OpenFrom(i)' = OpenFrom(i) \ {c} /\ c \in OpenFrom(i)
      BY <2>2 DEF OpenFrom, Opened
    <3>2. Cardinality(OpenFrom(i) \ {c}) = Cardinality(OpenFrom(i)) - 1
      BY <2>1, <3>1, FS_RemoveElement
    <3> QED
      BY <1>3, <2>2, <3>1, <3>2
  <2>3. CASE IpOf[c] # i
    <3>1. OpenFrom(i)' = OpenFrom(i)
      BY <2>3 DEF OpenFrom, Opened
    <3> QED
      BY <1>3, <2>3, <3>1
  <2> QED
    BY <2>2, <2>3
<1> QED
  BY <1>2, <1>3

\* A step after which the same connections are open leaves the counters right.
LEMMA CountKeeps ==
  ASSUME IInv, UNCHANGED monitor, \A c \in Conns : Opened(c)' <=> Opened(c)
  PROVE  CountsInv'
<1>1. OpenConns' = OpenConns /\ \A i \in Ips : OpenFrom(i)' = OpenFrom(i)
  BY DEF OpenConns, OpenFrom
<1> QED
  BY <1>1 DEF IInv, CountsInv, monitor

\* A step that opens no connection that is served keeps the limits.
LEMMA ServedShrinks ==
  ASSUME IInv, served' = served, \A c \in served : Opened(c)' => Opened(c),
         \A c \in served : state_'[c] # "none"
  PROVE  ServedInv'
<1> USE OptionsAssumption DEF IInv, TypeOK
<1>1. IsFiniteSet(ServedOpen) /\ \A i \in Ips : IsFiniteSet(ServedFrom(i))
  <2>1. ServedOpen \in SUBSET OpenConns /\ \A i \in Ips : ServedFrom(i) \in SUBSET OpenConns
    BY DEF ServedOpen, ServedFrom, OpenConns
  <2> QED
    BY <2>1, FS_Subset DEF CountsInv
<1>2. ServedOpen' \in SUBSET ServedOpen /\ \A i \in Ips : ServedFrom(i)' \in SUBSET ServedFrom(i)
  BY DEF ServedOpen, ServedFrom
<1>3. /\ Cardinality(ServedOpen') \in Nat /\ Cardinality(ServedOpen) \in Nat
      /\ Cardinality(ServedOpen') <= Cardinality(ServedOpen)
  BY <1>1, <1>2, FS_Subset, FS_CardinalityType
<1>4. ASSUME NEW i \in Ips
      PROVE  /\ Cardinality(ServedFrom(i)') \in Nat /\ Cardinality(ServedFrom(i)) \in Nat
             /\ Cardinality(ServedFrom(i)') <= Cardinality(ServedFrom(i))
  BY <1>1, <1>2, FS_Subset, FS_CardinalityType
<1> QED
  BY <1>3, <1>4 DEF ServedInv

\* A connection that is let in fits: all that are served are counted.
LEMMA ServedOpens ==
  ASSUME IInv, NEW c \in Conns, OnConnection(c), CountsInv'
  PROVE  ServedInv'
<1> USE ConnsAssumption, OptionsAssumption DEF IInv, TypeOK
<1>1. \A d \in served' : state_'[d] # "none"
  BY DEF OnConnection, ServedInv
<1>2. Cardinality(ServedOpen') <= kMaxAllConnections
  <2>1. counter_' <= kMaxAllConnections
    BY DEF OnConnection, TooMany, Count
  <2>2. ServedOpen' \in SUBSET OpenConns'
    BY DEF OnConnection, ServedOpen, OpenConns
  <2>3. /\ Cardinality(ServedOpen') <= Cardinality(OpenConns')
        /\ Cardinality(ServedOpen') \in Nat /\ Cardinality(OpenConns') \in Nat
    BY <2>2, FS_Subset, FS_CardinalityType DEF CountsInv
  <2> QED
    BY <2>1, <2>3 DEF CountsInv
<1>3. ASSUME NEW i \in Ips, kMaxIpConnections # 0
      PROVE  Cardinality(ServedFrom(i)') <= kMaxIpConnections
  <2>1. CASE IpOf[c] = i
    <3>1. ip_counter_'[i] <= kMaxIpConnections
      BY <1>3, <2>1 DEF OnConnection, TooMany, Count
    <3>2. ServedFrom(i)' \in SUBSET OpenFrom(i)' /\ OpenFrom(i)' \in SUBSET OpenConns'
      BY DEF OnConnection, ServedFrom, OpenFrom, OpenConns
    <3>3. IsFiniteSet(OpenFrom(i)')
      BY <3>2, FS_Subset DEF CountsInv
    <3>4. /\ Cardinality(ServedFrom(i)') <= Cardinality(OpenFrom(i)')
          /\ Cardinality(ServedFrom(i)') \in Nat /\ Cardinality(OpenFrom(i)') \in Nat
      BY <3>2, <3>3, FS_Subset, FS_CardinalityType
    <3> QED
      BY <1>3, <3>1, <3>4 DEF CountsInv
  <2>2. CASE IpOf[c] # i
    <3>1. ServedFrom(i)' = ServedFrom(i)
      BY <2>2 DEF OnConnection, ServedFrom, Opened
    <3> QED
      BY <1>3, <3>1 DEF ServedInv
  <2> QED
    BY <2>1, <2>2
<1> QED
  BY <1>1, <1>2, <1>3 DEF ServedInv

\* Shutting connections down closes none of them.
LEMMA ShutDownKeeps ==
  ASSUME TypeOK, NEW cs, ShutDownAll(cs)
  PROVE  \A c \in Conns : /\ Opened(c)' <=> Opened(c)
                          /\ state_[c] # "none" => state_'[c] # "none"
BY DEF TypeOK, ShutDownAll, Opened

\* A step keeps the counters right and the limits kept.
LEMMA NextLimits == IInv /\ [Next]_vars => CountsInv' /\ ServedInv'
<1> SUFFICES ASSUME IInv, [Next]_vars PROVE CountsInv' /\ ServedInv'
  OBVIOUS
<1>1. ASSUME NEW c \in Conns, OnConnection(c) PROVE CountsInv' /\ ServedInv'
  <2>1. CountsInv'
    BY <1>1, CountOpens DEF OnConnection, IInv, TypeOK
  <2> QED
    BY <1>1, <2>1, ServedOpens
<1>2. ASSUME NEW c \in Conns, OnConnectionRefused(c) PROVE CountsInv' /\ ServedInv'
  <2>1. CountsInv'
    BY <1>2, CountOpens DEF OnConnectionRefused, IInv, TypeOK
  <2>2. c \notin served
    BY <1>2 DEF OnConnectionRefused, IInv, ServedInv
  <2>3. \A d \in served : state_'[d] = state_[d]
    BY <1>2, <2>2 DEF OnConnectionRefused, IInv, TypeOK
  <2>4. ServedInv'
    BY <1>2, <2>3, ServedShrinks DEF OnConnectionRefused, IInv, ServedInv, Opened
  <2> QED
    BY <2>1, <2>4
<1>3. ASSUME NEW c \in Conns, Opened(c), Close(c), served' = served
      PROVE  CountsInv' /\ ServedInv'
  <2>1. CountsInv'
    BY <1>3, CountCloses
  <2>2. \A d \in served : (Opened(d)' => Opened(d)) /\ state_'[d] # "none"
    BY <1>3 DEF Close, Opened, IInv, TypeOK, ServedInv
  <2> QED
    BY <1>3, <2>1, <2>2, ServedShrinks
<1>4. ASSUME UNCHANGED <<monitor, served>>,
             \A c \in Conns : /\ Opened(c)' <=> Opened(c)
                              /\ state_[c] # "none" => state_'[c] # "none"
      PROVE  CountsInv' /\ ServedInv'
  <2>1. \A c \in served : (Opened(c)' => Opened(c)) /\ state_'[c] # "none"
    BY <1>4 DEF IInv, TypeOK, ServedInv
  <2> QED
    BY <1>4, <2>1, CountKeeps, ServedShrinks
<1>5. ASSUME UNCHANGED <<monitor, served, state_>> PROVE CountsInv' /\ ServedInv'
  BY <1>4, <1>5 DEF Opened
<1>6. ASSUME NEW c \in Conns, HandleClose(c) PROVE CountsInv' /\ ServedInv'
  BY <1>3, <1>6 DEF HandleClose
<1>7. ASSUME NEW c \in Conns, OnMessage(c) PROVE CountsInv' /\ ServedInv'
  <2>1. CASE OnMessageBad(c) \/ OnMessageLast(c)
    BY <1>4, <2>1, ShutDownKeeps DEF OnMessageBad, OnMessageLast, IInv
  <2>2. CASE OnMessageBadUnsent(c) \/ OnMessageUnsent(c)
    BY <1>3, <2>2 DEF OnMessageBadUnsent, OnMessageUnsent, Readable
  <2>3. CASE OnMessageKept(c) \/ OnMessageAfterLast(c) \/ OnMessageNoContext(c)
    BY <1>5, <2>3 DEF OnMessageKept, OnMessageAfterLast, OnMessageNoContext
  <2> QED
    BY <1>7, <2>1, <2>2, <2>3 DEF OnMessage
<1>8. ASSUME NEW l \in Loops, RunForceClose(l) PROVE CountsInv' /\ ServedInv'
  <2>1. Head(funcs[l]) \in Conns
    BY <1>8 DEF RunForceClose, IInv, TypeOK
  <2> QED
    BY <1>3, <1>5, <1>8, <2>1 DEF RunForceClose
<1>9. ASSUME NEW l \in Loops, OnTimer(l) PROVE CountsInv' /\ ServedInv'
  BY <1>4, <1>9, ShutDownKeeps DEF OnTimer, IInv
<1>10. CASE UNCHANGED vars
  BY <1>5, <1>10 DEF vars
<1> QED
  BY <1>1, <1>2, <1>6, <1>7, <1>8, <1>9, <1>10 DEF Next

-----------------------------------------------------------------------------
(* The wheel of buckets.                                                   *)

\* The bucket the wheel turns to is its oldest, and no other one is as old.
LEMMA OldestBucket ==
  ASSUME TypeOK, NEW l \in Loops
  PROVE  /\ NextTick(l) \in Ticks
         /\ Age(current[l], current[l]) = 0
         /\ \A t \in Ticks : /\ Age(current[l], t) \in 0..idle_ticks_ - 1
                             /\ Age(current[l], t) = idle_ticks_ - 1 <=> t = NextTick(l)
<1>1. current[l] \in Ticks
  BY DEF TypeOK
<1> QED
  BY <1>1, OptionsAssumption DEF Age, NextTick, Ticks

\* A turn of the wheel makes every other bucket of the loop a tick older.
LEMMA TurnAges ==
  ASSUME TypeOK, NEW l \in Loops, NEW t \in Ticks, t # NextTick(l)
  PROVE  Age(NextTick(l), t) = Age(current[l], t) + 1
<1>1. current[l] \in Ticks
  BY DEF TypeOK
<1> QED
  BY <1>1, OptionsAssumption DEF Age, NextTick, Ticks

\* What is connected and was last put into the oldest bucket has its Entry there
\* only, so that clearing the bucket shuts it down.
LEMMA OldestExpires ==
  ASSUME IInv, NEW l \in Loops, NEW c \in Conns, owner[c] = l, state_[c] = "kConnected",
         index[c] = NextTick(l)
  PROVE  c \in Expired(l, NextTick(l))
<1> DEFINE n == NextTick(l)
<1>1. c \in buckets_[l][n] /\ since[c] = Age(current[l], n)
  BY DEF IInv, WheelInv
<1>2. n \in Ticks /\ since[c] = idle_ticks_ - 1
  BY <1>1, OldestBucket DEF IInv, WheelInv
<1>3. ASSUME NEW u \in Ticks \ {n} PROVE c \notin buckets_[l][u]
  <2>1. Age(current[l], u) \in 0..idle_ticks_ - 1 /\ Age(current[l], u) # idle_ticks_ - 1
    BY OldestBucket DEF IInv
  <2>2. c \in buckets_[l][u] => since[c] <= Age(current[l], u)
    BY DEF IInv, WheelInv
  <2> QED
    BY <1>2, <2>1, <2>2, OptionsAssumption
<1> QED
  BY <1>1, <1>3 DEF Expired

\* A connection put into the bucket of the current tick is in it, and its age is 0.
LEMMA UpdateBucketsWheel ==
  ASSUME IInv, NEW c \in Conns, UpdateBuckets(c), owner' = owner,
         state_'[c] = "kConnected", state_[c] \in {"none", "kConnected"},
         \A d \in Conns : d # c => state_'[d] = state_[d]
  PROVE  WheelInv'
<1> DEFINE l == owner[c]
<1>1. /\ l \in Loops /\ current[l] \in Ticks /\ current' = current
      /\ current[l] # idle_ticks_
  BY OptionsAssumption DEF IInv, TypeOK, UpdateBuckets, Ticks
<1>2. /\ index'[c] = current[l]
      /\ since'[c] = 0
      /\ \A d \in Conns : d # c => index'[d] = index[d] /\ since'[d] = since[d]
  BY <1>1 DEF UpdateBuckets, IInv, TypeOK
<1>3. /\ \A m \in Loops : \A t \in Ticks : m # l \/ t # current[l] => buckets_'[m][t] = buckets_[m][t]
      /\ buckets_'[l][current[l]] = buckets_[l][current[l]] \cup {c}
  <2>1. CASE index[c] # current[l]
    BY <1>1, <2>1 DEF UpdateBuckets, IInv, TypeOK
  <2>2. CASE index[c] = current[l]
    <3>1. state_[c] = "kConnected"
      BY <1>1, <2>2 DEF IInv, WheelInv
    <3>2. c \in buckets_[l][current[l]] /\ buckets_' = buckets_
      BY <2>2, <3>1 DEF IInv, WheelInv, UpdateBuckets
    <3> QED
      BY <3>2
  <2> QED
    BY <2>1, <2>2
<1>4. \A m \in Loops : \A t \in Ticks : \A d \in Conns :
         d # c => (d \in buckets_'[m][t] <=> d \in buckets_[m][t])
  BY <1>3
<1>6. \A d \in Conns : state_'[d] = "none" => index'[d] = idle_ticks_
  BY <1>2 DEF IInv, WheelInv
<1>7. ASSUME NEW m \in Loops, NEW t \in Ticks, NEW d \in buckets_'[m][t]
      PROVE  owner[d] = m
  BY <1>3 DEF IInv, WheelInv
<1>8. ASSUME NEW d \in Conns, state_'[d] = "kConnected"
      PROVE  /\ index'[d] \in Ticks
             /\ d \in buckets_'[owner[d]][index'[d]]
             /\ since'[d] = Age(current[owner[d]], index'[d])
             /\ \A t \in Ticks : d \in buckets_'[owner[d]][t] => since'[d] <= Age(current[owner[d]], t)
  <2>1. CASE d = c
    <3>1. Age(current[l], current[l]) = 0 /\ \A t \in Ticks : Age(current[l], t) \in 0..idle_ticks_ - 1
      BY <1>1, OldestBucket DEF IInv
    <3> QED
      BY <1>1, <1>2, <1>3, <2>1, <3>1, OptionsAssumption
  <2>2. CASE d # c
    <3>1. state_[d] = "kConnected" /\ owner[d] \in Loops
      BY <1>8, <2>2 DEF IInv, TypeOK
    <3> QED
      BY <1>2, <1>4, <2>2, <3>1 DEF IInv, WheelInv
  <2> QED
    BY <2>1, <2>2
<1> QED
  BY <1>1, <1>6, <1>7, <1>8 DEF WheelInv

\* A step that leaves the wheel alone and connects nothing keeps it right.
LEMMA WheelKept ==
  ASSUME IInv, UNCHANGED <<wheel, since, owner>>,
         \A c \in Conns : state_'[c] \in {"none", "kConnected"} => state_'[c] = state_[c]
  PROVE  WheelInv'
BY DEF IInv, WheelInv, wheel, Age

\* The timer of a loop keeps it right.
LEMMA OnTimerWheel ==
  ASSUME IInv, NEW l \in Loops, OnTimer(l)
  PROVE  WheelInv'
<1> DEFINE n == NextTick(l)
<1>1. n \in Ticks
  BY OldestBucket DEF IInv
<1>2. /\ \A m \in Loops : \A t \in Ticks : m # l \/ t # n => buckets_'[m][t] = buckets_[m][t]
      /\ buckets_'[l][n] = {}
  BY <1>1 DEF OnTimer, IInv, TypeOK
<1>3. owner' = owner /\ index' = index
  BY DEF OnTimer
<1>4. \A c \in Conns : state_'[c] = "none" => index'[c] = idle_ticks_
  BY <1>3 DEF OnTimer, ShutDownAll, IInv, WheelInv
<1>5. ASSUME NEW m \in Loops, NEW t \in Ticks, NEW c \in buckets_'[m][t]
      PROVE  owner'[c] = m
  BY <1>2, <1>3 DEF IInv, WheelInv
<1>6. ASSUME NEW c \in Conns, state_'[c] = "kConnected"
      PROVE  LET k == current'[owner[c]] IN
             /\ index[c] \in Ticks
             /\ c \in buckets_'[owner[c]][index[c]]
             /\ since'[c] = Age(k, index[c])
             /\ \A t \in Ticks : c \in buckets_'[owner[c]][t] => since'[c] <= Age(k, t)
  <2>1. /\ state_[c] = "kConnected" /\ c \notin Expired(l, n)
        /\ owner[c] \in Loops /\ since[c] \in Nat /\ index[c] \in Ticks
        /\ since'[c] = IF owner[c] = l THEN since[c] + 1 ELSE since[c]
    BY <1>6 DEF OnTimer, ShutDownAll, OneTickOlder, IInv, TypeOK, WheelInv
  <2>2. /\ c \in buckets_[owner[c]][index[c]]
        /\ since[c] = Age(current[owner[c]], index[c])
        /\ \A t \in Ticks :
              c \in buckets_[owner[c]][t] => since[c] <= Age(current[owner[c]], t)
    BY <2>1 DEF IInv, WheelInv
  <2>3. CASE owner[c] = l
    <3>1. index[c] # n /\ current'[l] = n
      BY <2>1, <2>3, OldestExpires DEF OnTimer, IInv, TypeOK
    <3>2. \A t \in Ticks : Age(current[l], t) \in Int
      BY OldestBucket DEF IInv
    <3>3. \A t \in Ticks : t # n => Age(n, t) = Age(current[l], t) + 1
      BY TurnAges DEF IInv
    <3>4. c \in buckets_'[l][index[c]]
      BY <1>2, <2>1, <2>2, <2>3, <3>1
    <3>5. since'[c] = Age(n, index[c])
      BY <2>1, <2>2, <2>3, <3>1, <3>3
    <3>6. ASSUME NEW t \in Ticks, c \in buckets_'[l][t] PROVE since'[c] <= Age(n, t)
      <4>1. t # n /\ c \in buckets_[l][t]
        BY <1>2, <3>6
      <4>2. since[c] <= Age(current[l], t) /\ Age(n, t) = Age(current[l], t) + 1
        BY <2>2, <2>3, <3>3, <4>1
      <4> QED
        BY <2>1, <2>3, <3>2, <4>2
    <3> QED
      BY <2>1, <2>3, <3>1, <3>4, <3>5, <3>6
  <2>4. CASE owner[c] # l
    <3>1. current'[owner[c]] = current[owner[c]]
      BY <2>1, <2>4 DEF OnTimer, IInv, TypeOK
    <3> QED
      BY <1>2, <2>1, <2>2, <2>4, <3>1
  <2> QED
    BY <2>3, <2>4
<1> QED
  BY <1>3, <1>4, <1>5, <1>6 DEF WheelInv

\* A step keeps the wheel right.
LEMMA NextWheel == IInv /\ [Next]_vars => WheelInv'
<1> SUFFICES ASSUME IInv, [Next]_vars PROVE WheelInv'
  OBVIOUS
<1>1. ASSUME NEW c \in Conns, OnConnection(c) PROVE WheelInv'
  BY <1>1, UpdateBucketsWheel DEF OnConnection, IInv, TypeOK
<1>2. ASSUME NEW c \in Conns, OnConnectionRefused(c) PROVE WheelInv'
  BY <1>2, WheelKept DEF OnConnectionRefused, IInv, TypeOK
<1>3. ASSUME NEW c \in Conns, Close(c), UNCHANGED <<wheel, since, owner>> PROVE WheelInv'
  BY <1>3, WheelKept DEF Close, IInv, TypeOK
<1>4. ASSUME NEW c \in Conns, HandleClose(c) PROVE WheelInv'
  BY <1>3, <1>4 DEF HandleClose
<1>5. ASSUME NEW c \in Conns, OnMessage(c) PROVE WheelInv'
  <2>1. CASE OnMessageKept(c)
    <3>1. CASE state_[c] = "kConnected" /\ EntryAlive(c)
      <4>1. UpdateBuckets(c) /\ state_' = state_ /\ owner' = owner
        BY <2>1, <3>1 DEF OnMessageKept, Refresh
      <4> QED
        BY <3>1, <4>1, UpdateBucketsWheel
    <3>2. CASE ~(state_[c] = "kConnected" /\ EntryAlive(c))
      BY <2>1, <3>2, WheelKept DEF OnMessageKept, Refresh
    <3> QED
      BY <3>1, <3>2
  <2>2. CASE OnMessageBad(c) \/ OnMessageLast(c)
    BY <2>2, WheelKept DEF OnMessageBad, OnMessageLast, ShutDownAll
  <2>3. CASE OnMessageBadUnsent(c) \/ OnMessageUnsent(c)
    BY <1>3, <2>3 DEF OnMessageBadUnsent, OnMessageUnsent
  <2>4. CASE OnMessageAfterLast(c) \/ OnMessageNoContext(c)
    BY <2>4, WheelKept DEF OnMessageAfterLast, OnMessageNoContext
  <2> QED
    BY <1>5, <2>1, <2>2, <2>3, <2>4 DEF OnMessage
<1>6. ASSUME NEW l \in Loops, RunForceClose(l) PROVE WheelInv'
  <2>1. Head(funcs[l]) \in Conns
    BY <1>6 DEF RunForceClose, IInv, TypeOK
  <2>2. CASE Opened(Head(funcs[l]))
    BY <1>3, <1>6, <2>1, <2>2 DEF RunForceClose
  <2>3. CASE ~Opened(Head(funcs[l]))
    BY <1>6, <2>3, WheelKept DEF RunForceClose
  <2> QED
    BY <2>2, <2>3
<1>7. CASE UNCHANGED vars
  BY <1>7, WheelKept DEF vars
<1> QED
  BY <1>1, <1>2, <1>4, <1>5, <1>6, <1>7, OnTimerWheel DEF Next

-----------------------------------------------------------------------------
(* The theorems.                                                           *)

\* The inductive invariant holds in every reachable state.
THEOREM Invariance == Spec => []IInv
<1>1. IInv /\ [Next]_vars => IInv'
  BY NextTypeOK, NextLimits, NextWheel DEF IInv
<1> QED
  BY <1>1, InitIInv, PTL DEF Spec

\* TcpMonitor's counters are at all times the numbers of open connections, and the
\* connections OnConnection let in stay within both limits.
THEOREM CountedWithinLimits == Spec => []LimitsHold
<1>1. IInv => LimitsHold
  <2> SUFFICES ASSUME IInv PROVE LimitsHold
    OBVIOUS
  <2>1. {c \in Conns : Opened(c)} = OpenConns /\ {c \in served : Opened(c)} = ServedOpen
    BY DEF OpenConns, ServedOpen
  <2>2. \A i : {c \in {d \in Conns : IpOf[d] = i} : Opened(c)} = OpenFrom(i)
    BY DEF OpenFrom
  <2>3. \A i : {c \in served \cap {d \in Conns : IpOf[d] = i} : Opened(c)} = ServedFrom(i)
    BY DEF ServedFrom, IInv, TypeOK
  <2> QED
    BY <2>1, <2>2, <2>3 DEF LimitsHold, IInv, CountsInv, ServedInv
<1> QED
  BY <1>1, Invariance, PTL

\* A connection that is served and silent is shut down before idle_ticks_ ticks.
THEOREM SilentShutDown == Spec => []IdleShutDown
<1>1. IInv => IdleShutDown
  <2> SUFFICES ASSUME IInv, NEW c \in served, state_[c] = "kConnected"
               PROVE  since[c] < idle_ticks_
    BY DEF IdleShutDown
  <2>1. c \in Conns /\ owner[c] \in Loops
    BY DEF IInv, TypeOK
  <2>2. index[c] \in Ticks /\ since[c] = Age(current[owner[c]], index[c])
    BY <2>1 DEF IInv, WheelInv
  <2>3. since[c] \in 0..idle_ticks_ - 1
    BY <2>1, <2>2, OldestBucket DEF IInv
  <2> QED
    BY <2>3, OptionsAssumption
<1> QED
  BY <1>1, Invariance, PTL

\* The timer shuts down only what has been silent for idle_ticks_ - 1 ticks.
THEOREM ActiveSpared == Spec => ActiveKept
<1> DEFINE Spared == \A c \in Conns, l \in Loops :
                        OnTimer(l) /\ state_[c] = "kConnected" /\ state_'[c] = "kDisconnecting"
                           => since[c] + 1 = idle_ticks_
<1>1. IInv /\ [Next]_vars => [Spared]_vars
  <2> SUFFICES ASSUME IInv, NEW c \in Conns, NEW l \in Loops, OnTimer(l),
                      state_[c] = "kConnected", state_'[c] = "kDisconnecting"
               PROVE  since[c] + 1 = idle_ticks_
    OBVIOUS
  <2>1. c \in Expired(l, NextTick(l))
    BY DEF OnTimer, ShutDownAll
  <2>2. NextTick(l) \in Ticks
    BY OldestBucket DEF IInv
  <2>3. owner[c] = l /\ index[c] \in Ticks /\ c \in buckets_[l][index[c]]
    BY <2>1, <2>2 DEF Expired, IInv, WheelInv
  <2>4. index[c] = NextTick(l)
    BY <2>1, <2>3 DEF Expired
  <2>5. since[c] = Age(current[l], NextTick(l))
    BY <2>3, <2>4 DEF IInv, WheelInv
  <2>6. since[c] = idle_ticks_ - 1
    BY <2>2, <2>5, OldestBucket DEF IInv
  <2> QED
    BY <2>6, OptionsAssumption
<1> QED
  BY <1>1, Invariance, PTL DEF Spec, ActiveKept
=============================================================================
