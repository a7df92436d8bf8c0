--------------------------- MODULE TcpServerProofs ---------------------------
(***************************************************************************)
(* Theorems about TcpServer, for every set of connections, every number of *)
(* loop threads and every limit.                                           *)
(***************************************************************************)
EXTENDS TcpServer, FiniteSetTheorems, SequenceTheorems, TLAPS

-----------------------------------------------------------------------------
(* The inductive invariant.                                                *)

Starting == phase \in {"new", "spawn", "wait"}
Running == phase \in {"listen", "up"}
Ending == phase \in {"exit", "join", "down"}

\* loops_ holds the loop threads in order, or the base loop when there are none.
LoopsInv ==
    /\ \A k \in 1..Len(loops_) : loops_[k] = Base \/ (loops_[k] = k /\ k <= size_)
    /\ Starting => Len(loops_) <= size_ /\ \A k \in 1..Len(loops_) : loops_[k] = k
    /\ phase = "wait" => Len(loops_) < size_
    /\ ~Starting => Len(loops_) >= 1
    /\ listening => phase = "up"
    /\ scan # NoScan => phase = "up"

\* Start() has waited for every loop it put into loops_, and of the loops that
\* Exit() was called on, at most one is left: the one the destructor joins.
ThreadsInv ==
    /\ Starting \/ Running => \A k \in 1..Len(loops_) :
          loops_[k] # Base => bg[loops_[k]] \in {"published", "looping"}
    /\ \A i \in BgIds : bg[i] = "looping" /\ exit_[i] => phase = "join"
    /\ \A i, j \in BgIds : bg[i] = "looping" /\ exit_[i] /\ bg[j] = "looping" /\ exit_[j] => i = j

\* A connection waits in one place: the backlog, the scan or the queue of the
\* loop that owns it.
UnownedInv == \A c \in Conns : state[c] \in {"new", "pending"} => owner[c] = NoLoop

BacklogInv ==
    /\ \A k \in 1..Len(backlog) : state[backlog[k]] = "pending"
    /\ \A j, k \in 1..Len(backlog) : backlog[j] = backlog[k] => j = k
    /\ scan # NoScan => /\ state[scan.conn] = "pending"
                        /\ \A k \in 1..Len(backlog) : backlog[k] # scan.conn

QueueInv ==
    /\ \A i \in BgIds : \A k \in 1..Len(funcs[i]) :
          state[funcs[i][k]] = "kConnecting" /\ owner[funcs[i][k]] = i
    /\ \A i \in BgIds : \A j, k \in 1..Len(funcs[i]) : funcs[i][j] = funcs[i][k] => j = k
    /\ \A c \in Conns : state[c] = "kConnecting" =>
          /\ owner[c] \in BgIds
          /\ \E k \in 1..Len(funcs[owner[c]]) : funcs[owner[c]][k] = c

PlaceInv == UnownedInv /\ BacklogInv /\ QueueInv

\* connection_size_ counts the connections that work in the loop, of which
\* there are finitely many.
Known(s) == {c \in Conns : s[c] # "new"}
Working(s, o, l) == {c \in Conns : o[c] = l /\ s[c] = "kConnected"}
CountInv ==
    /\ IsFiniteSet(Known(state))
    /\ \A l \in Loops : connection_size_[l] = Cardinality(Working(state, owner, l))

\* What GetMinLoop() has found among the loops it has looked at, if quiet.
ScanInv ==
    scan # NoScan =>
        /\ scan.i <= Len(loops_)
        /\ \E k \in 1..Len(loops_) : scan.loop = loops_[k]
        /\ quiet => /\ \A i \in BgIds : funcs[i] = <<>>
                    /\ scan.min = connection_size_[scan.loop]
                    /\ \A k \in 1..scan.i : scan.min <= connection_size_[loops_[k]]

IInv ==
    /\ OwnedByLiveLoop
    /\ LoopsInv
    /\ ThreadsInv
    /\ PlaceInv
    /\ CountInv
    /\ ScanInv

-----------------------------------------------------------------------------
(* Constants, and the steps that leave the connections alone.              *)

\* Loop threads are numbered from 1; the base loop and no loop are none of them.
LEMMA Ids ==
  /\ \A i \in BgIds : i \in Nat /\ i > 0
  /\ \A n \in Sizes : n \in Nat /\ \A i \in 1..n : i \in BgIds
  /\ Base \notin BgIds /\ NoLoop \notin Loops
<1>1. \A n \in Sizes : n \in Nat
  BY SizesAssumption
<1>2. \A n \in Sizes : \A i \in 1..n : i \in BgIds
  BY DEF BgIds
<1>3. \A i \in BgIds : i \in Nat /\ i > 0
  BY <1>1 DEF BgIds
<1> QED
  BY <1>1, <1>2, <1>3 DEF Base, NoLoop, Loops

\* A loop of loops_ is a loop, and a loop thread unless it is the base loop.
LEMMA LoopOfSchedule ==
  ASSUME IInv, NEW k \in 1..Len(loops_)
  PROVE  loops_[k] \in Loops /\ (loops_[k] # Base => loops_[k] \in BgIds)
BY ElementOfSeq DEF IInv, OwnedByLiveLoop, TypeOK, Loops

\* Steps of Start(), of the loop threads and of the destructor that touch no
\* connection keep the invariant if they keep what it says of the loops.
LEMMA ServerStep ==
  ASSUME IInv, UNCHANGED <<size_, connVars, next_, scan, quiet>>,
         phase' \in {"new", "spawn", "wait", "listen", "up", "exit", "join", "down"},
         bg' \in [BgIds -> {"none", "spawned", "published", "looping", "ended"}],
         exit_' \in [BgIds -> BOOLEAN],
         loops_' \in Seq(Loops),
         listening' \in BOOLEAN,
         LoopsInv', ThreadsInv',
         \A k \in 1..Len(loops_) :
            /\ k \in 1..Len(loops_') /\ loops_'[k] = loops_[k]
            /\ loops_[k] # Base /\ bg[loops_[k]] \in {"published", "looping"}
                  => bg'[loops_[k]] \in {"published", "looping"}
  PROVE  IInv'
<1>0. /\ size_' = size_ /\ backlog' = backlog /\ funcs' = funcs /\ state' = state
      /\ owner' = owner /\ connection_size_' = connection_size_
      /\ next_' = next_ /\ scan' = scan /\ (quiet' = quiet)
  BY DEF connVars
<1>1. TypeOK'
  BY <1>0 DEF IInv, OwnedByLiveLoop, TypeOK
<1>2. OwnedByLiveLoop'
  <2>1. ASSUME NEW c \in Conns, state'[c] \in {"kConnecting", "kConnected"}
        PROVE  /\ \E k \in 1..Len(loops_') : loops_'[k] = owner'[c]
               /\ owner'[c] # Base => bg'[owner'[c]] \in {"published", "looping"}
    <3>1. /\ \E k \in 1..Len(loops_) : loops_[k] = owner[c]
          /\ owner[c] # Base => bg[owner[c]] \in {"published", "looping"}
      BY <2>1 DEF IInv, OwnedByLiveLoop, connVars
    <3> QED
      BY <3>1 DEF connVars
  <2> QED
    BY <1>1, <2>1 DEF OwnedByLiveLoop
<1>3. PlaceInv'
  BY <1>0 DEF IInv, PlaceInv, UnownedInv, BacklogInv, QueueInv
<1>4. CountInv'
  BY <1>0 DEF IInv, CountInv
<1>5. ScanInv'
  <2> SUFFICES ASSUME scan' # NoScan
               PROVE  /\ scan'.i <= Len(loops_')
                      /\ \E k \in 1..Len(loops_') : scan'.loop = loops_'[k]
                      /\ quiet' => /\ \A i \in BgIds : funcs'[i] = <<>>
                                   /\ scan'.min = connection_size_'[scan'.loop]
                                   /\ \A k \in 1..scan'.i : scan'.min <= connection_size_'[loops_'[k]]
    BY DEF ScanInv
  <2>1. /\ scan # NoScan /\ scan.i <= Len(loops_) /\ scan' = scan /\ scan.i \in Nat
        /\ \E k \in 1..Len(loops_) : scan.loop = loops_[k]
    BY DEF IInv, ScanInv, OwnedByLiveLoop, TypeOK, Scans
  <2>2. Len(loops_) \in Nat /\ Len(loops_') \in Nat
    BY LenProperties DEF IInv, OwnedByLiveLoop, TypeOK
  <2>3. Len(loops_) <= Len(loops_')
    BY <2>2
  <2>4. \A k \in 1..scan.i : k \in 1..Len(loops_) /\ loops_'[k] = loops_[k]
    BY <2>1, <2>2
  <2> QED
    BY <2>1, <2>2, <2>3, <2>4 DEF IInv, ScanInv, connVars
<1> QED
  BY <1>2, <1>3, <1>4, <1>5 DEF IInv

\* The base loop's thread goes on with Start() or with the destructor.
LEMMA PhaseSteps ==
  ASSUME IInv, Start \/ EnableListen \/ ExitLoop \/ Destroyed
  PROVE  IInv'
<1>1. /\ UNCHANGED <<size_, connVars, next_, scan, quiet>>
      /\ UNCHANGED <<bg, loops_>>
  BY DEF Start, EnableListen, ExitLoop, Destroyed
<1>2. TypeOK /\ LoopsInv /\ ThreadsInv
  BY DEF IInv, OwnedByLiveLoop
<1>3. /\ phase \in {"new", "listen", "exit"}
      /\ phase' \in {"spawn", "up", "join", "down"}
      /\ phase = "new" <=> phase' = "spawn"
      /\ phase = "listen" <=> phase' = "up"
      /\ phase' = "join" \/ (exit_' = exit_)
      /\ (listening' = listening) \/ (listening' = TRUE /\ phase' = "up")
  BY DEF Start, EnableListen, ExitLoop, Destroyed
<1>4. exit_' \in [BgIds -> BOOLEAN] /\ (\A i \in BgIds : i # Leaving => exit_'[i] = exit_[i])
  BY <1>2 DEF Start, EnableListen, ExitLoop, Destroyed, TypeOK
<1>5. listening' \in BOOLEAN
  BY <1>2, <1>3 DEF TypeOK
<1>6. \A i \in BgIds : ~(bg[i] = "looping" /\ exit_[i])
  BY <1>2, <1>3 DEF ThreadsInv
<1>7. LoopsInv'
  BY <1>1, <1>2, <1>3 DEF LoopsInv, Starting
<1>8. ThreadsInv'
  <2>1. \A i \in BgIds : bg'[i] = "looping" /\ exit_'[i] => phase' = "join" /\ i = Leaving
    BY <1>1, <1>3, <1>4, <1>6
  <2>2. (Starting \/ Running)' => Starting \/ Running
    BY <1>3 DEF Starting, Running
  <2> QED
    BY <1>1, <1>2, <2>1, <2>2 DEF ThreadsInv
<1> QED
  BY <1>1, <1>2, <1>3, <1>4, <1>5, <1>7, <1>8, ServerStep DEF TypeOK

\* The thread of a BGEventLoop is made and comes into its Loop().
LEMMA ThreadSteps ==
  ASSUME IInv,
         SpawnThread \/ \E i \in BgIds : Publish(i) \/ EnterLoop(i)
  PROVE  IInv'
<1>1. /\ UNCHANGED <<size_, connVars, next_, scan, quiet>>
      /\ UNCHANGED <<loops_, listening>>
  BY DEF SpawnThread, Publish, EnterLoop
<1>2. TypeOK /\ LoopsInv /\ ThreadsInv
  BY DEF IInv, OwnedByLiveLoop
<1>3. CASE SpawnThread
  <2>1. Current \in BgIds /\ Len(loops_) \in Nat /\ Current = Len(loops_) + 1
    BY <1>2, <1>3, Ids, LenProperties DEF SpawnThread, Current, TypeOK
  <2>2. /\ phase = "spawn" /\ phase' = "wait" /\ Len(loops_) < size_ /\ exit_' = exit_
        /\ bg' = [bg EXCEPT ![Current] = "spawned"]
    BY <1>3 DEF SpawnThread
  <2>3. \A k \in 1..Len(loops_) : loops_[k] = k /\ k # Current
    BY <1>2, <2>1, <2>2 DEF LoopsInv, Starting
  <2>4. /\ bg' \in [BgIds -> {"none", "spawned", "published", "looping", "ended"}]
        /\ bg'[Current] = "spawned" /\ \A i \in BgIds : i # Current => bg'[i] = bg[i]
    BY <1>2, <2>1, <2>2 DEF TypeOK
  <2>5. \A k \in 1..Len(loops_) : loops_[k] # Base => loops_[k] \in BgIds
    BY LoopOfSchedule
  <2> HIDE DEF Current
  <2>6. LoopsInv'
    BY <1>1, <1>2, <2>2 DEF LoopsInv, Starting
  <2>7. ThreadsInv'
    <3>1. \A i \in BgIds : bg'[i] = "looping" /\ exit_'[i] => bg[i] = "looping" /\ exit_[i]
      BY <2>2, <2>4
    <3>2. \A i \in BgIds : ~(bg'[i] = "looping" /\ exit_'[i])
      BY <3>1, <2>2, <1>2 DEF ThreadsInv
    <3>3. \A k \in 1..Len(loops_) : loops_[k] # Base => bg'[loops_[k]] \in {"published", "looping"}
      BY <1>2, <2>2, <2>3, <2>4, <2>5 DEF ThreadsInv, Starting
    <3> QED
      BY <1>1, <3>2, <3>3 DEF ThreadsInv
  <2> QED
    BY <1>1, <1>2, <2>2, <2>3, <2>4, <2>5, <2>6, <2>7, ServerStep DEF TypeOK
<1>4. ASSUME NEW i \in BgIds, Publish(i) \/ EnterLoop(i)
      PROVE  IInv'
  <2>1. /\ bg' \in [BgIds -> {"none", "spawned", "published", "looping", "ended"}]
        /\ bg'[i] \in {"published", "looping"} /\ \A j \in BgIds : j # i => bg'[j] = bg[j]
        /\ exit_' \in [BgIds -> BOOLEAN]
        /\ phase' = phase
    BY <1>2, <1>4 DEF Publish, EnterLoop, TypeOK
  <2>2. \A j \in BgIds : bg'[j] = "looping" /\ exit_'[j] => bg[j] = "looping" /\ exit_[j]
    BY <1>2, <1>4 DEF Publish, EnterLoop, TypeOK
  <2>3. \A k \in 1..Len(loops_) : loops_[k] # Base => loops_[k] \in BgIds
    BY LoopOfSchedule
  <2>4. \A k \in 1..Len(loops_) :
          loops_[k] # Base /\ bg[loops_[k]] \in {"published", "looping"}
             => bg'[loops_[k]] \in {"published", "looping"}
    BY <2>1, <2>3
  <2>5. LoopsInv'
    BY <1>1, <1>2, <2>1 DEF LoopsInv, Starting
  <2>6. ThreadsInv'
    BY <1>1, <1>2, <2>1, <2>2, <2>4 DEF ThreadsInv, Starting, Running
  <2> QED
    BY <1>1, <1>2, <2>1, <2>4, <2>5, <2>6, ServerStep DEF TypeOK
<1> QED
  BY <1>3, <1>4

\* Schedule::Start() has waited for a loop, or has all of them.
LEMMA ScheduleSteps ==
  ASSUME IInv, GotLoop \/ ScheduleStarted
  PROVE  IInv'
<1>1. /\ UNCHANGED <<size_, connVars, next_, scan, quiet>>
      /\ UNCHANGED <<bg, exit_, listening>>
  BY DEF GotLoop, ScheduleStarted
<1>2. /\ TypeOK /\ LoopsInv /\ ThreadsInv /\ loops_ \in Seq(Loops) /\ Len(loops_) \in Nat
      /\ size_ \in Nat
  BY LenProperties, Ids DEF IInv, OwnedByLiveLoop, TypeOK
<1>3. \A k \in 1..Len(loops_) : loops_[k] # Base => loops_[k] \in BgIds
  BY LoopOfSchedule
<1>4. phase \in {"spawn", "wait"} /\ ~listening /\ scan = NoScan
  BY <1>2 DEF GotLoop, ScheduleStarted, LoopsInv
<1>5. \A k \in 1..Len(loops_) : loops_[k] = k /\ loops_[k] # Base /\ bg[loops_[k]] \in {"published", "looping"}
  BY <1>2, <1>4 DEF LoopsInv, ThreadsInv, Starting, Base
<1>6. \A i \in BgIds : ~(bg[i] = "looping" /\ exit_[i])
  BY <1>2, <1>4 DEF ThreadsInv
<1>7. CASE GotLoop
  <2>1. /\ phase' = "spawn" /\ loops_' = Append(loops_, Current) /\ Len(loops_) < size_
        /\ bg[Current] \in {"published", "looping"} /\ Current = Len(loops_) + 1
    BY <1>2, <1>7 DEF GotLoop, LoopsInv, Current
  <2>2. Current \in Loops
    BY <1>2, <2>1, Ids DEF TypeOK, Loops
  <2>3. /\ loops_' \in Seq(Loops) /\ Len(loops_') = Len(loops_) + 1
        /\ loops_'[Len(loops_) + 1] = Current
        /\ \A k \in 1..Len(loops_) : loops_'[k] = loops_[k]
    BY <1>2, <2>1, <2>2, AppendProperties
  <2> HIDE DEF Current
  <2>4. \A k \in 1..Len(loops_') : k \in 1..Len(loops_) \/ k = Len(loops_) + 1
    BY <1>2, <2>3
  <2>5. \A k \in 1..Len(loops_') : loops_'[k] = k /\ k <= size_
                                   /\ bg[loops_'[k]] \in {"published", "looping"}
    BY <1>2, <1>5, <2>1, <2>3, <2>4
  <2>6. LoopsInv'
    BY <1>1, <1>2, <1>4, <2>1, <2>3, <2>5 DEF LoopsInv, Starting
  <2>7. ThreadsInv'
    BY <1>1, <1>6, <2>5 DEF ThreadsInv
  <2>8. \A k \in 1..Len(loops_) : k \in 1..Len(loops_') /\ loops_'[k] = loops_[k]
    BY <1>2, <2>3
  <2> QED
    BY <1>1, <1>2, <2>1, <2>3, <2>6, <2>7, <2>8, ServerStep DEF TypeOK
<1>8. CASE ScheduleStarted
  <2>1. /\ phase' = "listen" /\ Len(loops_) = size_
        /\ loops_' = IF size_ = 0 THEN <<Base>> ELSE loops_
    BY <1>8 DEF ScheduleStarted
  <2>2. CASE size_ = 0
    <3>1. loops_' = <<Base>> /\ Len(<<Base>>) = 1 /\ <<Base>>[1] = Base /\ <<Base>> \in Seq(Loops)
      BY <2>1, <2>2 DEF Loops
    <3>2. \A k \in 1..1 : k = 1
      OBVIOUS
    <3>3. \A k \in 1..Len(loops_') : loops_'[k] = Base
      BY <3>1, <3>2
    <3>4. LoopsInv'
      BY <1>1, <1>4, <2>1, <3>1, <3>3 DEF LoopsInv, Starting
    <3>5. ThreadsInv'
      BY <1>1, <1>6, <3>3 DEF ThreadsInv
    <3>6. \A k \in 1..Len(loops_) : FALSE
      BY <2>1, <2>2
    <3> QED
      BY <1>1, <1>2, <2>1, <3>1, <3>4, <3>5, <3>6, ServerStep DEF TypeOK
  <2>3. CASE size_ # 0
    <3>1. loops_' = loops_ /\ Len(loops_) >= 1
      BY <1>2, <2>1, <2>3
    <3>2. LoopsInv'
      BY <1>1, <1>2, <1>4, <2>1, <3>1 DEF LoopsInv, Starting
    <3>3. ThreadsInv'
      BY <1>1, <1>5, <1>6, <3>1 DEF ThreadsInv
    <3> QED
      BY <1>1, <1>2, <2>1, <3>1, <3>2, <3>3, ServerStep DEF TypeOK
  <2> QED
    BY <2>2, <2>3
<1> QED
  BY <1>7, <1>8

-----------------------------------------------------------------------------
(* The counts of the loops when one connection changes its state.          *)

\* The connections that work in a loop are finitely many.
LEMMA WorkingFinite ==
  ASSUME NEW s, NEW o, NEW l, IsFiniteSet(Known(s))
  PROVE  IsFiniteSet(Working(s, o, l)) /\ Cardinality(Working(s, o, l)) \in Nat
<1>1. Working(s, o, l) \subseteq Known(s)
  BY DEF Working, Known
<1>2. IsFiniteSet(Working(s, o, l))
  BY <1>1, FS_Subset
<1> QED
  BY <1>2, FS_CardinalityType

\* One more connection is known.
LEMMA KnownFinite ==
  ASSUME NEW s, NEW r, NEW c \in Conns, IsFiniteSet(Known(s)),
         \A d \in Conns : d # c => r[d] = s[d]
  PROVE  IsFiniteSet(Known(r))
<1>1. Known(r) \subseteq Known(s) \cup {c}
  BY DEF Known
<1>2. IsFiniteSet(Known(s) \cup {c})
  BY FS_AddElement
<1> QED
  BY <1>1, <1>2, FS_Subset

\* A connection that does not work before or after is not counted.
LEMMA CountSame ==
  ASSUME IInv, NEW c \in Conns, state[c] # "kConnected", state'[c] # "kConnected",
         \A d \in Conns : d # c => state'[d] = state[d] /\ owner'[d] = owner[d],
         UNCHANGED connection_size_
  PROVE  CountInv' /\ connection_size_' \in [Loops -> Nat]
<1>1. IsFiniteSet(Known(state'))
  BY KnownFinite DEF IInv, CountInv
<1>2. ASSUME NEW l \in Loops
      PROVE  Working(state', owner', l) = Working(state, owner, l)
  BY DEF Working
<1>3. CountInv'
  BY <1>1, <1>2 DEF IInv, CountInv
<1> QED
  BY <1>3 DEF IInv, OwnedByLiveLoop, TypeOK

\* AddConnection counts the connection that starts to work.
LEMMA CountMore ==
  ASSUME IInv, NEW c \in Conns, NEW l \in Loops, state[c] # "kConnected",
         state'[c] = "kConnected", owner'[c] = l,
         \A d \in Conns : d # c => state'[d] = state[d] /\ owner'[d] = owner[d],
         connection_size_' = [connection_size_ EXCEPT ![l] = @ + 1]
  PROVE  CountInv' /\ connection_size_' \in [Loops -> Nat]
<1>1. IsFiniteSet(Known(state'))
  BY KnownFinite DEF IInv, CountInv
<1>2. connection_size_ \in [Loops -> Nat]
  BY DEF IInv, OwnedByLiveLoop, TypeOK
<1>3. ASSUME NEW m \in Loops, m # l
      PROVE  connection_size_'[m] = Cardinality(Working(state', owner', m))
  <2>1. Working(state', owner', m) = Working(state, owner, m)
    BY <1>3 DEF Working
  <2> QED
    BY <1>2, <1>3, <2>1 DEF IInv, CountInv
<1>4. connection_size_'[l] = Cardinality(Working(state', owner', l))
  <2>1. /\ Working(state', owner', l) = Working(state, owner, l) \cup {c}
        /\ c \notin Working(state, owner, l)
    BY DEF Working
  <2>2. IsFiniteSet(Working(state, owner, l))
    BY WorkingFinite DEF IInv, CountInv
  <2>3. Cardinality(Working(state, owner, l) \cup {c}) = Cardinality(Working(state, owner, l)) + 1
    BY <2>1, <2>2, FS_AddElement
  <2> QED
    BY <1>2, <2>1, <2>3 DEF IInv, CountInv
<1>5. CountInv'
  BY <1>1, <1>3, <1>4 DEF CountInv
<1> QED
  BY <1>2, <1>5

\* RemoveConnection counts off the connection that is closed.
LEMMA CountLess ==
  ASSUME IInv, NEW c \in Conns, NEW l \in Loops, state[c] = "kConnected", owner[c] = l,
         state'[c] # "kConnected", UNCHANGED owner,
         \A d \in Conns : d # c => state'[d] = state[d],
         connection_size_' = [connection_size_ EXCEPT ![l] = @ - 1]
  PROVE  CountInv' /\ connection_size_' \in [Loops -> Nat]
<1>1. IsFiniteSet(Known(state'))
  BY KnownFinite DEF IInv, CountInv
<1>2. connection_size_ \in [Loops -> Nat]
  BY DEF IInv, OwnedByLiveLoop, TypeOK
<1>3. ASSUME NEW m \in Loops, m # l
      PROVE  connection_size_'[m] = Cardinality(Working(state', owner', m))
  <2>1. Working(state', owner', m) = Working(state, owner, m)
    BY <1>3 DEF Working
  <2> QED
    BY <1>2, <1>3, <2>1 DEF IInv, CountInv
<1>4. connection_size_'[l] = Cardinality(Working(state', owner', l))
  <2>1. /\ Working(state', owner', l) = Working(state, owner, l) \ {c}
        /\ c \in Working(state, owner, l)
    BY DEF Working
  <2>2. IsFiniteSet(Working(state, owner, l))
    BY WorkingFinite DEF IInv, CountInv
  <2>3. Cardinality(Working(state, owner, l) \ {c}) = Cardinality(Working(state, owner, l)) - 1
    BY <2>1, <2>2, FS_RemoveElement
  <2> QED
    BY <1>2, <2>1, <2>3 DEF IInv, CountInv
<1>5. CountInv'
  BY <1>1, <1>3, <1>4 DEF CountInv
<1>6. connection_size_'[l] \in Nat
  BY <1>1, <1>4, WorkingFinite
<1> QED
  BY <1>2, <1>5, <1>6

-----------------------------------------------------------------------------
(* The queues when one connection changes its state.                       *)

\* A connection that is in no queue before or after.
LEMMA QueueSame ==
  ASSUME IInv, NEW c \in Conns, state[c] # "kConnecting", state'[c] # "kConnecting",
         \A d \in Conns : d # c => state'[d] = state[d] /\ owner'[d] = owner[d],
         UNCHANGED funcs
  PROVE  QueueInv'
<1>1. QueueInv /\ funcs \in [BgIds -> Seq(Conns)]
  BY DEF IInv, PlaceInv, OwnedByLiveLoop, TypeOK
<1>2. ASSUME NEW i \in BgIds, NEW k \in 1..Len(funcs[i])
      PROVE  funcs[i][k] \in Conns /\ funcs[i][k] # c
  BY <1>1, ElementOfSeq DEF QueueInv
<1> QED
  BY <1>1, <1>2 DEF QueueInv

\* NewConnection queues the StartWorking of c to the loop thread l.
LEMMA QueueAppend ==
  ASSUME IInv, NEW c \in Conns, NEW l \in BgIds, state[c] # "kConnecting",
         state'[c] = "kConnecting", owner'[c] = l,
         \A d \in Conns : d # c => state'[d] = state[d] /\ owner'[d] = owner[d],
         funcs' = [funcs EXCEPT ![l] = Append(@, c)]
  PROVE  QueueInv' /\ funcs' \in [BgIds -> Seq(Conns)]
<1>1. QueueInv /\ funcs \in [BgIds -> Seq(Conns)]
  BY DEF IInv, PlaceInv, OwnedByLiveLoop, TypeOK
<1>2. ASSUME NEW i \in BgIds, NEW k \in 1..Len(funcs[i])
      PROVE  funcs[i][k] \in Conns /\ funcs[i][k] # c
  BY <1>1, ElementOfSeq DEF QueueInv
<1> DEFINE q == funcs[l]
           r == Append(q, c)
<1>3. /\ q \in Seq(Conns) /\ r \in Seq(Conns) /\ Len(q) \in Nat /\ Len(r) = Len(q) + 1
      /\ r[Len(q) + 1] = c /\ \A k \in 1..Len(q) : r[k] = q[k]
  <2>1. q \in Seq(Conns)
    BY <1>1
  <2> HIDE DEF q
  <2> QED
    BY <2>1, AppendProperties, LenProperties
<1>4. funcs' \in [BgIds -> Seq(Conns)] /\ funcs'[l] = r
      /\ \A i \in BgIds : i # l => funcs'[i] = funcs[i]
  BY <1>1, <1>3
<1>5. /\ \A k \in 1..Len(q) : q[k] \in Conns /\ q[k] # c /\ state[q[k]] = "kConnecting" /\ owner[q[k]] = l
      /\ \A j, k \in 1..Len(q) : q[j] = q[k] => j = k
  <2>1. \A k \in 1..Len(q) : q[k] \in Conns /\ q[k] # c
    BY <1>2
  <2>2. /\ \A k \in 1..Len(q) : state[q[k]] = "kConnecting" /\ owner[q[k]] = l
        /\ \A j, k \in 1..Len(q) : q[j] = q[k] => j = k
    BY <1>1 DEF QueueInv
  <2> QED
    BY <2>1, <2>2
<1> HIDE DEF r
<1>6. \A k \in 1..Len(r) : k \in 1..Len(q) \/ k = Len(q) + 1
  BY <1>3
<1>7. ASSUME NEW i \in BgIds, NEW k \in 1..Len(funcs'[i])
      PROVE  state'[funcs'[i][k]] = "kConnecting" /\ owner'[funcs'[i][k]] = i
  <2>1. CASE i = l
    <3> HIDE DEF q
    <3>1. funcs'[i][k] = r[k] /\ k \in 1..Len(r)
      BY <1>4, <1>7, <2>1
    <3>2. CASE k \in 1..Len(q)
      <4>1. r[k] = q[k] /\ q[k] \in Conns /\ q[k] # c /\ state[q[k]] = "kConnecting" /\ owner[q[k]] = l
        BY <1>3, <1>5, <3>2
      <4> QED
        BY <2>1, <3>1, <4>1
    <3>3. CASE k = Len(q) + 1
      <4>1. r[k] = c
        BY <1>3, <3>3
      <4> QED
        BY <2>1, <3>1, <4>1
    <3> QED
      BY <1>6, <3>1, <3>2, <3>3
  <2>2. CASE i # l
    BY <1>1, <1>2, <1>4, <1>7, <2>2 DEF QueueInv
  <2> QED
    BY <2>1, <2>2
<1>8. ASSUME NEW i \in BgIds, NEW j \in 1..Len(funcs'[i]), NEW k \in 1..Len(funcs'[i]),
             funcs'[i][j] = funcs'[i][k]
      PROVE  j = k
  <2>1. CASE i = l
    <3> HIDE DEF q
    <3>1. r[j] = r[k] /\ j \in 1..Len(r) /\ k \in 1..Len(r)
      BY <1>4, <1>8, <2>1
    <3>2. \A m \in 1..Len(q) : r[m] = q[m] /\ q[m] # c
      BY <1>3, <1>5
    <3>3. r[Len(q) + 1] = c
      BY <1>3
    <3>4. CASE j \in 1..Len(q)
      <4>1. k \in 1..Len(q)
        BY <1>6, <3>1, <3>2, <3>3, <3>4
      <4> QED
        BY <1>5, <3>1, <3>2, <3>4, <4>1
    <3>5. CASE j = Len(q) + 1
      BY <1>6, <3>1, <3>2, <3>3, <3>5
    <3> QED
      BY <1>6, <3>1, <3>4, <3>5
  <2>2. CASE i # l
    BY <1>1, <1>4, <1>8, <2>2 DEF QueueInv
  <2> QED
    BY <2>1, <2>2
<1>9. ASSUME NEW d \in Conns, state'[d] = "kConnecting"
      PROVE  /\ owner'[d] \in BgIds
             /\ \E k \in 1..Len(funcs'[owner'[d]]) : funcs'[owner'[d]][k] = d
  <2>1. CASE d = c
    <3>1. Len(r) \in 1..Len(r) /\ r[Len(r)] = c
      BY <1>3
    <3> QED
      BY <1>4, <2>1, <3>1
  <2>2. CASE d # c
    <3>1. /\ owner'[d] = owner[d] /\ owner[d] \in BgIds
          /\ \E k \in 1..Len(funcs[owner[d]]) : funcs[owner[d]][k] = d
      BY <1>1, <1>9, <2>2 DEF QueueInv
    <3>2. CASE owner[d] = l
      <4>1. PICK k \in 1..Len(q) : q[k] = d
        BY <3>1, <3>2
      <4>2. k \in 1..Len(r) /\ r[k] = d
        BY <1>3, <4>1
      <4> QED
        BY <1>4, <3>1, <3>2, <4>2
    <3>3. CASE owner[d] # l
      BY <1>4, <3>1, <3>3
    <3> QED
      BY <3>2, <3>3
  <2> QED
    BY <2>1, <2>2
<1> QED
  BY <1>4, <1>7, <1>8, <1>9 DEF QueueInv

\* A loop thread takes the first StartWorking from its queue.
LEMMA QueueTail ==
  ASSUME IInv, NEW l \in BgIds, funcs[l] # <<>>, state'[Head(funcs[l])] # "kConnecting",
         \A d \in Conns : d # Head(funcs[l]) => state'[d] = state[d],
         UNCHANGED owner,
         funcs' = [funcs EXCEPT ![l] = Tail(@)]
  PROVE  /\ QueueInv' /\ funcs' \in [BgIds -> Seq(Conns)] /\ Head(funcs[l]) \in Conns
         /\ state[Head(funcs[l])] = "kConnecting" /\ owner[Head(funcs[l])] = l
<1>1. QueueInv /\ funcs \in [BgIds -> Seq(Conns)]
  BY DEF IInv, PlaceInv, OwnedByLiveLoop, TypeOK
<1> DEFINE q == funcs[l]
           r == Tail(q)
           c == Head(q)
<1>2. /\ q \in Seq(Conns) /\ q # <<>> /\ r \in Seq(Conns) /\ c \in Conns /\ c = q[1]
      /\ Len(q) \in Nat \ {0} /\ Len(r) = Len(q) - 1
      /\ \A k \in 1..Len(r) : r[k] = q[k + 1]
  <2>1. q \in Seq(Conns) /\ q # <<>>
    BY <1>1
  <2> HIDE DEF q
  <2> QED
    BY <2>1, HeadTailProperties, EmptySeq
<1>3. funcs' \in [BgIds -> Seq(Conns)] /\ funcs'[l] = r
      /\ \A i \in BgIds : i # l => funcs'[i] = funcs[i]
  BY <1>1, <1>2
<1>4. /\ \A k \in 1..Len(q) : state[q[k]] = "kConnecting" /\ owner[q[k]] = l
      /\ \A j, k \in 1..Len(q) : q[j] = q[k] => j = k
  BY <1>1 DEF QueueInv
<1>5. state[c] = "kConnecting" /\ owner[c] = l
  BY <1>2, <1>4
<1>6. \A k \in 1..Len(r) : k + 1 \in 1..Len(q) /\ r[k] = q[k + 1] /\ r[k] # c /\ r[k] \in Conns
  <2> HIDE DEF r, c, q
  <2>1. ASSUME NEW k \in 1..Len(r) PROVE k + 1 \in 1..Len(q) /\ 1 \in 1..Len(q) /\ k + 1 # 1
    BY <1>2
  <2> QED
    BY <1>2, <1>4, <2>1, ElementOfSeq
<1>7. ASSUME NEW d \in Conns, state'[d] = "kConnecting"
      PROVE  state[d] = "kConnecting" /\ d # c
  BY <1>7
<1>8. \A d \in Conns : d # c => state'[d] = state[d]
  OBVIOUS
<1> HIDE DEF r, c
<1>9. ASSUME NEW i \in BgIds, NEW k \in 1..Len(funcs'[i])
      PROVE  state'[funcs'[i][k]] = "kConnecting" /\ owner'[funcs'[i][k]] = i
  <2>1. CASE i = l
    BY <1>3, <1>4, <1>6, <1>8, <1>9, <2>1
  <2>2. CASE i # l
    <3>1. /\ funcs'[i] = funcs[i] /\ state[funcs[i][k]] = "kConnecting" /\ owner[funcs[i][k]] = i
          /\ funcs[i][k] \in Conns
      BY <1>1, <1>3, <1>9, <2>2, ElementOfSeq DEF QueueInv
    <3> QED
      BY <1>5, <1>8, <2>2, <3>1
  <2> QED
    BY <2>1, <2>2
<1>10. ASSUME NEW i \in BgIds, NEW j \in 1..Len(funcs'[i]), NEW k \in 1..Len(funcs'[i]),
             funcs'[i][j] = funcs'[i][k]
      PROVE  j = k
  <2>1. CASE i = l
    <3>1. j \in 1..Len(r) /\ k \in 1..Len(r) /\ r[j] = r[k]
      BY <1>3, <1>10, <2>1
    <3>2. j + 1 \in 1..Len(q) /\ k + 1 \in 1..Len(q) /\ q[j + 1] = q[k + 1]
      BY <1>6, <3>1
    <3>3. j + 1 = k + 1
      BY <1>4, <3>2
    <3> QED
      BY <3>1, <3>3
  <2>2. CASE i # l
    BY <1>1, <1>3, <1>10, <2>2 DEF QueueInv
  <2> QED
    BY <2>1, <2>2
<1>11. ASSUME NEW d \in Conns, state'[d] = "kConnecting"
      PROVE  /\ owner'[d] \in BgIds
             /\ \E k \in 1..Len(funcs'[owner'[d]]) : funcs'[owner'[d]][k] = d
  <2>1. /\ owner'[d] = owner[d] /\ owner[d] \in BgIds /\ d # c
        /\ \E k \in 1..Len(funcs[owner[d]]) : funcs[owner[d]][k] = d
    BY <1>1, <1>7, <1>11 DEF QueueInv
  <2>2. CASE owner[d] = l
    <3>1. PICK k \in 1..Len(q) : q[k] = d
      BY <2>1, <2>2
    <3>2. k # 1
      BY <1>2, <2>1, <3>1
    <3>3. k - 1 \in 1..Len(r) /\ (k - 1) + 1 = k
      BY <1>2, <3>1, <3>2
    <3>4. r[k - 1] = d
      BY <1>6, <3>1, <3>3
    <3> QED
      BY <1>3, <2>1, <2>2, <3>3, <3>4
  <2>3. CASE owner[d] # l
    BY <1>3, <2>1, <2>3
  <2> QED
    BY <2>2, <2>3
<1>12. QueueInv'
  BY <1>9, <1>10, <1>11 DEF QueueInv
<1> QED
  BY <1>2, <1>3, <1>5, <1>12 DEF c

-----------------------------------------------------------------------------
(* Accepting.                                                              *)

\* Steps that leave the loops and their threads alone keep what is said of
\* them, if a scan goes on only while the server is up.
LEMMA LoopsSame ==
  ASSUME IInv, UNCHANGED serverVars, scan' # NoScan => phase = "up"
  PROVE  /\ LoopsInv' /\ ThreadsInv'
         /\ size_' = size_ /\ phase' = phase /\ bg' = bg /\ exit_' = exit_
         /\ loops_' = loops_ /\ (listening' = listening)
<1>1. /\ size_' = size_ /\ phase' = phase /\ bg' = bg /\ exit_' = exit_
      /\ loops_' = loops_ /\ (listening' = listening)
  BY DEF serverVars
<1>2. LoopsInv'
  BY <1>1 DEF IInv, LoopsInv, Starting
<1>3. ThreadsInv'
  BY <1>1 DEF IInv, ThreadsInv, Starting, Running
<1> QED
  BY <1>1, <1>2, <1>3

\* accept() takes the first connection of the backlog, which is nowhere else.
LEMMA BacklogPop ==
  ASSUME IInv, backlog # <<>>
  PROVE  /\ Head(backlog) \in Conns /\ state[Head(backlog)] = "pending"
         /\ Tail(backlog) \in Seq(Conns)
         /\ \A k \in 1..Len(Tail(backlog)) :
               /\ Tail(backlog)[k] \in Conns /\ state[Tail(backlog)[k]] = "pending"
               /\ Tail(backlog)[k] # Head(backlog)
         /\ \A j, k \in 1..Len(Tail(backlog)) : Tail(backlog)[j] = Tail(backlog)[k] => j = k
<1>1. BacklogInv /\ backlog \in Seq(Conns)
  BY DEF IInv, PlaceInv, OwnedByLiveLoop, TypeOK
<1> DEFINE q == backlog
           r == Tail(backlog)
           c == Head(backlog)
<1>2. /\ q \in Seq(Conns) /\ r \in Seq(Conns) /\ c \in Conns /\ c = q[1]
      /\ Len(q) \in Nat \ {0} /\ Len(r) = Len(q) - 1
      /\ \A k \in 1..Len(r) : r[k] = q[k + 1]
  BY <1>1, HeadTailProperties, EmptySeq
<1>3. /\ \A k \in 1..Len(q) : state[q[k]] = "pending"
      /\ \A j, k \in 1..Len(q) : q[j] = q[k] => j = k
  BY <1>1 DEF BacklogInv
<1> HIDE DEF q, r, c
<1>4. ASSUME NEW k \in 1..Len(r)
      PROVE  k + 1 \in 1..Len(q) /\ 1 \in 1..Len(q) /\ k + 1 # 1 /\ r[k] = q[k + 1]
  BY <1>2
<1>5. state[c] = "pending"
  BY <1>2, <1>3
<1>6. \A k \in 1..Len(r) : r[k] \in Conns /\ state[r[k]] = "pending" /\ r[k] # c
  BY <1>2, <1>3, <1>4, ElementOfSeq
<1>7. ASSUME NEW j \in 1..Len(r), NEW k \in 1..Len(r), r[j] = r[k]
      PROVE  j = k
  <2>1. j + 1 = k + 1
    BY <1>3, <1>4, <1>7
  <2> QED
    BY <2>1
<1> QED
  BY <1>2, <1>5, <1>6, <1>7 DEF q, r, c

\* NewConnection gives the accepted connection c to the loop at place k of
\* the schedule.
LEMMA NewConnectionStep ==
  ASSUME IInv, phase = "up", NEW c \in Conns, NEW k \in 1..Len(loops_), state[c] = "pending",
         NewConnection(c, loops_[k]), UNCHANGED <<serverVars, quiet>>, scan' = NoScan,
         next_' \in Nat, backlog' \in Seq(Conns),
         \A j \in 1..Len(backlog') : state[backlog'[j]] = "pending" /\ backlog'[j] \in Conns
                                     /\ backlog'[j] # c,
         \A i, j \in 1..Len(backlog') : backlog'[i] = backlog'[j] => i = j
  PROVE  IInv'
<1> DEFINE l == loops_[k]
<1>1. /\ LoopsInv' /\ ThreadsInv'
      /\ size_' = size_ /\ phase' = phase /\ bg' = bg /\ exit_' = exit_
      /\ loops_' = loops_ /\ (listening' = listening) /\ (quiet' = quiet)
  BY LoopsSame
<1>2. TypeOK /\ LoopsInv /\ ThreadsInv /\ UnownedInv /\ QueueInv /\ OwnedByLiveLoop
  BY DEF IInv, OwnedByLiveLoop, PlaceInv
<1>3. /\ l \in Loops /\ (l # Base => l \in BgIds)
      /\ l # Base => bg[l] \in {"published", "looping"}
  BY <1>2, LoopOfSchedule DEF ThreadsInv, Running
<1>4. /\ owner' \in [Conns -> Loops \cup {NoLoop}] /\ owner'[c] = l
      /\ \A d \in Conns : d # c => owner'[d] = owner[d]
  BY <1>2, <1>3 DEF NewConnection, TypeOK
<1>5. /\ state' \in [Conns -> {"new", "pending", "kConnecting", "kConnected",
                               "kDisconnected", "refused", "dropped"}]
      /\ state'[c] \in {"kConnecting", "kConnected"}
      /\ l = Base => state'[c] = "kConnected"
      /\ l # Base => state'[c] = "kConnecting"
      /\ \A d \in Conns : d # c => state'[d] = state[d]
  <2>1. state' = [state EXCEPT ![c] = IF l = Base THEN "kConnected" ELSE "kConnecting"]
    BY DEF NewConnection
  <2> HIDE DEF l
  <2> QED
    BY <1>2, <2>1 DEF TypeOK
<1>6. state[c] # "kConnected" /\ state[c] # "kConnecting"
  OBVIOUS
<1>7. /\ CountInv' /\ connection_size_' \in [Loops -> Nat]
      /\ QueueInv' /\ funcs' \in [BgIds -> Seq(Conns)]
  <2>1. CASE l = Base
    <3>1. connection_size_' = [connection_size_ EXCEPT ![l] = @ + 1] /\ funcs' = funcs
      BY <2>1 DEF NewConnection
    <3>2. state'[c] = "kConnected"
      BY <1>5, <2>1
    <3> HIDE DEF l
    <3>3. CountInv' /\ connection_size_' \in [Loops -> Nat]
      BY <1>3, <1>4, <1>5, <1>6, <3>1, <3>2, CountMore
    <3>4. QueueInv'
      BY <1>4, <1>5, <1>6, <3>1, <3>2, QueueSame
    <3> QED
      BY <1>2, <3>1, <3>3, <3>4 DEF TypeOK
  <2>2. CASE l # Base
    <3>1. connection_size_' = connection_size_ /\ funcs' = [funcs EXCEPT ![l] = Append(@, c)]
      BY <2>2 DEF NewConnection
    <3>2. state'[c] = "kConnecting" /\ l \in BgIds
      BY <1>3, <1>5, <2>2
    <3> HIDE DEF l
    <3>3. CountInv' /\ connection_size_' \in [Loops -> Nat]
      BY <1>4, <1>5, <1>6, <3>1, <3>2, CountSame
    <3>4. QueueInv' /\ funcs' \in [BgIds -> Seq(Conns)]
      BY <1>4, <1>5, <1>6, <3>1, <3>2, QueueAppend
    <3> QED
      BY <3>3, <3>4
  <2> QED
    BY <2>1, <2>2
<1>8. TypeOK'
  BY <1>1, <1>2, <1>4, <1>5, <1>7 DEF TypeOK
<1>9. ASSUME NEW d \in Conns, state'[d] \in {"kConnecting", "kConnected"}
      PROVE  /\ \E j \in 1..Len(loops_') : loops_'[j] = owner'[d]
             /\ owner'[d] # Base => bg'[owner'[d]] \in {"published", "looping"}
  <2>1. CASE d = c
    BY <1>1, <1>3, <1>4, <2>1
  <2>2. CASE d # c
    BY <1>1, <1>2, <1>4, <1>5, <1>9, <2>2 DEF OwnedByLiveLoop
  <2> QED
    BY <2>1, <2>2
<1>10. UnownedInv'
  BY <1>2, <1>4, <1>5 DEF UnownedInv
<1>11. BacklogInv'
  BY <1>5 DEF BacklogInv
<1>12. ScanInv'
  BY DEF ScanInv
<1> QED
  BY <1>1, <1>7, <1>8, <1>9, <1>10, <1>11, <1>12 DEF IInv, OwnedByLiveLoop, PlaceInv

\* A peer connects.
LEMMA ConnectStep ==
  ASSUME IInv, NEW c \in Conns, Connect(c)
  PROVE  IInv'
<1>1. /\ listening /\ state[c] = "new" /\ state' = [state EXCEPT ![c] = "pending"]
      /\ backlog' = Append(backlog, c)
      /\ funcs' = funcs /\ owner' = owner /\ connection_size_' = connection_size_
      /\ next_' = next_ /\ scan' = scan /\ (quiet' = quiet) /\ UNCHANGED serverVars
  BY DEF Connect
<1>2. TypeOK /\ LoopsInv /\ UnownedInv /\ BacklogInv /\ QueueInv /\ OwnedByLiveLoop /\ ScanInv
  BY DEF IInv, OwnedByLiveLoop, PlaceInv
<1>3. phase = "up"
  BY <1>1, <1>2 DEF LoopsInv
<1>4. /\ LoopsInv' /\ ThreadsInv'
      /\ size_' = size_ /\ phase' = phase /\ bg' = bg /\ exit_' = exit_
      /\ loops_' = loops_ /\ (listening' = listening)
  BY <1>1, <1>3, LoopsSame
<1>5. /\ state' \in [Conns -> {"new", "pending", "kConnecting", "kConnected",
                               "kDisconnected", "refused", "dropped"}]
      /\ state'[c] = "pending" /\ \A d \in Conns : d # c => state'[d] = state[d]
  BY <1>1, <1>2 DEF TypeOK
<1>6. CountInv'
  BY <1>1, <1>5, CountSame
<1>7. QueueInv'
  BY <1>1, <1>5, QueueSame
<1>8. UnownedInv'
  BY <1>1, <1>2, <1>5 DEF UnownedInv
<1>9. /\ backlog \in Seq(Conns) /\ backlog' \in Seq(Conns) /\ Len(backlog) \in Nat
      /\ Len(backlog') = Len(backlog) + 1 /\ backlog'[Len(backlog) + 1] = c
      /\ \A k \in 1..Len(backlog) : backlog'[k] = backlog[k]
  <2>1. backlog \in Seq(Conns)
    BY <1>2 DEF TypeOK
  <2> QED
    BY <1>1, <2>1, AppendProperties, LenProperties
<1>10. \A k \in 1..Len(backlog) : backlog[k] \in Conns /\ state[backlog[k]] = "pending" /\ backlog[k] # c
  BY <1>1, <1>2, <1>9, ElementOfSeq DEF BacklogInv
<1>11. \A k \in 1..Len(backlog') : k \in 1..Len(backlog) \/ k = Len(backlog) + 1
  BY <1>9
<1>12. BacklogInv'
  <2>1. \A k \in 1..Len(backlog') : state'[backlog'[k]] = "pending"
    BY <1>5, <1>9, <1>10, <1>11
  <2>2. \A j, k \in 1..Len(backlog') : backlog'[j] = backlog'[k] => j = k
    BY <1>2, <1>9, <1>10, <1>11 DEF BacklogInv
  <2>3. ASSUME scan' # NoScan
        PROVE  /\ state'[scan'.conn] = "pending"
               /\ \A k \in 1..Len(backlog') : backlog'[k] # scan'.conn
    <3>1. /\ scan.conn \in Conns /\ state[scan.conn] = "pending"
          /\ \A k \in 1..Len(backlog) : backlog[k] # scan.conn
      BY <1>1, <1>2, <2>3 DEF BacklogInv, TypeOK, Scans
    <3>2. scan.conn # c
      BY <1>1, <3>1
    <3> QED
      BY <1>1, <1>5, <1>9, <1>11, <3>1, <3>2
  <2> QED
    BY <2>1, <2>2, <2>3 DEF BacklogInv
<1>13. ScanInv'
  BY <1>1, <1>2, <1>4 DEF ScanInv
<1>14. TypeOK'
  BY <1>1, <1>2, <1>4, <1>5, <1>9 DEF TypeOK
<1>15. ASSUME NEW d \in Conns, state'[d] \in {"kConnecting", "kConnected"}
       PROVE  /\ \E j \in 1..Len(loops_') : loops_'[j] = owner'[d]
              /\ owner'[d] # Base => bg'[owner'[d]] \in {"published", "looping"}
  BY <1>1, <1>2, <1>4, <1>5, <1>15 DEF OwnedByLiveLoop
<1> QED
  BY <1>4, <1>6, <1>7, <1>8, <1>12, <1>13, <1>14, <1>15 DEF IInv, OwnedByLiveLoop, PlaceInv

\* GetNextLoop() takes the next loop of the schedule.
LEMMA AcceptNextStep ==
  ASSUME IInv, AcceptNext
  PROVE  IInv'
<1>1. /\ phase = "up" /\ scan = NoScan /\ backlog # <<>> /\ backlog' = Tail(backlog)
      /\ next_' = NextIndex + 1 /\ NewConnection(Head(backlog), loops_[NextIndex + 1])
      /\ UNCHANGED <<serverVars, quiet>> /\ scan' = NoScan
  BY DEF AcceptNext, BaseReady
<1>2. next_ \in Nat /\ Len(loops_) \in Nat /\ Len(loops_) >= 1
  BY <1>1, LenProperties DEF IInv, OwnedByLiveLoop, TypeOK, LoopsInv, Starting
<1>3. NextIndex + 1 \in 1..Len(loops_) /\ NextIndex + 1 \in Nat
  BY <1>2 DEF NextIndex
<1> DEFINE c == Head(backlog)
           k == NextIndex + 1
<1>4. /\ c \in Conns /\ state[c] = "pending" /\ backlog' \in Seq(Conns)
      /\ \A j \in 1..Len(backlog') : state[backlog'[j]] = "pending" /\ backlog'[j] \in Conns
                                     /\ backlog'[j] # c
      /\ \A i, j \in 1..Len(backlog') : backlog'[i] = backlog'[j] => i = j
  BY <1>1, BacklogPop
<1>5. k \in 1..Len(loops_) /\ NewConnection(c, loops_[k]) /\ next_' \in Nat
  BY <1>1, <1>3
<1> HIDE DEF c, k
<1> QED
  BY <1>1, <1>4, <1>5, NewConnectionStep

\* GetMinLoop() begins with the first loop of the schedule.
LEMMA AcceptMinStep ==
  ASSUME IInv, AcceptMin
  PROVE  IInv'
<1>1. /\ phase = "up" /\ scan = NoScan /\ backlog # <<>> /\ backlog' = Tail(backlog)
      /\ scan' = [on |-> TRUE, conn |-> Head(backlog), i |-> 1, loop |-> loops_[1],
                  min |-> connection_size_[loops_[1]]]
      /\ (quiet' = \A i \in BgIds : funcs[i] = <<>>)
      /\ funcs' = funcs /\ state' = state /\ owner' = owner
      /\ connection_size_' = connection_size_ /\ next_' = next_ /\ UNCHANGED serverVars
  BY DEF AcceptMin, BaseReady
<1>2. TypeOK /\ LoopsInv /\ UnownedInv /\ QueueInv /\ OwnedByLiveLoop /\ CountInv
  BY DEF IInv, OwnedByLiveLoop, PlaceInv
<1>3. Len(loops_) \in Nat /\ Len(loops_) >= 1 /\ 1 \in 1..Len(loops_)
  <2>1. Len(loops_) \in Nat /\ Len(loops_) >= 1
    BY <1>1, <1>2, LenProperties DEF TypeOK, LoopsInv, Starting
  <2> QED
    BY <2>1
<1>4. loops_[1] \in Loops
  BY <1>3, LoopOfSchedule
<1>5. connection_size_[loops_[1]] \in Nat
  BY <1>2, <1>4 DEF TypeOK
<1>6. /\ LoopsInv' /\ ThreadsInv'
      /\ size_' = size_ /\ phase' = phase /\ bg' = bg /\ exit_' = exit_
      /\ loops_' = loops_ /\ (listening' = listening)
  BY <1>1, LoopsSame
<1>7. /\ Head(backlog) \in Conns /\ state[Head(backlog)] = "pending"
      /\ backlog' \in Seq(Conns)
      /\ \A k \in 1..Len(backlog') : state[backlog'[k]] = "pending" /\ backlog'[k] # Head(backlog)
      /\ \A j, k \in 1..Len(backlog') : backlog'[j] = backlog'[k] => j = k
  BY <1>1, BacklogPop
<1>8. /\ scan' \in Scans /\ scan'.conn = Head(backlog) /\ scan'.i = 1 /\ scan'.loop = loops_[1]
      /\ scan'.min = connection_size_[loops_[1]]
  BY <1>1, <1>4, <1>5, <1>7 DEF Scans
<1>9. quiet' \in BOOLEAN
  BY <1>1
<1>10. TypeOK'
  BY <1>1, <1>2, <1>6, <1>7, <1>8, <1>9 DEF TypeOK
<1>11. OwnedByLiveLoop'
  BY <1>1, <1>2, <1>6, <1>10 DEF OwnedByLiveLoop
<1>12. BacklogInv'
  BY <1>1, <1>7, <1>8 DEF BacklogInv
<1>13. UnownedInv' /\ QueueInv' /\ CountInv'
  BY <1>1, <1>2 DEF UnownedInv, QueueInv, CountInv
<1>14. ScanInv'
  <2>1. \A k \in 1..1 : k = 1
    OBVIOUS
  <2>2. connection_size_[loops_[1]] <= connection_size_[loops_[1]]
    BY <1>5
  <2> QED
    BY <1>1, <1>3, <1>6, <1>8, <2>1, <2>2 DEF ScanInv
<1> QED
  BY <1>6, <1>10, <1>11, <1>12, <1>13, <1>14 DEF IInv, PlaceInv

\* GetMinLoop() looks at the next loop.
LEMMA ScanNextStep ==
  ASSUME IInv, ScanNext
  PROVE  IInv'
<1>1. /\ scan # NoScan /\ scan.i < Len(loops_) /\ scan' = KeepMin(loops_[scan.i + 1])
      /\ backlog' = backlog /\ funcs' = funcs /\ state' = state /\ owner' = owner
      /\ connection_size_' = connection_size_ /\ next_' = next_ /\ (quiet' = quiet)
      /\ UNCHANGED serverVars
  BY DEF ScanNext, connVars
<1>2. TypeOK /\ LoopsInv /\ PlaceInv /\ OwnedByLiveLoop /\ CountInv /\ ScanInv
  BY DEF IInv, OwnedByLiveLoop
<1>3. /\ LoopsInv' /\ ThreadsInv'
      /\ size_' = size_ /\ phase' = phase /\ bg' = bg /\ exit_' = exit_
      /\ loops_' = loops_ /\ (listening' = listening)
  BY <1>1, <1>2, LoopsSame DEF LoopsInv
<1>4. /\ scan \in Scans /\ scan.conn \in Conns /\ scan.i \in Nat \ {0} /\ scan.loop \in Loops /\ scan.min \in Nat
      /\ Len(loops_) \in Nat
  BY <1>1, <1>2, LenProperties DEF TypeOK, Scans
<1> DEFINE l == loops_[scan.i + 1]
<1>5. scan.i + 1 \in 1..Len(loops_) /\ l \in Loops
  <2>1. scan.i + 1 \in 1..Len(loops_)
    BY <1>1, <1>4
  <2> QED
    BY <2>1, LoopOfSchedule
<1>6. connection_size_[l] \in Nat /\ connection_size_[scan.loop] \in Nat
  BY <1>2, <1>4, <1>5 DEF TypeOK
<1>7. /\ scan' \in Scans /\ scan'.conn = scan.conn /\ scan'.i = scan.i + 1
      /\ \/ scan'.loop = l /\ scan'.min = connection_size_[l] /\ connection_size_[l] < scan.min
         \/ scan'.loop = scan.loop /\ scan'.min = scan.min /\ scan.min <= connection_size_[l]
  <2>0. scan.i + 1 \in Nat \ {0}
    BY <1>4
  <2>1. CASE connection_size_[l] < scan.min
    <3>1. scan' = [scan EXCEPT !.i = @ + 1, !.loop = l, !.min = connection_size_[l]]
      BY <1>1, <2>1 DEF KeepMin
    <3> HIDE DEF l
    <3>2. scan' \in Scans
      BY <1>4, <1>5, <1>6, <2>0, <3>1 DEF Scans
    <3>3. scan'.conn = scan.conn /\ scan'.i = scan.i + 1 /\ scan'.loop = l /\ scan'.min = connection_size_[l]
      BY <1>4, <3>1 DEF Scans
    <3> QED
      BY <2>1, <3>2, <3>3
  <2>2. CASE ~(connection_size_[l] < scan.min)
    <3>1. scan' = [scan EXCEPT !.i = @ + 1]
      BY <1>1, <2>2 DEF KeepMin
    <3> HIDE DEF l
    <3>2. scan' \in Scans
      BY <1>4, <2>0, <3>1 DEF Scans
    <3>3. scan'.conn = scan.conn /\ scan'.i = scan.i + 1 /\ scan'.loop = scan.loop /\ scan'.min = scan.min
      BY <1>4, <3>1 DEF Scans
    <3>4. scan.min <= connection_size_[l]
      BY <1>4, <1>6, <2>2
    <3> QED
      BY <3>2, <3>3, <3>4
  <2> QED
    BY <2>1, <2>2
<1>8. scan' # NoScan
  BY <1>7 DEF Scans, NoScan
<1>9. TypeOK'
  BY <1>1, <1>2, <1>3, <1>7 DEF TypeOK
<1>10. OwnedByLiveLoop'
  BY <1>1, <1>2, <1>3, <1>9 DEF OwnedByLiveLoop
<1>11. PlaceInv' /\ CountInv'
  BY <1>1, <1>2, <1>7 DEF PlaceInv, UnownedInv, BacklogInv, QueueInv, CountInv
<1>12. ScanInv'
  <2>1. /\ \E k \in 1..Len(loops_) : scan.loop = loops_[k]
        /\ quiet => /\ \A i \in BgIds : funcs[i] = <<>>
                    /\ scan.min = connection_size_[scan.loop]
                    /\ \A k \in 1..scan.i : scan.min <= connection_size_[loops_[k]]
    BY <1>1, <1>2 DEF ScanInv
  <2>2. scan'.i <= Len(loops_)
    BY <1>5, <1>7
  <2>3. \E k \in 1..Len(loops_) : scan'.loop = loops_[k]
    BY <1>5, <1>7, <2>1
  <2>4. \A k \in 1..scan'.i : k \in 1..scan.i \/ k = scan.i + 1
    BY <1>4, <1>7
  <2>5. \A k \in 1..scan.i : connection_size_[loops_[k]] \in Nat
    <3>1. \A k \in 1..scan.i : k \in 1..Len(loops_)
      BY <1>1, <1>4
    <3> QED
      BY <1>2, <3>1, LoopOfSchedule DEF TypeOK
  <2> HIDE DEF l
  <2>6. quiet => scan'.min = connection_size_[scan'.loop]
    BY <1>7, <2>1
  <2>7. quiet => \A k \in 1..scan'.i : scan'.min <= connection_size_[loops_[k]]
    <3>1. quiet => \A k \in 1..scan.i : scan'.min <= connection_size_[loops_[k]]
      BY <1>4, <1>6, <1>7, <2>1, <2>5
    <3>2. scan'.min <= connection_size_[l]
      BY <1>6, <1>7
    <3> QED
      BY <2>4, <3>1, <3>2 DEF l
  <2> QED
    BY <1>1, <1>3, <2>1, <2>2, <2>3, <2>6, <2>7 DEF ScanInv
<1> QED
  BY <1>3, <1>9, <1>10, <1>11, <1>12 DEF IInv

\* GetMinLoop() returns the loop it has found.
LEMMA ScanEndStep ==
  ASSUME IInv, ScanEnd
  PROVE  IInv'
<1>1. /\ scan # NoScan /\ scan' = NoScan /\ NewConnection(scan.conn, scan.loop)
      /\ backlog' = backlog /\ next_' = next_ /\ UNCHANGED <<serverVars, quiet>>
  BY DEF ScanEnd
<1>2. TypeOK /\ LoopsInv /\ BacklogInv /\ ScanInv
  BY DEF IInv, OwnedByLiveLoop, PlaceInv
<1>3. phase = "up" /\ scan.conn \in Conns /\ state[scan.conn] = "pending"
      /\ backlog \in Seq(Conns) /\ next_ \in Nat
  BY <1>1, <1>2 DEF TypeOK, LoopsInv, BacklogInv, Scans
<1>4. PICK k \in 1..Len(loops_) : scan.loop = loops_[k]
  BY <1>1, <1>2 DEF ScanInv
<1>5. \A j \in 1..Len(backlog) : backlog[j] \in Conns
  BY <1>3, ElementOfSeq
<1>6. /\ \A j \in 1..Len(backlog') : state[backlog'[j]] = "pending" /\ backlog'[j] \in Conns
                                     /\ backlog'[j] # scan.conn
      /\ \A i, j \in 1..Len(backlog') : backlog'[i] = backlog'[j] => i = j
  BY <1>1, <1>2, <1>5 DEF BacklogInv
<1>7. NewConnection(scan.conn, loops_[k])
  BY <1>1, <1>4
<1> QED
  BY <1>1, <1>3, <1>4, <1>6, <1>7, NewConnectionStep

\* accept() fails and the connection is refused.
LEMMA AcceptRefusedStep ==
  ASSUME IInv, AcceptRefused
  PROVE  IInv'
<1> DEFINE c == Head(backlog)
<1>1. /\ phase = "up" /\ scan = NoScan /\ backlog # <<>> /\ backlog' = Tail(backlog)
      /\ state' = [state EXCEPT ![c] = "refused"]
      /\ funcs' = funcs /\ owner' = owner /\ connection_size_' = connection_size_
      /\ next_' = next_ /\ scan' = NoScan /\ (quiet' = quiet) /\ UNCHANGED serverVars
  BY DEF AcceptRefused, BaseReady
<1>2. TypeOK /\ UnownedInv /\ OwnedByLiveLoop
  BY DEF IInv, OwnedByLiveLoop, PlaceInv
<1>3. /\ LoopsInv' /\ ThreadsInv'
      /\ size_' = size_ /\ phase' = phase /\ bg' = bg /\ exit_' = exit_
      /\ loops_' = loops_ /\ (listening' = listening)
  BY <1>1, LoopsSame
<1>4. /\ c \in Conns /\ state[c] = "pending" /\ backlog' \in Seq(Conns)
      /\ \A k \in 1..Len(backlog') : backlog'[k] \in Conns /\ state[backlog'[k]] = "pending" /\ backlog'[k] # c
      /\ \A j, k \in 1..Len(backlog') : backlog'[j] = backlog'[k] => j = k
  BY <1>1, BacklogPop
<1> HIDE DEF c
<1>5. /\ state' \in [Conns -> {"new", "pending", "kConnecting", "kConnected",
                               "kDisconnected", "refused", "dropped"}]
      /\ state'[c] = "refused" /\ \A d \in Conns : d # c => state'[d] = state[d]
  BY <1>1, <1>2, <1>4 DEF TypeOK
<1>6. CountInv'
  BY <1>1, <1>4, <1>5, CountSame
<1>7. QueueInv'
  BY <1>1, <1>4, <1>5, QueueSame
<1>8. UnownedInv' /\ BacklogInv' /\ ScanInv'
  BY <1>1, <1>2, <1>4, <1>5 DEF UnownedInv, BacklogInv, ScanInv
<1>9. TypeOK'
  BY <1>1, <1>2, <1>3, <1>4, <1>5 DEF TypeOK
<1>10. ASSUME NEW d \in Conns, state'[d] \in {"kConnecting", "kConnected"}
       PROVE  /\ \E j \in 1..Len(loops_') : loops_'[j] = owner'[d]
              /\ owner'[d] # Base => bg'[owner'[d]] \in {"published", "looping"}
  BY <1>1, <1>2, <1>3, <1>5, <1>10 DEF OwnedByLiveLoop
<1> QED
  BY <1>3, <1>6, <1>7, <1>8, <1>9, <1>10 DEF IInv, OwnedByLiveLoop, PlaceInv

-----------------------------------------------------------------------------
(* The loop threads and the destructor.                                    *)

\* A loop thread runs a queued StartWorking.
LEMMA StartWorkingStep ==
  ASSUME IInv, NEW i \in BgIds, StartWorking(i)
  PROVE  IInv'
<1> DEFINE c == Head(funcs[i])
<1>1. /\ funcs[i] # <<>> /\ funcs' = [funcs EXCEPT ![i] = Tail(@)]
      /\ state' = [state EXCEPT ![c] = "kConnected"]
      /\ connection_size_' = [connection_size_ EXCEPT ![i] = @ + 1]
      /\ backlog' = backlog /\ owner' = owner /\ next_' = next_ /\ scan' = scan
      /\ (quiet' = quiet) /\ UNCHANGED serverVars
  BY DEF StartWorking
<1>2. TypeOK /\ LoopsInv /\ UnownedInv /\ BacklogInv /\ OwnedByLiveLoop /\ ScanInv
  BY DEF IInv, OwnedByLiveLoop, PlaceInv
<1>3. /\ LoopsInv' /\ ThreadsInv'
      /\ size_' = size_ /\ phase' = phase /\ bg' = bg /\ exit_' = exit_
      /\ loops_' = loops_ /\ (listening' = listening)
  BY <1>1, <1>2, LoopsSame DEF LoopsInv
<1>4. c \in Conns /\ state[c] = "kConnecting" /\ owner[c] = i
  <2>1. funcs[i] \in Seq(Conns) /\ QueueInv
    BY DEF IInv, OwnedByLiveLoop, TypeOK, PlaceInv
  <2>2. c \in Conns /\ c = funcs[i][1] /\ Len(funcs[i]) \in Nat \ {0}
    BY <1>1, <2>1, HeadTailProperties, EmptySeq
  <2>3. 1 \in 1..Len(funcs[i])
    BY <2>2
  <2> QED
    BY <2>1, <2>2, <2>3 DEF QueueInv
<1>5. /\ state' \in [Conns -> {"new", "pending", "kConnecting", "kConnected",
                               "kDisconnected", "refused", "dropped"}]
      /\ state'[c] = "kConnected" /\ \A d \in Conns : d # c => state'[d] = state[d]
  BY <1>1, <1>2, <1>4 DEF TypeOK
<1>6. QueueInv' /\ funcs' \in [BgIds -> Seq(Conns)]
  BY <1>1, <1>5, QueueTail
<1> HIDE DEF c
<1>7. CountInv' /\ connection_size_' \in [Loops -> Nat]
  <2>1. i \in Loops
    BY DEF Loops
  <2> QED
    BY <1>1, <1>4, <1>5, <2>1, CountMore
<1>8. UnownedInv'
  BY <1>1, <1>2, <1>5 DEF UnownedInv
<1>9. BacklogInv'
  <2>1. \A k \in 1..Len(backlog) : backlog[k] \in Conns /\ state[backlog[k]] = "pending"
    BY <1>2, ElementOfSeq DEF BacklogInv, TypeOK
  <2>2. scan # NoScan => scan.conn \in Conns /\ state[scan.conn] = "pending"
    BY <1>2 DEF BacklogInv, TypeOK, Scans
  <2> QED
    BY <1>1, <1>2, <1>4, <1>5, <2>1, <2>2 DEF BacklogInv
<1>10. ScanInv'
  <2>1. scan # NoScan => ~quiet
    BY <1>1, <1>2 DEF ScanInv
  <2> QED
    BY <1>1, <1>2, <1>3, <2>1 DEF ScanInv
<1>11. TypeOK'
  BY <1>1, <1>2, <1>3, <1>5, <1>6, <1>7 DEF TypeOK
<1>12. ASSUME NEW d \in Conns, state'[d] \in {"kConnecting", "kConnected"}
       PROVE  /\ \E j \in 1..Len(loops_') : loops_'[j] = owner'[d]
              /\ owner'[d] # Base => bg'[owner'[d]] \in {"published", "looping"}
  <2>1. state[d] \in {"kConnecting", "kConnected"}
    BY <1>4, <1>5, <1>12
  <2> QED
    BY <1>1, <1>2, <1>3, <2>1 DEF OwnedByLiveLoop
<1> QED
  BY <1>3, <1>6, <1>7, <1>8, <1>9, <1>10, <1>11, <1>12 DEF IInv, OwnedByLiveLoop, PlaceInv

\* A loop closes a connection.
LEMMA HandleCloseStep ==
  ASSUME IInv, NEW c \in Conns, HandleClose(c)
  PROVE  IInv'
<1>1. /\ state[c] = "kConnected" /\ state' = [state EXCEPT ![c] = "kDisconnected"]
      /\ connection_size_' = [connection_size_ EXCEPT ![owner[c]] = @ - 1]
      /\ quiet' = FALSE /\ backlog' = backlog /\ funcs' = funcs /\ owner' = owner
      /\ next_' = next_ /\ scan' = scan /\ UNCHANGED serverVars
  BY DEF HandleClose
<1>2. TypeOK /\ LoopsInv /\ UnownedInv /\ BacklogInv /\ OwnedByLiveLoop /\ ScanInv
  BY DEF IInv, OwnedByLiveLoop, PlaceInv
<1>3. /\ LoopsInv' /\ ThreadsInv'
      /\ size_' = size_ /\ phase' = phase /\ bg' = bg /\ exit_' = exit_
      /\ loops_' = loops_ /\ (listening' = listening)
  BY <1>1, <1>2, LoopsSame DEF LoopsInv
<1>4. owner[c] \in Loops
  <2>1. PICK k \in 1..Len(loops_) : loops_[k] = owner[c]
    BY <1>1, <1>2 DEF OwnedByLiveLoop
  <2> QED
    BY <2>1, LoopOfSchedule
<1>5. /\ state' \in [Conns -> {"new", "pending", "kConnecting", "kConnected",
                               "kDisconnected", "refused", "dropped"}]
      /\ state'[c] = "kDisconnected" /\ \A d \in Conns : d # c => state'[d] = state[d]
  BY <1>1, <1>2 DEF TypeOK
<1>6. CountInv' /\ connection_size_' \in [Loops -> Nat]
  BY <1>1, <1>4, <1>5, CountLess
<1>7. QueueInv'
  BY <1>1, <1>5, QueueSame
<1>8. UnownedInv'
  BY <1>1, <1>2, <1>5 DEF UnownedInv
<1>9. BacklogInv'
  <2>1. \A k \in 1..Len(backlog) : backlog[k] \in Conns /\ state[backlog[k]] = "pending"
    BY <1>2, ElementOfSeq DEF BacklogInv, TypeOK
  <2>2. scan # NoScan => scan.conn \in Conns /\ state[scan.conn] = "pending"
    BY <1>2 DEF BacklogInv, TypeOK, Scans
  <2> QED
    BY <1>1, <1>2, <1>5, <2>1, <2>2 DEF BacklogInv
<1>10. ScanInv'
  BY <1>1, <1>2, <1>3 DEF ScanInv
<1>11. TypeOK'
  BY <1>1, <1>2, <1>3, <1>5, <1>6 DEF TypeOK
<1>12. ASSUME NEW d \in Conns, state'[d] \in {"kConnecting", "kConnected"}
       PROVE  /\ \E j \in 1..Len(loops_') : loops_'[j] = owner'[d]
              /\ owner'[d] # Base => bg'[owner'[d]] \in {"published", "looping"}
  BY <1>1, <1>2, <1>3, <1>5, <1>12 DEF OwnedByLiveLoop
<1> QED
  BY <1>3, <1>6, <1>7, <1>8, <1>9, <1>10, <1>11, <1>12 DEF IInv, OwnedByLiveLoop, PlaceInv

\* The destructor begins: the acceptor goes, and what the kernel held for it.
LEMMA DestroyStep ==
  ASSUME IInv, Destroy
  PROVE  IInv'
<1>1. /\ phase = "up" /\ scan = NoScan /\ phase' = "exit" /\ listening' = FALSE
      /\ backlog' = <<>>
      /\ state' = [c \in Conns |-> IF state[c] = "pending" THEN "dropped" ELSE state[c]]
      /\ size_' = size_ /\ bg' = bg /\ exit_' = exit_ /\ loops_' = loops_ /\ funcs' = funcs
      /\ owner' = owner /\ connection_size_' = connection_size_ /\ next_' = next_
      /\ scan' = NoScan /\ (quiet' = quiet)
  BY DEF Destroy, BaseReady
<1>2. TypeOK /\ LoopsInv /\ ThreadsInv /\ UnownedInv /\ QueueInv /\ CountInv /\ OwnedByLiveLoop
  BY DEF IInv, OwnedByLiveLoop, PlaceInv
<1>3. /\ state' \in [Conns -> {"new", "pending", "kConnecting", "kConnected",
                               "kDisconnected", "refused", "dropped"}]
      /\ \A d \in Conns : /\ state[d] # "pending" => state'[d] = state[d]
                          /\ state[d] = "pending" => state'[d] = "dropped"
  BY <1>1, <1>2 DEF TypeOK
<1>4. LoopsInv'
  BY <1>1, <1>2 DEF LoopsInv, Starting
<1>5. ThreadsInv'
  BY <1>1, <1>2 DEF ThreadsInv, Starting, Running
<1>6. UnownedInv'
  BY <1>1, <1>2, <1>3 DEF UnownedInv
<1>7. BacklogInv'
  <2>1. backlog' \in Seq(Conns) /\ Len(backlog') = 0
    BY <1>1
  <2>2. \A k \in 1..Len(backlog') : FALSE
    BY <2>1
  <2> QED
    BY <1>1, <2>2 DEF BacklogInv
<1>8. QueueInv'
  <2>1. \A i \in BgIds : \A k \in 1..Len(funcs[i]) : funcs[i][k] \in Conns
    BY <1>2, ElementOfSeq DEF TypeOK
  <2> QED
    BY <1>1, <1>2, <1>3, <2>1 DEF QueueInv
<1>9. CountInv'
  <2>1. Known(state') = Known(state)
    BY <1>3 DEF Known
  <2>2. \A l \in Loops : Working(state', owner', l) = Working(state, owner, l)
    BY <1>1, <1>3 DEF Working
  <2> QED
    BY <1>1, <1>2, <2>1, <2>2 DEF CountInv
<1>10. ScanInv'
  BY <1>1 DEF ScanInv
<1>11. TypeOK'
  <2>1. backlog' \in Seq(Conns)
    BY <1>1
  <2> QED
    BY <1>1, <1>2, <1>3, <2>1 DEF TypeOK
<1>12. ASSUME NEW d \in Conns, state'[d] \in {"kConnecting", "kConnected"}
       PROVE  /\ \E j \in 1..Len(loops_') : loops_'[j] = owner'[d]
              /\ owner'[d] # Base => bg'[owner'[d]] \in {"published", "looping"}
  BY <1>1, <1>2, <1>3, <1>12 DEF OwnedByLiveLoop
<1> QED
  BY <1>4, <1>5, <1>6, <1>7, <1>8, <1>9, <1>10, <1>11, <1>12 DEF IInv, OwnedByLiveLoop, PlaceInv

\* Loop() returns, and the connections of the loop go with it.
LEMMA LeaveLoopStep ==
  ASSUME IInv, NEW i \in BgIds, LeaveLoop(i)
  PROVE  IInv'
<1>1. /\ bg[i] = "looping" /\ exit_[i] /\ bg' = [bg EXCEPT ![i] = "ended"] /\ phase' = "exit"
      /\ state' = [c \in Conns |->
                     IF owner[c] = i /\ state[c] # "kDisconnected" THEN "dropped" ELSE state[c]]
      /\ funcs' = [funcs EXCEPT ![i] = <<>>]
      /\ connection_size_' = [connection_size_ EXCEPT ![i] = 0]
      /\ size_' = size_ /\ exit_' = exit_ /\ loops_' = loops_ /\ (listening' = listening)
      /\ backlog' = backlog /\ owner' = owner /\ next_' = next_ /\ scan' = scan
      /\ (quiet' = quiet)
  BY DEF LeaveLoop
<1>2. /\ TypeOK /\ LoopsInv /\ ThreadsInv /\ UnownedInv /\ BacklogInv /\ QueueInv /\ CountInv
      /\ OwnedByLiveLoop
  BY DEF IInv, OwnedByLiveLoop, PlaceInv
<1>3. phase = "join" /\ scan = NoScan /\ ~listening
  BY <1>1, <1>2 DEF ThreadsInv, LoopsInv
<1>4. /\ bg' \in [BgIds -> {"none", "spawned", "published", "looping", "ended"}]
      /\ bg'[i] = "ended" /\ \A j \in BgIds : j # i => bg'[j] = bg[j]
  BY <1>1, <1>2 DEF TypeOK
<1>5. /\ state' \in [Conns -> {"new", "pending", "kConnecting", "kConnected",
                               "kDisconnected", "refused", "dropped"}]
      /\ \A d \in Conns : /\ owner[d] # i => state'[d] = state[d]
                          /\ state'[d] # "dropped" => state'[d] = state[d]
                          /\ owner[d] = i => state'[d] \in {"dropped", "kDisconnected"}
  BY <1>1, <1>2 DEF TypeOK
<1>6. LoopsInv'
  BY <1>1, <1>2, <1>3 DEF LoopsInv, Starting
<1>7. ThreadsInv'
  <2>1. \A j \in BgIds : ~(bg'[j] = "looping" /\ exit_'[j])
    BY <1>1, <1>2, <1>4 DEF ThreadsInv
  <2> QED
    BY <1>1, <2>1 DEF ThreadsInv, Starting, Running
<1>8. \A d \in Conns : state[d] \in {"new", "pending"} => owner[d] # i
  BY <1>2, Ids DEF UnownedInv, Loops
<1>9. UnownedInv'
  BY <1>1, <1>2, <1>5 DEF UnownedInv
<1>10. BacklogInv'
  <2>1. \A k \in 1..Len(backlog) : backlog[k] \in Conns /\ state[backlog[k]] = "pending"
    BY <1>2, ElementOfSeq DEF BacklogInv, TypeOK
  <2> QED
    BY <1>1, <1>2, <1>3, <1>5, <1>8, <2>1 DEF BacklogInv
<1>11. funcs' \in [BgIds -> Seq(Conns)] /\ funcs'[i] = <<>>
       /\ \A j \in BgIds : j # i => funcs'[j] = funcs[j]
  <2>1. <<>> \in Seq(Conns)
    OBVIOUS
  <2> QED
    BY <1>1, <1>2, <2>1 DEF TypeOK
<1>12. QueueInv'
  <2>1. \A j \in BgIds : \A k \in 1..Len(funcs[j]) : funcs[j][k] \in Conns
    BY <1>2, ElementOfSeq DEF TypeOK
  <2>2. \A k \in 1..Len(funcs'[i]) : FALSE
    <3>1. Len(funcs'[i]) = 0
      BY <1>11
    <3> QED
      BY <3>1
  <2>3. ASSUME NEW j \in BgIds, NEW k \in 1..Len(funcs'[j])
        PROVE  state'[funcs'[j][k]] = "kConnecting" /\ owner'[funcs'[j][k]] = j
    <3>1. j # i /\ funcs'[j] = funcs[j]
      BY <1>11, <2>2, <2>3
    <3> QED
      BY <1>1, <1>2, <1>5, <2>1, <2>3, <3>1 DEF QueueInv
  <2>4. ASSUME NEW j \in BgIds, NEW k \in 1..Len(funcs'[j]), NEW m \in 1..Len(funcs'[j]),
               funcs'[j][k] = funcs'[j][m]
        PROVE  k = m
    <3>1. funcs'[j] = funcs[j]
      BY <1>11, <2>2, <2>4
    <3> QED
      BY <1>2, <2>4, <3>1 DEF QueueInv
  <2>5. ASSUME NEW d \in Conns, state'[d] = "kConnecting"
        PROVE  /\ owner'[d] \in BgIds
               /\ \E k \in 1..Len(funcs'[owner'[d]]) : funcs'[owner'[d]][k] = d
    <3>1. state[d] = "kConnecting" /\ owner[d] # i
      BY <1>5, <2>5
    <3>2. /\ owner[d] \in BgIds
          /\ \E k \in 1..Len(funcs[owner[d]]) : funcs[owner[d]][k] = d
      BY <1>2, <3>1 DEF QueueInv
    <3> QED
      BY <1>1, <1>11, <3>1, <3>2
  <2> QED
    BY <2>3, <2>4, <2>5 DEF QueueInv
<1>13. connection_size_' \in [Loops -> Nat] /\ connection_size_'[i] = 0
       /\ \A l \in Loops : l # i => connection_size_'[l] = connection_size_[l]
  <2>1. i \in Loops
    BY DEF Loops
  <2> QED
    BY <1>1, <1>2, <2>1 DEF TypeOK
<1>14. CountInv'
  <2>1. IsFiniteSet(Known(state'))
    <3>1. Known(state') \subseteq Known(state)
      BY <1>5, <1>8 DEF Known
    <3> QED
      BY <1>2, <3>1, FS_Subset DEF CountInv
  <2>2. Working(state', owner', i) = {}
    BY <1>1, <1>5 DEF Working
  <2>3. \A l \in Loops : l # i => Working(state', owner', l) = Working(state, owner, l)
    BY <1>1, <1>5 DEF Working
  <2>4. Cardinality({}) = 0
    BY FS_EmptySet
  <2> QED
    BY <1>2, <1>13, <2>1, <2>2, <2>3, <2>4 DEF CountInv
<1>15. ScanInv'
  BY <1>1, <1>3 DEF ScanInv
<1>16. TypeOK'
  BY <1>1, <1>2, <1>4, <1>5, <1>11, <1>13 DEF TypeOK
<1>17. ASSUME NEW d \in Conns, state'[d] \in {"kConnecting", "kConnected"}
       PROVE  /\ \E j \in 1..Len(loops_') : loops_'[j] = owner'[d]
              /\ owner'[d] # Base => bg'[owner'[d]] \in {"published", "looping"}
  <2>1. state[d] \in {"kConnecting", "kConnected"} /\ owner[d] # i
    BY <1>5, <1>17
  <2>2. PICK k \in 1..Len(loops_) : loops_[k] = owner[d]
    BY <1>2, <2>1 DEF OwnedByLiveLoop
  <2>3. owner[d] # Base => owner[d] \in BgIds
    BY <2>2, LoopOfSchedule
  <2> QED
    BY <1>1, <1>2, <1>4, <2>1, <2>2, <2>3 DEF OwnedByLiveLoop
<1> QED
  BY <1>6, <1>7, <1>9, <1>10, <1>12, <1>14, <1>15, <1>16, <1>17 DEF IInv, OwnedByLiveLoop, PlaceInv

-----------------------------------------------------------------------------
(* The theorems.                                                           *)

\* Before Start() there is no loop, no connection and no scan.
LEMMA InitStep ==
  ASSUME Init
  PROVE  IInv
<1>1. /\ loops_ \in Seq(Loops) /\ Len(loops_) = 0 /\ backlog \in Seq(Conns) /\ Len(backlog) = 0
      /\ \A i \in BgIds : funcs[i] \in Seq(Conns) /\ Len(funcs[i]) = 0
  BY DEF Init
<1>2. TypeOK
  <2>1. funcs \in [BgIds -> Seq(Conns)]
    BY DEF Init
  <2>2. /\ size_ \in Sizes /\ phase = "new" /\ next_ \in Nat /\ quiet \in BOOLEAN
        /\ listening \in BOOLEAN /\ scan = NoScan
        /\ bg \in [BgIds -> {"none", "spawned", "published", "looping", "ended"}]
        /\ exit_ \in [BgIds -> BOOLEAN]
    BY DEF Init
  <2>3. /\ state \in [Conns -> {"new", "pending", "kConnecting", "kConnected",
                                "kDisconnected", "refused", "dropped"}]
        /\ owner \in [Conns -> Loops \cup {NoLoop}]
        /\ connection_size_ \in [Loops -> Nat]
    BY DEF Init
  <2> QED
    BY <1>1, <2>1, <2>2, <2>3 DEF TypeOK
<1>3. size_ \in Nat
  BY Ids DEF Init
<1>4. \A k \in 1..0 : FALSE
  OBVIOUS
<1>5. LoopsInv
  BY <1>1, <1>3, <1>4 DEF LoopsInv, Starting, Init
<1>6. ThreadsInv
  BY <1>1, <1>4 DEF ThreadsInv, Init
<1>7. PlaceInv
  BY <1>1, <1>4 DEF PlaceInv, UnownedInv, BacklogInv, QueueInv, Init
<1>8. CountInv
  <2>1. Known(state) = {}
    BY DEF Known, Init
  <2>2. \A l \in Loops : Working(state, owner, l) = {}
    BY DEF Working, Init
  <2>3. IsFiniteSet({}) /\ Cardinality({}) = 0
    BY FS_EmptySet
  <2>4. \A l \in Loops : connection_size_[l] = 0
    BY DEF Init
  <2> QED
    BY <2>1, <2>2, <2>3, <2>4 DEF CountInv
<1>9. ScanInv
  BY DEF ScanInv, Init
<1>10. OwnedByLiveLoop
  BY <1>2 DEF OwnedByLiveLoop, Init
<1> QED
  BY <1>5, <1>6, <1>7, <1>8, <1>9, <1>10 DEF IInv

\* Every step keeps the invariant.
LEMMA NextStep ==
  ASSUME IInv, [Next]_vars
  PROVE  IInv'
<1>1. CASE BaseStep
  BY <1>1, ThreadSteps, ScheduleSteps, PhaseSteps, AcceptNextStep, AcceptMinStep,
     ScanNextStep, ScanEndStep, AcceptRefusedStep DEF BaseStep
<1>2. CASE \E i \in BgIds : ThreadStep(i)
  BY <1>2, ThreadSteps, StartWorkingStep, LeaveLoopStep DEF ThreadStep
<1>3. CASE Start \/ Destroy
  BY <1>3, PhaseSteps, DestroyStep
<1>4. CASE \E c \in Conns : Connect(c) \/ HandleClose(c)
  BY <1>4, ConnectStep, HandleCloseStep
<1>5. CASE UNCHANGED vars
  <2>1. UNCHANGED <<size_, connVars, next_, scan, quiet>>
    BY <1>5 DEF vars, serverVars
  <2>2. phase' = phase /\ bg' = bg /\ exit_' = exit_ /\ loops_' = loops_ /\ (listening' = listening)
        /\ size_' = size_ /\ scan' = scan
    BY <1>5 DEF vars, serverVars
  <2>3. LoopsInv' /\ ThreadsInv'
    BY <2>2 DEF IInv, LoopsInv, ThreadsInv, Starting, Running
  <2> QED
    BY <2>1, <2>2, <2>3, ServerStep DEF IInv, OwnedByLiveLoop, TypeOK
<1> QED
  BY <1>1, <1>2, <1>3, <1>4, <1>5 DEF Next

\* The invariant holds always.
THEOREM Invariance == Spec => []IInv
<1>1. Init => IInv
  BY InitStep
<1>2. IInv /\ [Next]_vars => IInv'
  BY NextStep
<1> QED
  BY <1>1, <1>2, PTL DEF Spec

\* A connection is only in the hands of a loop of the schedule that exists:
\* Schedule::Start() waits for each loop thread before the server listens, and
\* ~BGEventLoop drops a loop's connections with it.
THEOREM LiveLoopsOwn == Spec => []OwnedByLiveLoop
<1>1. IInv => OwnedByLiveLoop
  BY DEF IInv
<1> QED
  BY <1>1, Invariance, PTL

\* A scan ends only when GetMinLoop() returns.
LEMMA OnlyScanEnd ==
  ASSUME IInv, Next, scan # NoScan, scan' = NoScan
  PROVE  ScanEnd
<1>1. phase = "up"
  BY DEF IInv, LoopsInv
<1>2. ~ScanNext
  <2> SUFFICES ASSUME ScanNext PROVE FALSE
    OBVIOUS
  <2>1. scan \in Scans /\ scan.i \in Nat
    BY DEF IInv, OwnedByLiveLoop, TypeOK, Scans
  <2>2. scan'.i = scan.i + 1 /\ scan'.on = TRUE
    BY <2>1 DEF ScanNext, KeepMin, Scans
  <2>3. DOMAIN scan' = DOMAIN scan
    BY DEF ScanNext, KeepMin
  <2>4. "i" \in DOMAIN scan /\ "i" \notin DOMAIN NoScan
    BY <2>1 DEF Scans, NoScan
  <2> QED
    BY <2>3, <2>4
<1>3. \A i \in BgIds : ~ThreadStep(i)
  BY DEF ThreadStep, Publish, EnterLoop, StartWorking, LeaveLoop
<1>4. \A c \in Conns : ~Connect(c) /\ ~HandleClose(c)
  BY DEF Connect, HandleClose
<1>5. ~Start /\ ~Destroy
  BY DEF Start, Destroy, BaseReady
<1>6. /\ ~SpawnThread /\ ~GotLoop /\ ~ScheduleStarted /\ ~EnableListen /\ ~AcceptNext
      /\ ~AcceptMin /\ ~AcceptRefused /\ ~ExitLoop /\ ~Destroyed
  BY DEF SpawnThread, GotLoop, ScheduleStarted, EnableListen, AcceptNext, AcceptMin,
         AcceptRefused, ExitLoop, Destroyed, BaseReady
<1> QED
  BY <1>2, <1>3, <1>4, <1>5, <1>6 DEF Next, BaseStep

\* If no StartWorking is queued, the load of a loop is what it counts.
LEMMA LoadIsCount ==
  ASSUME IInv, \A i \in BgIds : funcs[i] = <<>>, NEW l \in Loops
  PROVE  Load(l) = connection_size_[l]
<1>1. ASSUME NEW c \in Conns
      PROVE  state[c] # "kConnecting"
  <2>1. Len(<<>>) = 0 /\ \A k \in 1..0 : FALSE
    OBVIOUS
  <2> QED
    BY <2>1 DEF IInv, PlaceInv, QueueInv
<1>2. {c \in Conns : owner[c] = l /\ state[c] \in {"kConnecting", "kConnected"}}
         = Working(state, owner, l)
  BY <1>1 DEF Working
<1> QED
  BY <1>2 DEF Load, IInv, CountInv

\* GetMinLoop() gives a new connection to a loop with the fewest connections,
\* if no StartWorking was queued when it began and no connection was closed
\* while it read the loads.
THEOREM LeastLoaded == Spec => LeastLoadedIfQuiet
<1>1. IInv /\ [Next]_vars =>
        [scan # NoScan /\ scan' = NoScan /\ quiet =>
           \A k \in 1..Len(loops_) : Load(owner'[scan.conn]) <= Load(loops_[k])]_vars
  <2> SUFFICES ASSUME IInv, Next, scan # NoScan, scan' = NoScan, quiet,
                      NEW k \in 1..Len(loops_)
               PROVE  Load(owner'[scan.conn]) <= Load(loops_[k])
    OBVIOUS
  <2>1. scan.i = Len(loops_) /\ NewConnection(scan.conn, scan.loop)
    BY OnlyScanEnd DEF ScanEnd
  <2>2. TypeOK /\ ScanInv
    BY DEF IInv, OwnedByLiveLoop
  <2>3. scan.conn \in Conns /\ scan.loop \in Loops
    BY <2>2 DEF TypeOK, Scans
  <2>4. owner'[scan.conn] = scan.loop
    BY <2>1, <2>2, <2>3 DEF NewConnection, TypeOK
  <2>5. /\ \A i \in BgIds : funcs[i] = <<>>
        /\ scan.min = connection_size_[scan.loop]
        /\ scan.min <= connection_size_[loops_[k]]
    BY <2>1, <2>2 DEF ScanInv
  <2>6. loops_[k] \in Loops
    BY LoopOfSchedule
  <2>7. Load(scan.loop) = connection_size_[scan.loop] /\ Load(loops_[k]) = connection_size_[loops_[k]]
    BY <2>3, <2>5, <2>6, LoadIsCount
  <2> QED
    BY <2>4, <2>5, <2>7
<1> QED
  BY <1>1, Invariance, PTL DEF Spec, LeastLoadedIfQuiet
=============================================================================
