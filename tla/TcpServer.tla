------------------------------ MODULE TcpServer ------------------------------
(***************************************************************************)
(* TcpServer with its Schedule, its BGEventLoops and its TcpAcceptor       *)
(* (tcp_server.cc, schedule.cc, bg_eventloop.cc, tcp_acceptor.cc): start   *)
(* of the loop threads, accept() with a limit on descriptors, the choice   *)
(* of a loop for each connection, and the destructor.                      *)
(*                                                                         *)
(* The thread of the base loop accepts; each loop thread runs the          *)
(* StartWorking functions queued to it and closes its connections.  An     *)
(* EventLoop is its queue and its exit_ flag here: the EventLoop module    *)
(* shows that what is queued is run and that Exit() ends Loop().           *)
(***************************************************************************)
EXTENDS Integers, Sequences, FiniteSets

CONSTANTS
    Conns,       \* connections peers make
    Sizes,       \* thread_size: how many loop threads the server is given
    MinLoopMax,  \* AssignLoop compares loads up to this many threads (5)
    MaxFds       \* descriptors the process may have for connections

ASSUME SizesAssumption == Sizes \subseteq Nat /\ Sizes # {}
ASSUME LimitsAssumption == MinLoopMax \in Nat /\ MaxFds \in Nat

VARIABLES
    size_,             \* of Schedule
    phase,             \* what Start() or the destructor is about to do
    bg,                \* each loop thread: none, spawned, published, looping, ended
    exit_,             \* of each background EventLoop
    loops_,            \* of Schedule: the loops, in order
    next_,
    listening,
    backlog,           \* connections the kernel holds for accept()
    funcs,             \* per loop thread: connections whose StartWorking is queued
    state,             \* per connection: where it is
    owner,             \* the loop a connection was given to
    connection_size_,  \* per loop
    scan,              \* GetMinLoop under way, or NoScan
    quiet              \* history: no StartWorking was pending when the scan began,
                       \* and no connection has been closed since

serverVars == <<size_, phase, bg, exit_, loops_, listening>>
connVars == <<backlog, funcs, state, owner, connection_size_>>
vars == <<serverVars, connVars, next_, scan, quiet>>

Base == 0
NoLoop == -1
BgIds == UNION {1..n : n \in Sizes}
Loops == {Base} \cup BgIds
NoScan == [on |-> FALSE]
Scans == [on : {TRUE}, conn : Conns, i : Nat \ {0}, loop : Loops, min : Nat]

TypeOK ==
    /\ size_ \in Sizes
    /\ phase \in {"new", "spawn", "wait", "listen", "up", "exit", "join", "down"}
    /\ bg \in [BgIds -> {"none", "spawned", "published", "looping", "ended"}]
    /\ exit_ \in [BgIds -> BOOLEAN]
    /\ loops_ \in Seq(Loops)
    /\ next_ \in Nat
    /\ listening \in BOOLEAN
    /\ backlog \in Seq(Conns)
    /\ funcs \in [BgIds -> Seq(Conns)]
    /\ state \in [Conns -> {"new", "pending", "kConnecting", "kConnected",
                            "kDisconnected", "refused", "dropped"}]
    /\ owner \in [Conns -> Loops \cup {NoLoop}]
    /\ connection_size_ \in [Loops -> Nat]
    /\ scan \in Scans \cup {NoScan}
    /\ quiet \in BOOLEAN

Init ==
    /\ size_ \in Sizes
    /\ phase = "new"
    /\ bg = [i \in BgIds |-> "none"]
    /\ exit_ = [i \in BgIds |-> TRUE]
    /\ loops_ = <<>>
    /\ next_ = 0
    /\ listening = FALSE
    /\ backlog = <<>>
    /\ funcs = [i \in BgIds |-> <<>>]
    /\ state = [c \in Conns |-> "new"]
    /\ owner = [c \in Conns |-> NoLoop]
    /\ connection_size_ = [l \in Loops |-> 0]
    /\ scan = NoScan
    /\ quiet = TRUE

-----------------------------------------------------------------------------
(* Starting.                                                               *)

\* TcpServer::Start() passes its compare-and-exchange; a second call does not.
Start ==
    /\ phase = "new"
    /\ phase' = "spawn"
    /\ UNCHANGED <<size_, bg, exit_, loops_, listening, connVars, next_, scan, quiet>>

\* The loop thread Schedule::Start() is about.
Current == Len(loops_) + 1

\* BGEventLoop::Loop() creates the thread.
SpawnThread ==
    /\ phase = "spawn"
    /\ Len(loops_) < size_
    /\ phase' = "wait"
    /\ bg' = [bg EXCEPT ![Current] = "spawned"]
    /\ UNCHANGED <<size_, exit_, loops_, listening, connVars, next_, scan, quiet>>

\* ThreadFunc() makes the EventLoop and sets eventloop_ under the mutex.
Publish(i) ==
    /\ bg[i] = "spawned"
    /\ bg' = [bg EXCEPT ![i] = "published"]
    /\ UNCHANGED <<size_, phase, exit_, loops_, listening, connVars, next_, scan, quiet>>

\* Loop() begins: it clears exit_, also one that is set already.
EnterLoop(i) ==
    /\ bg[i] = "published"
    /\ bg' = [bg EXCEPT ![i] = "looping"]
    /\ exit_' = [exit_ EXCEPT ![i] = FALSE]
    /\ UNCHANGED <<size_, phase, loops_, listening, connVars, next_, scan, quiet>>

GotLoopUnchecked ==
    /\ phase = "wait"
    /\ phase' = "spawn"
    /\ loops_' = Append(loops_, Current)
    /\ UNCHANGED <<size_, bg, exit_, listening, connVars, next_, scan, quiet>>

\* The wait on the condition variable ends: eventloop_ is not null.
GotLoop ==
    /\ phase = "wait"
    /\ bg[Current] \in {"published", "looping"}
    /\ phase' = "spawn"
    /\ loops_' = Append(loops_, Current)
    /\ UNCHANGED <<size_, bg, exit_, listening, connVars, next_, scan, quiet>>

\* Schedule::Start() has all its loops, or takes the base loop.
ScheduleStarted ==
    /\ phase = "spawn"
    /\ Len(loops_) = size_
    /\ phase' = "listen"
    /\ loops_' = IF size_ = 0 THEN <<Base>> ELSE loops_
    /\ UNCHANGED <<size_, bg, exit_, listening, connVars, next_, scan, quiet>>

\* EnableListen() on the base loop.
EnableListen ==
    /\ phase = "listen"
    /\ phase' = "up"
    /\ listening' = TRUE
    /\ UNCHANGED <<size_, bg, exit_, loops_, connVars, next_, scan, quiet>>

-----------------------------------------------------------------------------
(* Accepting and assigning.                                                *)

\* A peer connects; the kernel queues the connection.
Connect(c) ==
    /\ listening
    /\ state[c] = "new"
    /\ state' = [state EXCEPT ![c] = "pending"]
    /\ backlog' = Append(backlog, c)
    /\ UNCHANGED <<serverVars, funcs, owner, connection_size_, next_, scan, quiet>>

\* The base loop's thread is in its loop.
BaseReady == phase = "up" /\ scan = NoScan

\* The descriptor of a connection is open from accept() to its destruction.
Open(c) == state[c] \in {"kConnecting", "kConnected"} \/ (scan # NoScan /\ scan.conn = c)
FdFree == Cardinality({c \in Conns : Open(c)}) < MaxFds

\* NewConnection with a loop: StartWorking at once on the base loop, or queued.
NewConnection(c, l) ==
    /\ owner' = [owner EXCEPT ![c] = l]
    /\ IF l = Base
       THEN /\ state' = [state EXCEPT ![c] = "kConnected"]
            /\ connection_size_' = [connection_size_ EXCEPT ![l] = @ + 1]
            /\ UNCHANGED funcs
       ELSE /\ state' = [state EXCEPT ![c] = "kConnecting"]
            /\ funcs' = [funcs EXCEPT ![l] = Append(@, c)]
            /\ UNCHANGED connection_size_

\* The index GetNextLoop() uses, from 0.
NextIndex == IF next_ >= Len(loops_) THEN 0 ELSE next_

\* accept() gives a connection and GetNextLoop() its loop.
AcceptNext ==
    /\ BaseReady /\ backlog # <<>> /\ FdFree
    /\ size_ > MinLoopMax
    /\ backlog' = Tail(backlog)
    /\ next_' = NextIndex + 1
    /\ NewConnection(Head(backlog), loops_[NextIndex + 1])
    /\ UNCHANGED <<serverVars, scan, quiet>>

\* accept() gives a connection and GetMinLoop() reads the first load.
AcceptMin ==
    /\ BaseReady /\ backlog # <<>> /\ FdFree
    /\ size_ <= MinLoopMax
    /\ backlog' = Tail(backlog)
    /\ scan' = [on |-> TRUE, conn |-> Head(backlog), i |-> 1, loop |-> loops_[1],
                min |-> connection_size_[loops_[1]]]
    /\ quiet' = \A i \in BgIds : funcs[i] = <<>>
    /\ UNCHANGED <<serverVars, funcs, state, owner, connection_size_, next_>>

KeepMax(l) ==
    IF connection_size_[l] > scan.min
    THEN [scan EXCEPT !.i = @ + 1, !.loop = l, !.min = connection_size_[l]]
    ELSE [scan EXCEPT !.i = @ + 1]

\* What GetMinLoop() keeps after reading the load of loop l.
KeepMin(l) ==
    IF connection_size_[l] < scan.min
    THEN [scan EXCEPT !.i = @ + 1, !.loop = l, !.min = connection_size_[l]]
    ELSE [scan EXCEPT !.i = @ + 1]

\* GetMinLoop() reads the load of the next loop.
ScanNext ==
    /\ scan # NoScan /\ scan.i < Len(loops_)
    /\ scan' = KeepMin(loops_[scan.i + 1])
    /\ UNCHANGED <<serverVars, connVars, next_, quiet>>

\* GetMinLoop() returns.
ScanEnd ==
    /\ scan # NoScan /\ scan.i = Len(loops_)
    /\ scan' = NoScan
    /\ NewConnection(scan.conn, scan.loop)
    /\ UNCHANGED <<serverVars, backlog, next_, quiet>>

\* accept() fails for want of a descriptor; without an idle one to give up
\* the connection stays in the backlog.
AcceptWithoutIdleFd ==
    /\ BaseReady /\ backlog # <<>> /\ ~FdFree
    /\ UNCHANGED vars

\* accept() fails with EMFILE: the idle descriptor is given up, the
\* connection accepted and closed, and the idle descriptor taken again.
AcceptRefused ==
    /\ BaseReady /\ backlog # <<>> /\ ~FdFree
    /\ backlog' = Tail(backlog)
    /\ state' = [state EXCEPT ![Head(backlog)] = "refused"]
    /\ UNCHANGED <<serverVars, funcs, owner, connection_size_, next_, scan, quiet>>

-----------------------------------------------------------------------------
(* The loop threads.                                                       *)

\* A loop thread runs a queued StartWorking, with AddConnection.
StartWorking(i) ==
    /\ bg[i] = "looping" /\ funcs[i] # <<>>
    /\ funcs' = [funcs EXCEPT ![i] = Tail(@)]
    /\ state' = [state EXCEPT ![Head(funcs[i])] = "kConnected"]
    /\ connection_size_' = [connection_size_ EXCEPT ![i] = @ + 1]
    /\ UNCHANGED <<serverVars, backlog, owner, next_, scan, quiet>>

\* A loop closes a connection, with RemoveConnection.
HandleClose(c) ==
    /\ state[c] = "kConnected"
    /\ IF owner[c] = Base THEN BaseReady \/ phase = "down" ELSE bg[owner[c]] = "looping"
    /\ state' = [state EXCEPT ![c] = "kDisconnected"]
    /\ connection_size_' = [connection_size_ EXCEPT ![owner[c]] = @ - 1]
    /\ quiet' = FALSE
    /\ UNCHANGED <<serverVars, backlog, funcs, owner, next_, scan>>

-----------------------------------------------------------------------------
(* The destructor, on the base loop's thread.                              *)

\* acceptor_ goes first: the kernel resets what it still held.
Destroy ==
    /\ BaseReady
    /\ phase' = "exit"
    /\ listening' = FALSE
    /\ backlog' = <<>>
    /\ state' = [c \in Conns |-> IF state[c] = "pending" THEN "dropped" ELSE state[c]]
    /\ UNCHANGED <<size_, bg, exit_, loops_, funcs, owner, connection_size_, next_, scan, quiet>>

\* The first BGEventLoop that is still there.
Leaving == CHOOSE i \in 1..size_ : bg[i] # "ended" /\ \A j \in 1..i - 1 : bg[j] = "ended"
AllEnded == \A i \in 1..size_ : bg[i] = "ended"

ExitLoopSilently ==
    /\ phase = "exit" /\ ~AllEnded
    /\ phase' = "join"
    /\ UNCHANGED <<size_, bg, exit_, loops_, listening, connVars, next_, scan, quiet>>

\* ~BGEventLoop() calls Exit() and waits for the thread.
ExitLoop ==
    /\ phase = "exit" /\ ~AllEnded
    /\ phase' = "join"
    /\ exit_' = [exit_ EXCEPT ![Leaving] = TRUE]
    /\ UNCHANGED <<size_, bg, loops_, listening, connVars, next_, scan, quiet>>

\* Loop() returns; the EventLoop goes, with its functions and connections.
LeaveLoop(i) ==
    /\ bg[i] = "looping" /\ exit_[i]
    /\ bg' = [bg EXCEPT ![i] = "ended"]
    /\ phase' = "exit"   \* thread_->join() returns
    /\ state' = [c \in Conns |->
                   IF owner[c] = i /\ state[c] # "kDisconnected" THEN "dropped" ELSE state[c]]
    /\ funcs' = [funcs EXCEPT ![i] = <<>>]
    /\ connection_size_' = [connection_size_ EXCEPT ![i] = 0]
    /\ UNCHANGED <<size_, exit_, loops_, listening, backlog, owner, next_, scan, quiet>>

\* Every loop thread has ended.
Destroyed ==
    /\ phase = "exit" /\ AllEnded
    /\ phase' = "down"
    /\ UNCHANGED <<size_, bg, exit_, loops_, listening, connVars, next_, scan, quiet>>

BaseStep ==
    \/ SpawnThread \/ GotLoop \/ ScheduleStarted \/ EnableListen
    \/ AcceptNext \/ AcceptMin \/ ScanNext \/ ScanEnd \/ AcceptRefused
    \/ ExitLoop \/ Destroyed

ThreadStep(i) == Publish(i) \/ EnterLoop(i) \/ StartWorking(i) \/ LeaveLoop(i)

Next ==
    \/ BaseStep
    \/ \E i \in BgIds : ThreadStep(i)
    \/ Start \/ Destroy
    \/ \E c \in Conns : Connect(c) \/ HandleClose(c)

Spec == Init /\ [][Next]_vars

\* Every thread keeps running; nothing is assumed of peers and of the owner.
Fairness == WF_vars(BaseStep) /\ \A i \in BgIds : WF_vars(ThreadStep(i))

FairSpec == Spec /\ Fairness

-----------------------------------------------------------------------------
(* Properties.                                                             *)

\* A connection is only ever in the hands of a loop of the schedule whose
\* EventLoop exists: Start() has waited for each thread before the server
\* listens, and the destructor leaves no connection with a loop that ended.
OwnedByLiveLoop ==
    /\ TypeOK
    /\ \A c \in Conns : state[c] \in {"kConnecting", "kConnected"} =>
          /\ \E k \in 1..Len(loops_) : loops_[k] = owner[c]
          /\ owner[c] # Base => bg[owner[c]] \in {"published", "looping"}

\* Connections given to a loop and not yet closed.
Load(l) == Cardinality({c \in Conns : owner[c] = l /\ state[c] \in {"kConnecting", "kConnected"}})

\* A new connection goes to a loop with the fewest connections (README.md:25),
\* if none was on its way when GetMinLoop() began and none was closed while it
\* read the loads one after the other.
LeastLoadedIfQuiet ==
    [][scan # NoScan /\ scan' = NoScan /\ quiet =>
         \A k \in 1..Len(loops_) : Load(owner'[scan.conn]) <= Load(loops_[k])]_vars

\* No connection stays in the backlog: with every descriptor in use it is
\* refused, whatever the open connections do.
BacklogDrains == \A c \in Conns : state[c] = "pending" ~> state[c] # "pending"

\* The destructor returns if every loop thread has got into Loop(); an Exit()
\* that comes before Loop() is lost.
DestructorReturns ==
    (phase = "exit" /\ \A i \in 1..size_ : bg[i] = "looping") ~> phase = "down"
=============================================================================
