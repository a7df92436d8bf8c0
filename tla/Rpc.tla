--------------------------------- MODULE Rpc ---------------------------------
(***************************************************************************)
(* RpcChannel and RpcServer over ProtobufCodec (rpc_channel.cc,            *)
(* rpc_server.cc, protobuf_codec.h): calls, answers, timeouts and a lost   *)
(* connection.                                                             *)
(*                                                                         *)
(* Both loops' threads and, when `threaded` holds, one other thread that   *)
(* calls CallMethod take steps.  A connection is two ordered streams of    *)
(* units that arrive in pieces of any size (TcpConnection); a frame is     *)
(* kHeaderSize header units and one unit of message.                       *)
(***************************************************************************)
EXTENDS Integers, Sequences

CONSTANT MaxCalls  \* bound: calls a channel is asked for

ASSUME MaxCallsAssumption == MaxCalls \in Nat \ {0}

VARIABLES
    ms_,        \* of RpcChannel: whether a timeout is set
    threaded,   \* whether another thread calls CallMethod, too
    conn_,      \* "null" before SetTcpConnectionPtr, then "up" or "down"
    alive,      \* the RpcChannel has not been destroyed
    seq_,
    call_map_,  \* ids entered
    caller,     \* the other thread: where it is in CallMethod, and its id
    tasks,      \* what it has queued to the channel's loop
    timer,      \* per id: "none", "queued", "set" or "off"
    net,        \* per direction: units under way
    buf,        \* per direction: units received, not yet retrieved
    context,    \* of the server's connection: an id, or Freed
    pending,    \* requests a service has not answered yet
    overlap,    \* history: a request came while another was pending
    outcome,    \* history, per id: what the caller has been told, in order
    released    \* history, per id: how often done was run or deleted

channelVars == <<ms_, threaded, conn_, alive, seq_, call_map_, caller, tasks, timer>>
netVars == <<net, buf>>
serverVars == <<context, pending, overlap>>
callVars == <<outcome, released>>
vars == <<channelVars, netVars, serverVars, callVars>>

Ids == 1..MaxCalls
Freed == 0
Error == 0        \* an outcome; id > 0 is done->Run() with the answer to request id
Timeout == -1
Request == "request"
Reply == "reply"
Kinds == {"ok", "invalid"}  \* invalid: by service, method or request, all alike

TypeOK ==
    /\ {ms_, threaded, alive, overlap} \subseteq BOOLEAN
    /\ conn_ \in {"null", "up", "down"}
    /\ seq_ \in 0..MaxCalls
    /\ call_map_ \subseteq Ids
    /\ caller \in [at : {"idle", "RunAfter", "enter"}, id : 0..MaxCalls]
    /\ tasks \in Seq([do : {"send", "insert"}, id : Ids, kind : Kinds])
    /\ timer \in [Ids -> {"none", "queued", "set", "off"}]
    /\ context \in 0..MaxCalls
    /\ pending \subseteq Ids
    /\ outcome \in [Ids -> Seq(-1..MaxCalls)]
    /\ released \in [Ids -> 0..2]

Init ==
    /\ ms_ \in BOOLEAN
    /\ threaded \in BOOLEAN
    /\ conn_ = "null"
    /\ alive = TRUE
    /\ seq_ = 0
    /\ call_map_ = {}
    /\ caller = [at |-> "idle", id |-> 0]
    /\ tasks = <<>>
    /\ timer = [i \in Ids |-> "none"]
    /\ net = [d \in {Request, Reply} |-> <<>>]
    /\ buf = net
    /\ context = Freed
    /\ pending = {}
    /\ overlap = FALSE
    /\ outcome = [i \in Ids |-> <<>>]
    /\ released = [i \in Ids |-> 0]

-----------------------------------------------------------------------------
(* ProtobufCodec.  The first unit of a frame stands for its size field,    *)
(* which can be read once the whole header has arrived.                    *)

kHeaderSize == 2
FrameSize == kHeaderSize + 1
Frame(m) == <<m>> \o [i \in 1..kHeaderSize |-> "rest"]

\* What SendMessage adds to a stream; a connection that is not open drops it.
Sent(d, m) == IF conn_ = "up" THEN [net EXCEPT ![d] = @ \o Frame(m)] ELSE net

\* The OnMessage loop has a message to take, the one at the head of the buffer.
Whole(d) == Len(buf[d]) >= kHeaderSize /\ Len(buf[d]) >= FrameSize
Message(d) == buf[d][1]
Retrieved(d) == [buf EXCEPT ![d] = SubSeq(@, FrameSize + 1, Len(@))]

\* The connection reads some of what has arrived; OnMessage runs on it.
Read(d) ==
    /\ ~Whole(d) /\ conn_ = "up"
    /\ \E n \in 1..Len(net[d]) :
         /\ net' = [net EXCEPT ![d] = SubSeq(@, n + 1, Len(@))]
         /\ buf' = [buf EXCEPT ![d] = @ \o SubSeq(net[d], 1, n)]
    /\ UNCHANGED <<channelVars, serverVars, callVars>>

-----------------------------------------------------------------------------
(* RpcChannel.                                                             *)

SetTcpConnectionPtr ==
    /\ conn_ = "null" /\ alive
    /\ conn_' = "up"
    /\ UNCHANGED <<ms_, threaded, alive, seq_, call_map_, caller, tasks, timer,
                   netVars, serverVars, callVars>>

\* error_cb_ and done of call i.
Tell(i, o) == outcome' = [outcome EXCEPT ![i] = Append(@, o)]
Release(ids) ==
    released' = [i \in Ids |-> IF i \in ids /\ released[i] < 2
                               THEN released[i] + 1 ELSE released[i]]

CanCall == alive /\ seq_ < MaxCalls

\* SendMessage has no connection to send on.
CallUnsentSilently ==
    Release({seq_ + 1}) /\ UNCHANGED <<call_map_, tasks, timer, net, outcome>>
CallUnsent ==
    /\ Tell(seq_ + 1, Error)
    /\ Release({seq_ + 1})
    /\ UNCHANGED <<call_map_, tasks, timer, net>>

\* CallMethod on the loop's thread: everything happens at once.
CallMethod(kind) ==
    /\ CanCall
    /\ seq_' = seq_ + 1
    /\ \/ conn_ = "null" /\ CallUnsent
       \/ /\ conn_ # "null"
          /\ net' = Sent(Request, [id |-> seq_', kind |-> kind])
          /\ timer' = [timer EXCEPT ![seq_'] = IF ms_ THEN "set" ELSE @]
          /\ call_map_' = call_map_ \cup {seq_'}
          /\ UNCHANGED <<tasks, callVars>>
    /\ UNCHANGED <<ms_, threaded, conn_, alive, caller, buf, serverVars>>

\* On another thread: send, RunAfter and the entry are steps of their own, and
\* sending and inserting the timer are queued to the loop.
CallMethodOff(kind) ==
    /\ CanCall /\ threaded /\ caller.at = "idle"
    /\ seq_' = seq_ + 1
    /\ \/ conn_ = "null" /\ CallUnsent /\ UNCHANGED caller
       \/ /\ conn_ # "null"
          /\ tasks' = Append(tasks, [do |-> "send", id |-> seq_', kind |-> kind])
          /\ caller' = [at |-> IF ms_ THEN "RunAfter" ELSE "enter", id |-> seq_']
          /\ UNCHANGED <<call_map_, timer, net, callVars>>
    /\ UNCHANGED <<ms_, threaded, conn_, alive, buf, serverVars>>

RunAfterOff ==
    /\ caller.at = "RunAfter"
    /\ timer' = [timer EXCEPT ![caller.id] = "queued"]
    /\ tasks' = Append(tasks, [do |-> "insert", id |-> caller.id, kind |-> "ok"])
    /\ caller' = [caller EXCEPT !.at = "enter"]
    /\ UNCHANGED <<ms_, threaded, conn_, alive, seq_, call_map_, netVars, serverVars, callVars>>

EnterOff ==
    /\ caller.at = "enter"
    /\ call_map_' = call_map_ \cup {caller.id}
    /\ caller' = [at |-> "idle", id |-> 0]
    /\ UNCHANGED <<ms_, threaded, conn_, alive, seq_, tasks, timer, netVars, serverVars, callVars>>

\* The channel's loop is not inside ProtobufCodec::OnMessage.
LoopFree == ~Whole(Reply)

RunTask ==
    /\ LoopFree /\ tasks # <<>>
    /\ tasks' = Tail(tasks)
    /\ LET t == Head(tasks)
       IN  IF t.do = "send"
           THEN net' = Sent(Request, [id |-> t.id, kind |-> t.kind]) /\ UNCHANGED timer
           ELSE timer' = [timer EXCEPT ![t.id] = "set"] /\ UNCHANGED net
    /\ UNCHANGED <<ms_, threaded, conn_, alive, seq_, call_map_, caller, buf, serverVars, callVars>>

\* EventLoop::RemoveTimer: a timer whose insertion is still queued stays.
RemovedNone(ids) == timer
Removed(ids) ==
    [i \in Ids |-> IF i \in ids /\ timer[i] = "set" THEN "off" ELSE timer[i]]

Kept(i) == call_map_
Without(i) == call_map_ \ {i}

OnTimeout(i) ==
    /\ LoopFree /\ alive /\ timer[i] = "set"
    /\ timer' = [timer EXCEPT ![i] = "off"]
    /\ call_map_' = Without(i)
    /\ Release({i} \cap call_map_)
    /\ Tell(i, Timeout)
    /\ UNCHANGED <<ms_, threaded, conn_, alive, seq_, caller, tasks, netVars, serverVars>>

\* The error of a reply is reported whether or not its call is still entered.
OnResponse ==
    /\ alive /\ Whole(Reply) /\ Message(Reply).kind # "garbled"
    /\ LET m == Message(Reply)
           found == {m.id} \cap call_map_
       IN  /\ call_map_' = Without(m.id)
           /\ timer' = Removed(found)
           /\ Release(found)
           /\ IF m.kind # "ok" THEN Tell(m.id, Error)
              ELSE IF found # {} THEN Tell(m.id, m.of) ELSE UNCHANGED outcome
    /\ buf' = Retrieved(Reply)
    /\ UNCHANGED <<ms_, threaded, conn_, alive, seq_, caller, tasks, net, serverVars>>

\* ~RpcChannel, when no thread is inside it.
Destroy ==
    /\ alive /\ LoopFree /\ caller.at = "idle"
    /\ alive' = FALSE
    /\ Release(call_map_)
    /\ timer' = Removed(call_map_)
    /\ call_map_' = {}
    /\ UNCHANGED <<ms_, threaded, conn_, seq_, caller, tasks, netVars, serverVars, outcome>>

-----------------------------------------------------------------------------
(* RpcServer.                                                              *)

\* The id Done finds: the freed int may hold anything by now.
ContextId == IF context = Freed THEN Ids ELSE {context}

Answer(id, of) == net' = Sent(Reply, [id |-> id, kind |-> "ok", of |-> of])

\* OnRequest: no service or method by these names, or a request that does not
\* parse, is answered at once.  A service calls done before CallMethod returns,
\* with the id just put into the context, or keeps the request and calls it later.
OnRequestBad(m) ==
    /\ m.kind # "ok"
    /\ net' = Sent(Reply, [id |-> m.id, kind |-> m.kind])
    /\ UNCHANGED serverVars
OnRequestNow(m) ==
    /\ m.kind = "ok"
    /\ Answer(m.id, m.id)
    /\ context' = Freed
    /\ overlap' = (overlap \/ pending # {})
    /\ UNCHANGED pending
OnRequestLater(m) ==
    /\ m.kind = "ok"
    /\ context' = m.id
    /\ pending' = pending \cup {m.id}
    /\ overlap' = (overlap \/ pending # {})
    /\ UNCHANGED net
OnRequest ==
    /\ Whole(Request) /\ Message(Request).kind # "garbled"
    /\ LET m == Message(Request) IN OnRequestBad(m) \/ OnRequestNow(m) \/ OnRequestLater(m)
    /\ buf' = Retrieved(Request)
    /\ UNCHANGED <<channelVars, callVars>>

\* Done reads the id from the context, whichever request it answers, and frees it.
Done(i) ==
    /\ i \in pending /\ ~Whole(Request)
    /\ \E id \in ContextId : Answer(id, i)
    /\ pending' = pending \ {i}
    /\ context' = Freed
    /\ UNCHANGED <<channelVars, buf, overlap, callVars>>

-----------------------------------------------------------------------------
(* The connection ends: by itself, or by OnError of either end, which      *)
(* calls ForceClose() on a frame that does not parse.                      *)

Down ==
    /\ conn_' = "down"
    /\ net' = [d \in {Request, Reply} |-> <<>>]
    /\ UNCHANGED <<ms_, threaded, alive, seq_, call_map_, caller, tasks, timer,
                   serverVars, callVars>>

Lose == conn_ = "up" /\ Down /\ UNCHANGED buf

\* A peer that speaks another message type sends a frame.
Garble(d) ==
    /\ conn_ = "up" /\ net[d] = <<>> /\ buf[d] = <<>> /\ seq_ = MaxCalls
    /\ net' = [net EXCEPT ![d] = Frame([kind |-> "garbled"])]
    /\ UNCHANGED <<channelVars, buf, serverVars, callVars>>

OnError(d) ==
    /\ Whole(d) /\ Message(d).kind = "garbled"
    /\ Down
    /\ buf' = [buf EXCEPT ![d] = <<>>]

Next ==
    \/ SetTcpConnectionPtr
    \/ \E kind \in Kinds : CallMethod(kind) \/ CallMethodOff(kind)
    \/ RunAfterOff \/ EnterOff \/ RunTask
    \/ \E i \in Ids : OnTimeout(i) \/ Done(i)
    \/ OnResponse \/ Destroy \/ OnRequest \/ Lose
    \/ \E d \in {Request, Reply} : Read(d) \/ Garble(d) \/ OnError(d)

Spec == Init /\ [][Next]_vars

\* Sockets deliver, loops run what they are given, timers fire, and services answer.
FairSpec ==
    /\ Spec
    /\ WF_vars(RunAfterOff) /\ WF_vars(EnterOff) /\ WF_vars(RunTask)
    /\ WF_vars(OnResponse) /\ WF_vars(OnRequest)
    /\ \A i \in Ids : WF_vars(OnTimeout(i)) /\ WF_vars(Done(i))
    /\ \A d \in {Request, Reply} : WF_vars(Read(d)) /\ WF_vars(OnError(d))

-----------------------------------------------------------------------------
(* Properties.                                                             *)

\* done is run or deleted once: a timeout and an answer that race for a call, on
\* any thread, never both find it in call_map_, and the destructor finds neither.
ReleasedOnce ==
    TypeOK /\ \A i \in Ids : released[i] <= 1 /\ (i \in call_map_ => released[i] = 0)

\* A call answered OK is told nothing else, neither a timeout before or after nor a
\* second answer, and what it got is the answer to its own request; and no timer that
\* would call into it is left when the channel is destroyed.  This needs the callers on
\* the loop's thread and, for the answers, services that answer one request of a
\* connection before the next one comes.
OwnAnswerOnly ==
    ~threaded =>
        /\ ~overlap => \A i \in Ids : (\E k \in DOMAIN outcome[i] : outcome[i][k] > 0)
                                            => outcome[i] = <<i>>
        /\ ~alive => \A i \in Ids : timer[i] # "set"

\* Every call is answered or fails in the end: without a timeout as long as the
\* connection stays up, with one always.  On the loop's thread only: elsewhere the
\* answer can pass the entry into call_map_, and nobody asks for it again.
Concluded ==
    ~threaded =>
        \A i \in Ids : seq_ >= i ~> \/ outcome[i] # <<>> \/ ~alive
                                    \/ ~ms_ /\ (conn_ = "down" \/ overlap)
=============================================================================
