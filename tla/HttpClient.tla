------------------------------ MODULE HttpClient ------------------------------
(***************************************************************************)
(* HttpClient (http_client.cc) and, at the other end of its connection,    *)
(* HttpServer::OnMessage (http_server.cc).  Both run on loop threads; the  *)
(* connection is two ordered streams of tokens read in pieces of any size. *)
(* TcpClient's attempt is kept to what HttpClient sees of it: a connection *)
(* some time, or none.  A request made while another is connecting resets  *)
(* client_ and so abandons the attempt under way.  Callbacks may request   *)
(* again, except from HandleClose, where queue_cb_ is being iterated.      *)
(***************************************************************************)
EXTENDS HttpParser

CONSTANTS
    MaxRequests,   \* bound: requests the program makes
    RequestKinds,  \* what it asks for: the method, Connection, body and Content-Length
    ReplyKinds     \* what http_cb_ answers: likewise, and whether it closes

Lengths == Nat \cup {NoLength}
ASSUME BoundsAssumption == MaxRequests \in Nat \ {0}
ASSUME KindsAssumption ==
    /\ RequestKinds \subseteq [post : BOOLEAN, close : BOOLEAN, body : Nat, length : Lengths]
    /\ ReplyKinds \subseteq [valid : BOOLEAN, close : BOOLEAN, body : Nat, length : Lengths]

VARIABLES
    made,       \* requests made so far
    queue_cb_,  \* their callbacks, by request
    attempt,    \* the request bound in client_'s connection callback
    timer_,     \* whether the timer that timer_ names is pending
    stale,      \* pending timers of FirstRequest that timer_ names no more
    conn,       \* "none", "connecting", "kConnected" or "kDisconnecting"
    parser,     \* the response parser, in the connection's context
    readbuf,    \* of the client's connection
    broken,     \* front() of an empty queue_cb_ was called: undefined from there on
    net,        \* per direction: tokens under way
    server,     \* the server's connection: "none", "open" or "half" (after ShutDown)
    reqParser,
    reqBuf,
    spin,       \* the server's loop thread never leaves ParseBuffer
    takenBack,  \* history: http_cb_ has undone a close the request asked for
    serial,     \* history: each request was made after the one before was told
    framed,     \* history: every body was announced as it is
    told        \* history: what each callback was called with

clientVars == <<made, queue_cb_, attempt, timer_, stale, conn, parser, readbuf, broken>>
serverVars == <<server, reqParser, reqBuf, spin, takenBack>>
vars == <<clientVars, net, serverVars, serial, framed, told>>

Requests == 1..MaxRequests
NetworkError == 0
ToServer == "request"
ToClient == "response"
Quiet == [d \in {ToServer, ToClient} |-> <<>>]

Request(r, k) == [id |-> r, post |-> k.post, close |-> k.close, body |-> k.body,
                  length |-> k.length, valid |-> TRUE]
Reply(r, k) == [id |-> r, body |-> k.body, length |-> k.length, valid |-> k.valid]
BadRequest(r) == [id |-> r, body |-> 0, length |-> NoLength, valid |-> TRUE]

\* A body has a Content-Length that fits, and in a request the method that has one read.
Framed(k) == k.length = k.body \/ (k.length = NoLength /\ k.body = 0)
FramedRequest(k) == Framed(k) /\ (k.post \/ k.body = 0)

TypeOK ==
    /\ made \in 0..MaxRequests
    /\ queue_cb_ \in Seq({Request(r, k) : r \in Requests, k \in RequestKinds})
    /\ timer_ \in BOOLEAN /\ stale \in Nat
    /\ conn \in {"none", "connecting", "kConnected", "kDisconnecting"}
    /\ server \in {"none", "open", "half"}
    /\ spin \in BOOLEAN /\ takenBack \in BOOLEAN
    /\ broken \in BOOLEAN /\ serial \in BOOLEAN /\ framed \in BOOLEAN
    /\ DOMAIN told = Requests

Init ==
    /\ made = 0
    /\ queue_cb_ = <<>>
    /\ attempt = NoMessage
    /\ timer_ = FALSE
    /\ stale = 0
    /\ conn = "none"
    /\ parser = NewParser
    /\ readbuf = <<>>
    /\ broken = FALSE
    /\ net = Quiet
    /\ server = "none"
    /\ reqParser = NewParser
    /\ reqBuf = <<>>
    /\ spin = FALSE
    /\ takenBack = FALSE
    /\ serial = TRUE
    /\ framed = TRUE
    /\ told = [r \in Requests |-> <<>>]

-----------------------------------------------------------------------------
(* HttpClient, on its loop's thread.                                       *)

\* SendMessage of the client's connection, which drops what comes after ShutDown.
ClientSends(m) ==
    IF conn = "kConnected" THEN [net EXCEPT ![ToServer] = @ \o Message(m)] ELSE net

\* gaurd_ locks: the connection lives until HandleClose has returned.
Guarded == conn \in {"kConnected", "kDisconnecting"}

\* FirstRequest: a new TcpClient and a new timer; the old timer_, if pending, stays.
FirstRequest(m) ==
    /\ attempt' = m
    /\ conn' = "connecting"
    /\ stale' = stale + (IF timer_ THEN 1 ELSE 0)
    /\ timer_' = TRUE
    /\ UNCHANGED net

DoHttpRequest(k) ==
    /\ made < MaxRequests /\ ~broken
    /\ made' = made + 1
    /\ LET m == Request(made + 1, k)
       IN  /\ queue_cb_' = Append(queue_cb_, m)
           /\ IF Guarded
              THEN net' = ClientSends(m) /\ UNCHANGED <<attempt, conn, timer_, stale>>
              ELSE FirstRequest(m)
    /\ serial' = (serial /\ queue_cb_ = <<>>)
    /\ framed' = (framed /\ FramedRequest(k))
    /\ UNCHANGED <<parser, readbuf, broken, serverVars, told>>

\* The connection callback: only the request that was bound to it is sent.
Connected ==
    /\ conn = "connecting" /\ ~broken
    /\ conn' = "kConnected"
    /\ timer_' = FALSE
    /\ parser' = NewParser
    /\ readbuf' = <<>>
    /\ net' = [Quiet EXCEPT ![ToServer] = Message(attempt)]
    /\ server' = "open"
    /\ reqParser' = NewParser
    /\ reqBuf' = <<>>
    /\ takenBack' = FALSE
    /\ UNCHANGED <<made, queue_cb_, attempt, stale, broken, spin, serial, framed, told>>

Tell(m, o) == told' = [told EXCEPT ![m.id] = Append(@, o)]

\* HandleMessage: one ParseBuffer, at most one response, for the first callback.
ConcludesAlsoOnError(s) == FinishParse(s.p) \/ ~s.ok
Concludes(s) == FinishParse(s.p)
HandleMessage(n) ==
    \E s \in {ParseResponse(parser, readbuf \o SubSeq(net[ToClient], 1, n))} :
        /\ Guarded /\ ~broken
        /\ net' = [net EXCEPT ![ToClient] = SubSeq(@, n + 1, Len(@))]
        /\ readbuf' = s.buf
        /\ conn' = IF s.ok THEN conn ELSE "kDisconnecting"
        /\ IF Concludes(s)
           THEN /\ parser' = NewParser
                /\ broken' = (queue_cb_ = <<>>)
                /\ IF queue_cb_ = <<>> THEN UNCHANGED <<queue_cb_, told>>
                   ELSE queue_cb_' = Tail(queue_cb_) /\ Tell(Head(queue_cb_), s.p.msg.id)
           ELSE parser' = s.p /\ UNCHANGED <<queue_cb_, broken, told>>
        /\ UNCHANGED <<made, attempt, timer_, stale, serverVars, serial, framed>>

\* HandleClose, of a connection that was reset: every callback is called.
LeftAsWas(q) == q
Left(q) == <<>>
WaitingBehind(r) == \E i \in 2..Len(queue_cb_) : queue_cb_[i].id = r
Waiting(r) == \E i \in 1..Len(queue_cb_) : queue_cb_[i].id = r
HandleReset ==
    /\ Guarded /\ ~broken
    /\ told' = [r \in Requests |-> IF Waiting(r) THEN Append(told[r], NetworkError) ELSE told[r]]
    /\ queue_cb_' = Left(queue_cb_)
    /\ conn' = "none"
    /\ server' = "none"
    /\ net' = Quiet
    /\ UNCHANGED <<made, attempt, timer_, stale, parser, readbuf, broken, reqParser, reqBuf,
                   spin, takenBack, serial, framed>>

\* HandleClose when the server's end has been read.
HandleClose == server = "half" /\ net[ToClient] = <<>> /\ HandleReset

\* HandleTimeout, of timer_ or of a timer it no longer names: the first callback is
\* called and the attempt stopped, unless there is a connection or no callback.
HandleTimeout ==
    /\ ~broken
    /\ \/ timer_ /\ timer_' = FALSE /\ UNCHANGED stale
       \/ stale > 0 /\ stale' = stale - 1 /\ UNCHANGED timer_
    /\ IF ~Guarded /\ queue_cb_ # <<>>
       THEN /\ conn' = "none"
            /\ queue_cb_' = Tail(queue_cb_)
            /\ Tell(Head(queue_cb_), NetworkError)
       ELSE UNCHANGED <<conn, queue_cb_, told>>
    /\ UNCHANGED <<made, attempt, parser, readbuf, broken, net, serverVars, serial, framed>>

-----------------------------------------------------------------------------
(* HttpServer::OnMessage, on the loop's thread of the server's connection. *)

ServerSends(m) ==
    IF server = "open" THEN [net EXCEPT ![ToClient] = @ \o Message(m)] ELSE net

\* The parser is reset when the request wants the connection kept alive.
AfterRequestUnreset(p) == p
AfterRequest(p) == IF p.msg.close THEN p ELSE NewParser

\* A 400 when parsing fails; what http_cb_ answers when the request is complete, after
\* which the connection is shut down if http_cb_ has left or made it a closing one.
OnMessage(n) ==
    \E s \in {ParseRequest(reqParser, reqBuf \o SubSeq(net[ToServer], 1, n))} :
        /\ server # "none" /\ ~spin
        /\ reqBuf' = s.buf
        /\ spin' = Running(s)
        /\ \/ /\ (~FinishParse(s.p) /\ s.ok) \/ Running(s)
              /\ net' = [net EXCEPT ![ToServer] = SubSeq(@, n + 1, Len(@))]
              /\ reqParser' = s.p
              /\ UNCHANGED <<server, takenBack, framed>>
           \/ /\ ~s.ok
              /\ net' = [ServerSends(BadRequest(s.p.msg.id)) EXCEPT ![ToServer] = SubSeq(@, n + 1, Len(@))]
              /\ reqParser' = s.p
              /\ server' = "half"
              /\ UNCHANGED <<takenBack, framed>>
           \/ /\ FinishParse(s.p) /\ ~Running(s)
              /\ reqParser' = AfterRequest(s.p)
              /\ \E k \in ReplyKinds :
                   /\ net' = [ServerSends(Reply(s.p.msg.id, k)) EXCEPT ![ToServer] = SubSeq(@, n + 1, Len(@))]
                   /\ server' = IF k.close THEN "half" ELSE server
                   /\ takenBack' = (takenBack \/ (s.p.msg.close /\ ~k.close))
                   /\ framed' = (framed /\ Framed(k))
        /\ UNCHANGED <<clientVars, serial, told>>

\* The server shuts the connection down: it was idle, or the client's end was read.
ServerShutDown ==
    /\ server = "open" /\ ~spin
    /\ server' = "half"
    /\ UNCHANGED <<clientVars, net, reqParser, reqBuf, spin, takenBack, serial, framed, told>>

Next ==
    \/ \E k \in RequestKinds : DoHttpRequest(k)
    \/ Connected
    \/ \E n \in 1..Len(net[ToClient]) : HandleMessage(n)
    \/ HandleClose \/ HandleReset \/ HandleTimeout
    \/ \E n \in 1..Len(net[ToServer]) : OnMessage(n)
    \/ ServerShutDown

Spec == Init /\ [][Next]_vars

\* Timers fire and what arrives is read; a server sees the end of what the client
\* sends, and shuts an idle connection down in the end.  Nothing makes the attempt
\* to connect succeed.
FairSpec ==
    /\ Spec
    /\ WF_vars(\E n \in 1..Len(net[ToClient]) : HandleMessage(n))
    /\ WF_vars(HandleClose) /\ WF_vars(HandleTimeout) /\ WF_vars(ServerShutDown)

-----------------------------------------------------------------------------
(* Properties.                                                             *)

\* HandleMessage finds a callback waiting, as it asserts (http_client.cc:68), however
\* requests, timeouts and abandoned attempts were mixed, as long as bodies are announced
\* as they are.
AlwaysAsked == framed /\ Guarded /\ net[ToClient] # <<>> => queue_cb_ # <<>>

\* A callback is called once.  When requests are made one at a time, it is called with the
\* response to its own request or with an error (http_client.cc:76-80, 87-91, 96-100).
OwnResponse ==
    /\ TypeOK
    /\ \A r \in Requests :
          /\ Len(told[r]) <= 1
          /\ serial /\ told[r] # <<>> => told[r][1] \in {r, NetworkError}

\* A server thread is caught in ParseBuffer (http_request_parser.cc:61) only by bytes that
\* follow a request that asked for the connection to be closed: when it has shut the
\* connection down, or when http_cb_ has taken that back and so kept a parser that is done.
KeepAliveNeverSpins == [][~spin /\ spin' => server = "half" \/ takenBack]_vars

\* Every callback is called in the end, when requests are made one at a time and the
\* server's thread, here its only one, is not caught.
EveryRequestTold ==
    \A r \in Requests : made >= r ~> told[r] # <<>> \/ ~serial \/ spin \/ broken
=============================================================================
