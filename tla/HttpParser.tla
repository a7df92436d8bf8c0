------------------------------ MODULE HttpParser ------------------------------
(***************************************************************************)
(* HttpRequestParser and HttpResponseParser on a Buffer, and the messages  *)
(* HttpRequest and HttpResponse write (voyager/http).  Text is a sequence  *)
(* of tokens: a start line, the headers, the empty line, each with its     *)
(* CRLF, and the bytes of a body.  Part of a line is no line yet: FindCRLF *)
(* waits for the rest.  Of the headers only Content-Length matters here,   *)
(* which is written and believed only if the program has set it.           *)
(***************************************************************************)
EXTENDS Integers, Sequences

Line(m) == [t |-> "line", msg |-> m]
Header(n) == [t |-> "length", length |-> n]
NoColon == [t |-> "nocolon"]
Blank == [t |-> "blank"]
Bytes(n) == [i \in 1..n |-> [t |-> "byte"]]

\* RequestMessage and ResponseMessage: the headers the program has set, among them a
\* Content-Length of m.length or none, and m.body bytes.
NoLength == -1
Message(m) ==
    <<Line(m)>> \o (IF m.length = NoLength THEN <<>> ELSE <<Header(m.length)>>)
    \o (IF m.valid THEN <<>> ELSE <<NoColon>>) \o <<Blank>> \o Bytes(m.body)

\* A parser: state_, the message it builds and its Content-Length.
NoMessage == [none |-> TRUE]
NewParser == [state |-> "kLine", msg |-> NoMessage, length |-> NoLength]

\* How long a body to read, if any; a request has one with POST only.
ParseRequestBody(p) == IF p.msg.post THEN p.length ELSE NoLength
ParseResponseBody(p) == p.length
BodyLength(kind, p) == IF kind = "request" THEN ParseRequestBody(p) ELSE ParseResponseBody(p)

\* One turn of the loop in ParseBuffer, on s: the parser, the buffer, ok and flag.
\* FindCRLF finds the end of the first line; bytes left over before it are part of it.
LineEnds(buf) == {i \in 1..Len(buf) : buf[i].t # "byte"}
LineEnd(buf) == CHOOSE i \in LineEnds(buf) : \A j \in LineEnds(buf) : i <= j
Behind(buf, i) == SubSeq(buf, i + 1, Len(buf))

\* ParseRequestLine accepts what RequestMessage writes, ParseResponseLine every line.
ParseRequestLine(buf, end) == end = 1 /\ buf[end].t = "line"
ParseResponseLine(buf, end) == TRUE
ParseLine(kind, buf, end) ==
    IF kind = "request" THEN ParseRequestLine(buf, end) ELSE ParseResponseLine(buf, end)

\* msg is the message of the line also if it is refused: the one a 400 is about.
LineTurn(kind, s) ==
    IF LineEnds(s.buf) = {} THEN [s EXCEPT !.flag = FALSE]
    ELSE LET end == LineEnd(s.buf)
             p == [s.p EXCEPT !.msg = s.buf[end].msg]
         IN  IF ParseLine(kind, s.buf, end)
             THEN [s EXCEPT !.p = [p EXCEPT !.state = "kHeaders"], !.buf = Behind(@, end)]
             ELSE [s EXCEPT !.p = p, !.ok = FALSE, !.flag = FALSE]

HeaderTurn(s) ==
    IF LineEnds(s.buf) = {} THEN [s EXCEPT !.flag = FALSE]
    ELSE LET end == LineEnd(s.buf)
             h == s.buf[end]
             next == [s EXCEPT !.buf = Behind(@, end)]
         IN  CASE h.t = "blank" /\ end = 1 -> [next EXCEPT !.p.state = "kBody"]
               [] h.t = "length" /\ end = 1 -> [next EXCEPT !.p.length = h.length]
               [] h.t = "length" /\ end # 1 -> next
               [] OTHER -> [next EXCEPT !.ok = FALSE]

BodyTurn(kind, s) ==
    IF BodyLength(kind, s.p) = NoLength THEN [s EXCEPT !.p.state = "kEnd", !.flag = FALSE]
    ELSE IF Len(s.buf) = BodyLength(kind, s.p)
    THEN [s EXCEPT !.p.state = "kEnd", !.buf = <<>>, !.flag = FALSE]
    ELSE [s EXCEPT !.ok = FALSE, !.flag = FALSE]

Turn(kind, s) ==
    CASE s.p.state = "kLine"    -> LineTurn(kind, s)
      [] s.p.state = "kHeaders" -> HeaderTurn(s)
      [] s.p.state = "kBody"    -> BodyTurn(kind, s)
      [] s.p.state = "kEnd"     -> s

\* Each turn but those in kEnd takes a token or moves the state, so that a loop that
\* has not ended after this many turns never ends.
Turns(buf) == Len(buf) + 3
Running(s) == s.flag /\ s.ok
ParseBuffer(kind, p, buf) ==
    LET after[k \in 0..Turns(buf)] ==
          IF k = 0 THEN [p |-> p, buf |-> buf, ok |-> TRUE, flag |-> TRUE]
          ELSE CHOOSE r \in {IF Running(s) THEN Turn(kind, s) ELSE s : s \in {after[k - 1]}} :
                 TRUE
    IN  after[Turns(buf)]

ParseRequest(p, buf) == ParseBuffer("request", p, buf)
ParseResponse(p, buf) == ParseBuffer("response", p, buf)

FinishParse(p) == p.state = "kEnd"

-----------------------------------------------------------------------------
(* Names of methods and versions, both numbered in the order of their enum *)
(* and of the comparisons in SetMethod and SetVersion.                     *)

MethodNames == <<"OPTIONS", "HEAD", "GET", "POST", "PUT", "DELETE", "TRACE", "CONNECT", "PATCH">>
VersionNames == <<"HTTP/1.0", "HTTP/1.1", "HTTP/2">>

MethodToString(m) == MethodNames[m]
VersionToString(v) == VersionNames[v]

\* strncasecmp looks at as many characters as were read, so that the first name that
\* begins with them is taken.
FirstBeginning(names, text) ==
    LET hits == {i \in DOMAIN names : /\ Len(text) <= Len(names[i])
                                      /\ SubSeq(names[i], 1, Len(text)) = text}
    IN  IF hits = {} THEN [ok |-> FALSE, value |-> 0]
        ELSE [ok |-> TRUE, value |-> CHOOSE i \in hits : \A j \in hits : i <= j]
SetMethod(text) == FirstBeginning(MethodNames, text)
SetVersion(text) == FirstBeginning(VersionNames, text)
=============================================================================
