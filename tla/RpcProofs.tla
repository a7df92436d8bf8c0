------------------------------ MODULE RpcProofs ------------------------------
(***************************************************************************)
(* Theorems about Rpc, for any number of calls.                            *)
(***************************************************************************)
EXTENDS Rpc, SequenceTheorems, TLAPS

Garbled == [kind |-> "garbled"]
Requests == [id : Ids, kind : Kinds] \cup {Garbled}
Replies ==
    [id : Ids, kind : {"ok"}, of : Ids] \cup [id : Ids, kind : {"invalid"}] \cup {Garbled}
Units == Requests \cup Replies \cup {"rest"}

Tasks == [do : {"send", "insert"}, id : Ids, kind : Kinds]
Directions == {Request, Reply}
Messages(d) == IF d = Request THEN Requests ELSE Replies

\* A frame begins at every third unit of s.
Framed(s, M) == \A k \in Nat : 3 * k + 1 <= Len(s) => s[3 * k + 1] \in M

\* One direction of the connection: b is received, n is under way.  While the
\* connection is open they are whole frames together, however reads cut them; what is
\* left of them when it is closed begins with a frame.
Line(b, n, M, open) ==
    /\ b \in Seq(Units) /\ n \in Seq(Units)
    /\ Framed(b \o n, M)
    /\ open => \E k \in Nat : Len(b \o n) = 3 * k

NetInv ==
    /\ net \in [Directions -> Seq(Units)]
    /\ buf \in [Directions -> Seq(Units)]
    /\ \A d \in Directions : Line(buf[d], net[d], Messages(d), conn_ # "down")

Stream(d) == buf[d] \o net[d]

\* A call is released while it is entered or, having no connection, when it is made.
\* The other thread's call is not entered yet.
CallInv ==
    /\ \A i \in Ids : released[i] <= 1 /\ (i \in call_map_ => released[i] = 0)
    /\ \A i \in Ids : i > seq_ => released[i] = 0 /\ i \notin call_map_
    /\ caller.at # "idle" =>
          caller.id \in 1..seq_ /\ released[caller.id] = 0 /\ caller.id \notin call_map_

IInv == TypeOK /\ NetInv /\ CallInv

-----------------------------------------------------------------------------
(* Streams of frames.                                                      *)

\* A function on 1..n is a sequence of length n.
LEMMA FunctionIsSeq ==
  ASSUME NEW S, NEW n \in Nat, NEW f \in [1..n -> S]
  PROVE  f \in Seq(S) /\ Len(f) = n
OBVIOUS

\* A frame is three units, the first of which is the message.
LEMMA FrameProperties ==
  ASSUME NEW m \in Units
  PROVE  Frame(m) \in Seq(Units) /\ Len(Frame(m)) = 3 /\ Frame(m)[1] = m
<1> DEFINE rest == [i \in 1..kHeaderSize |-> "rest"]
<1>1. rest \in [1..2 -> Units]
  BY DEF kHeaderSize, Units
<1>2. rest \in Seq(Units) /\ Len(rest) = 2
  BY <1>1, FunctionIsSeq
<1>3. <<m>> \in Seq(Units) /\ Len(<<m>>) = 1 /\ <<m>>[1] = m
  OBVIOUS
<1> DEFINE one == <<m>>
<1> HIDE DEF rest, one
<1>4. /\ one \o rest \in Seq(Units) /\ Len(one \o rest) = Len(one) + Len(rest)
      /\ \A i \in 1..Len(one) + Len(rest) :
            (one \o rest)[i] = IF i <= Len(one) THEN one[i] ELSE rest[i - Len(one)]
  BY <1>2, <1>3, ConcatProperties DEF one
<1>5. Len(one \o rest) = 3 /\ (one \o rest)[1] = m
  BY <1>2, <1>3, <1>4 DEF one
<1> QED
  BY <1>4, <1>5 DEF Frame, rest, one

\* The messages of t are those of s, of which there are n, and m.
OneMore(s, n, m, t) ==
    /\ Len(t) = 3 * (n + 1)
    /\ t[3 * n + 1] = m
    /\ \A k \in Nat : 3 * k + 1 <= Len(t) /\ k # n =>
          3 * k + 1 <= Len(s) /\ t[3 * k + 1] = s[3 * k + 1]
    /\ \A k \in Nat : 3 * k + 1 <= Len(s) => k # n /\ 3 * k + 1 <= Len(t)

\* The messages of t are those of s but the first.
OneLess(s, t) ==
    /\ Len(s) = Len(t) + 3
    /\ \A k \in Nat : 3 * k + 1 <= Len(t) =>
          3 * (k + 1) + 1 <= Len(s) /\ t[3 * k + 1] = s[3 * (k + 1) + 1]

\* A frame behind whole frames is one more message.
LEMMA AddFrame ==
  ASSUME NEW s \in Seq(Units), NEW n \in Nat, Len(s) = 3 * n, NEW m \in Units
  PROVE  s \o Frame(m) \in Seq(Units) /\ OneMore(s, n, m, s \o Frame(m))
<1> DEFINE f == Frame(m)
<1>1. f \in Seq(Units) /\ Len(f) = 3 /\ f[1] = m
  BY FrameProperties
<1> HIDE DEF f
<1>2. /\ s \o f \in Seq(Units) /\ Len(s \o f) = Len(s) + Len(f)
      /\ \A i \in 1..Len(s) + Len(f) : (s \o f)[i] = IF i <= Len(s) THEN s[i] ELSE f[i - Len(s)]
  BY <1>1, ConcatProperties
<1>3. Len(s \o f) = 3 * (n + 1)
  BY <1>1, <1>2
<1>4. (s \o f)[3 * n + 1] = m
  <2>1. 3 * n + 1 \in 1..Len(s) + Len(f) /\ ~(3 * n + 1 <= Len(s)) /\ 3 * n + 1 - Len(s) = 1
    BY <1>1
  <2> QED
    BY <1>1, <1>2, <2>1
<1>5. ASSUME NEW k \in Nat, 3 * k + 1 <= Len(s \o f), k # n
      PROVE  3 * k + 1 <= Len(s) /\ (s \o f)[3 * k + 1] = s[3 * k + 1]
  <2>1. 3 * k + 1 \in 1..Len(s) + Len(f) /\ 3 * k + 1 <= Len(s)
    BY <1>1, <1>3, <1>5
  <2> QED
    BY <1>2, <2>1
<1>6. \A k \in Nat : 3 * k + 1 <= Len(s) => k # n /\ 3 * k + 1 <= Len(s \o f)
  BY <1>3
<1> QED
  BY <1>2, <1>3, <1>4, <1>5, <1>6 DEF f, OneMore

\* Retrieving the frame at the head takes the first message.
LEMMA DropFrame ==
  ASSUME NEW b \in Seq(Units), NEW n \in Seq(Units), Len(b) >= 3
  PROVE  /\ SubSeq(b, FrameSize + 1, Len(b)) \in Seq(Units)
         /\ SubSeq(b, FrameSize + 1, Len(b)) \o n \in Seq(Units)
         /\ (b \o n)[1] = b[1]
         /\ OneLess(b \o n, SubSeq(b, FrameSize + 1, Len(b)) \o n)
<1> DEFINE c == SubSeq(b, 4, Len(b))
           t == c \o n
<1>1. Len(b) \in Nat /\ Len(n) \in Nat /\ FrameSize + 1 = 4
  BY LenProperties DEF FrameSize, kHeaderSize
<1>2. c \in Seq(Units) /\ Len(c) = Len(b) - 3 /\ \A i \in 1..Len(b) - 3 : c[i] = b[i + 3]
  <2>1. \A i \in 4..Len(b) : b[i] \in Units
    BY <1>1, ElementOfSeq
  <2>2. /\ c \in Seq(Units) /\ Len(c) = IF 4 <= Len(b) THEN Len(b) - 4 + 1 ELSE 0
        /\ \A i \in 1..Len(b) - 4 + 1 : c[i] = b[4 + i - 1]
    BY <1>1, <2>1, SubSeqProperties
  <2>3. ASSUME NEW i \in 1..Len(b) - 3 PROVE c[i] = b[i + 3]
    <3>1. 4 + i - 1 = i + 3 /\ i \in 1..Len(b) - 4 + 1
      BY <1>1
    <3> QED
      BY <2>2, <3>1
  <2>4. Len(c) = Len(b) - 3
    <3> DEFINE x == Len(b)
               y == Len(c)
    <3>1. x \in Nat /\ x >= 3 /\ y = IF 4 <= x THEN x - 4 + 1 ELSE 0
      BY <1>1, <2>2
    <3> HIDE DEF x, y
    <3>2. y = x - 3
      BY <3>1
    <3> QED
      BY <3>2 DEF x, y
  <2> QED
    BY <2>2, <2>3, <2>4
<1> HIDE DEF c
<1>3. /\ b \o n \in Seq(Units) /\ Len(b \o n) = Len(b) + Len(n)
      /\ \A i \in 1..Len(b) + Len(n) : (b \o n)[i] = IF i <= Len(b) THEN b[i] ELSE n[i - Len(b)]
  BY ConcatProperties
<1>4. /\ c \o n \in Seq(Units) /\ Len(c \o n) = Len(c) + Len(n)
      /\ \A i \in 1..Len(c) + Len(n) : (c \o n)[i] = IF i <= Len(c) THEN c[i] ELSE n[i - Len(c)]
  BY <1>2, ConcatProperties
<1>6. Len(b \o n) = Len(t) + 3 /\ Len(t) = Len(b) - 3 + Len(n)
  BY <1>1, <1>2, <1>3, <1>4
<1>7. (b \o n)[1] = b[1]
  BY <1>1, <1>3
<1>8. ASSUME NEW k \in Nat, 3 * k + 1 <= Len(t)
      PROVE  3 * (k + 1) + 1 <= Len(b \o n) /\ t[3 * k + 1] = (b \o n)[3 * (k + 1) + 1]
  <2> DEFINE i == 3 * k + 1
  <2>1. i \in Nat /\ i >= 1 /\ 3 * (k + 1) + 1 = i + 3 /\ i <= Len(b) - 3 + Len(n)
    <3>1. 3 * k + 1 <= Len(b) - 3 + Len(n)
      BY <1>6, <1>8
    <3> QED
      BY <3>1
  <2> HIDE DEF i
  <2>2. i \in 1..Len(c) + Len(n) /\ i + 3 \in 1..Len(b) + Len(n) /\ i + 3 <= Len(b \o n)
    BY <1>1, <1>2, <1>6, <2>1
  <2>3. CASE i <= Len(c)
    <3>1. i \in 1..Len(b) - 3 /\ i + 3 <= Len(b)
      BY <1>1, <1>2, <2>1, <2>3
    <3>2. t[i] = (b \o n)[i + 3]
      BY <1>2, <1>3, <1>4, <2>2, <2>3, <3>1
    <3> QED
      BY <2>1, <2>2, <3>2 DEF i
  <2>4. CASE ~(i <= Len(c))
    <3>1. ~(i + 3 <= Len(b)) /\ i - Len(c) = i + 3 - Len(b)
      BY <1>1, <1>2, <2>1, <2>4
    <3>2. t[i] = n[i - Len(c)] /\ (b \o n)[i + 3] = n[i + 3 - Len(b)]
      BY <1>3, <1>4, <2>2, <2>4, <3>1
    <3> QED
      BY <2>1, <2>2, <3>1, <3>2 DEF i
  <2> QED
    BY <2>3, <2>4
<1>9. OneLess(b \o n, t)
  BY <1>6, <1>8 DEF OneLess
<1> QED
  BY <1>1, <1>2, <1>4, <1>7, <1>9 DEF c

\* Streams may be put together in any order.
LEMMA UnitsAssociate ==
  ASSUME NEW s \in Seq(Units), NEW t \in Seq(Units), NEW u \in Seq(Units)
  PROVE  (s \o t) \o u = s \o (t \o u)
BY ConcatAssociative, SMTT(20)

\* A read moves units from the one part of a line to the other.
LEMMA ReadMoves ==
  ASSUME NEW b \in Seq(Units), NEW n \in Seq(Units), NEW j \in 1..Len(n)
  PROVE  /\ b \o SubSeq(n, 1, j) \in Seq(Units) /\ SubSeq(n, j + 1, Len(n)) \in Seq(Units)
         /\ (b \o SubSeq(n, 1, j)) \o SubSeq(n, j + 1, Len(n)) = b \o n
<1> DEFINE f == SubSeq(n, 1, j)
           g == SubSeq(n, j + 1, Len(n))
<1>1. Len(n) \in Nat /\ j \in Nat /\ j <= Len(n)
  BY LenProperties
<1>2. f \in Seq(Units) /\ g \in Seq(Units)
  <2>1. (\A i \in 1..j : n[i] \in Units) /\ (\A i \in (j + 1)..Len(n) : n[i] \in Units)
    BY <1>1, ElementOfSeq
  <2> QED
    BY <1>1, <2>1, SubSeqProperties
<1>3. f \o g = n
  <2>1. 1 \in 1..Len(n) + 1 /\ j \in 1 - 1..Len(n) /\ Len(n) \in j..Len(n)
    BY <1>1
  <2>2. f \o g = SubSeq(n, 1, Len(n))
    BY <2>1, ConcatAdjacentSubSeq
  <2> QED
    BY <2>2, SubSeqFull
<1> HIDE DEF f, g
<1>4. (b \o f) \o g = b \o (f \o g)
  BY <1>2, UnitsAssociate, Zenon
<1>5. b \o f \in Seq(Units)
  BY <1>2, ConcatProperties
<1> QED
  BY <1>2, <1>3, <1>4, <1>5 DEF f, g

-----------------------------------------------------------------------------
(* What a step does to a line.                                             *)

\* SendMessage adds a message to an open line.
LEMMA LineSent ==
  ASSUME NEW M \in SUBSET Units, NEW b, NEW n, Line(b, n, M, TRUE), NEW m \in M
  PROVE  Line(b, n \o Frame(m), M, TRUE)
<1>1. b \in Seq(Units) /\ n \in Seq(Units) /\ Framed(b \o n, M) /\ m \in Units
  BY DEF Line
<1>2. PICK k \in Nat : Len(b \o n) = 3 * k
  BY DEF Line
<1> DEFINE s == b \o n
           t == s \o Frame(m)
<1>3. s \in Seq(Units) /\ Frame(m) \in Seq(Units)
  BY <1>1, ConcatProperties, FrameProperties
<1>4. n \o Frame(m) \in Seq(Units) /\ b \o (n \o Frame(m)) = t
  <2>1. n \o Frame(m) \in Seq(Units)
    BY <1>1, <1>3, ConcatProperties
  <2>2. (b \o n) \o Frame(m) = b \o (n \o Frame(m))
    BY <1>1, <1>3, UnitsAssociate, Zenon
  <2> QED
    BY <2>1, <2>2
<1> HIDE DEF s
<1>5. OneMore(s, k, m, t)
  BY <1>1, <1>2, <1>3, AddFrame DEF s
<1> HIDE DEF t
<1>6. Framed(t, M)
  BY <1>1, <1>5 DEF Framed, OneMore, s
<1>7. k + 1 \in Nat
  BY <1>2
<1> QED
  BY <1>1, <1>4, <1>5, <1>6, <1>7 DEF Line, OneMore

\* Retrieving a message leaves a line.
LEMMA LineRetrieved ==
  ASSUME NEW M \in SUBSET Units, NEW b, NEW n, NEW open \in BOOLEAN, Line(b, n, M, open),
         Len(b) >= 3
  PROVE  b[1] \in M /\ Line(SubSeq(b, FrameSize + 1, Len(b)), n, M, open)
<1> DEFINE s == b \o n
           c == SubSeq(b, FrameSize + 1, Len(b))
           t == c \o n
<1>1. b \in Seq(Units) /\ n \in Seq(Units) /\ Framed(s, M)
  BY DEF Line
<1>2. c \in Seq(Units) /\ t \in Seq(Units) /\ s[1] = b[1] /\ OneLess(s, t)
  BY <1>1, DropFrame
<1>3. open => \E k \in Nat : Len(s) = 3 * k
  BY DEF Line
<1> HIDE DEF s, t, c
<1>4. Len(t) \in Nat
  BY <1>2, LenProperties
<1>5. b[1] \in M
  <2>1. 3 * 0 + 1 = 1 /\ 3 * 0 + 1 <= Len(s)
    BY <1>2, <1>4 DEF OneLess
  <2>2. s[3 * 0 + 1] \in M
    BY <1>1, <2>1 DEF Framed
  <2> QED
    BY <1>2, <2>1, <2>2
<1>6. ASSUME NEW k \in Nat, 3 * k + 1 <= Len(t) PROVE t[3 * k + 1] \in M
  <2>1. k + 1 \in Nat
    OBVIOUS
  <2> QED
    BY <1>1, <1>2, <1>6, <2>1 DEF Framed, OneLess
<1>7. ASSUME open PROVE \E k \in Nat : Len(t) = 3 * k
  <2>1. PICK k \in Nat : Len(s) = 3 * k
    BY <1>3, <1>7
  <2>2. k - 1 \in Nat /\ Len(t) = 3 * (k - 1)
    BY <1>2, <1>4, <2>1 DEF OneLess
  <2> QED
    BY <2>2
<1> QED
  BY <1>1, <1>2, <1>5, <1>6, <1>7 DEF Line, Framed, c, t

\* Reading keeps a line.
LEMMA LineRead ==
  ASSUME NEW M \in SUBSET Units, NEW b, NEW n, NEW open \in BOOLEAN, Line(b, n, M, open),
         NEW j \in 1..Len(n)
  PROVE  Line(b \o SubSeq(n, 1, j), SubSeq(n, j + 1, Len(n)), M, open)
BY ReadMoves DEF Line

\* What is received is a line by itself when the connection is closed.
LEMMA LineClosed ==
  ASSUME NEW M \in SUBSET Units, NEW b, NEW n, NEW open \in BOOLEAN, Line(b, n, M, open)
  PROVE  Line(b, << >>, M, FALSE) /\ Line(<< >>, << >>, M, FALSE)
<1>1. b \in Seq(Units) /\ n \in Seq(Units) /\ Framed(b \o n, M) /\ << >> \in Seq(Units)
  BY DEF Line
<1>2. /\ Len(b \o n) = Len(b) + Len(n)
      /\ \A i \in 1..Len(b) + Len(n) : (b \o n)[i] = IF i <= Len(b) THEN b[i] ELSE n[i - Len(b)]
  BY <1>1, ConcatProperties
<1>3. Len(b) \in Nat /\ Len(n) \in Nat
  BY <1>1, LenProperties
<1>4. ASSUME NEW k \in Nat, 3 * k + 1 <= Len(b) PROVE b[3 * k + 1] \in M
  <2>1. 3 * k + 1 \in 1..Len(b) + Len(n) /\ 3 * k + 1 <= Len(b \o n)
    BY <1>2, <1>3, <1>4
  <2> QED
    BY <1>1, <1>2, <1>4, <2>1 DEF Framed
<1>5. b \o << >> = b /\ << >> \o << >> = << >> /\ Len(<< >>) = 0
  BY <1>1, ConcatEmptySeq
<1>6. Framed(<< >>, M)
  BY <1>5 DEF Framed
<1>7. Framed(b, M)
  BY <1>4 DEF Framed
<1> QED
  BY <1>1, <1>5, <1>6, <1>7 DEF Line

-----------------------------------------------------------------------------
(* Every step keeps the lines.                                             *)

\* What is sent in a direction is a message of it.
LEMMA MessagesAreUnits == \A d \in Directions : Messages(d) \in SUBSET Units
BY DEF Directions, Messages, Units

\* SendMessage keeps both lines, whatever OnMessage has retrieved in the same step.
LEMMA SentKeeps ==
  ASSUME NetInv, NEW d \in Directions, NEW m \in Messages(d), net' = Sent(d, m),
         conn_' = conn_, buf' \in [Directions -> Seq(Units)], buf'[d] = buf[d],
         \A e \in Directions : e # d => Line(buf'[e], net[e], Messages(e), conn_ # "down")
  PROVE  NetInv'
<1>1. CASE conn_ = "up"
  <2>1. net' = [net EXCEPT ![d] = @ \o Frame(m)]
    BY <1>1 DEF Sent
  <2>2. Messages(d) \in SUBSET Units /\ Line(buf[d], net[d], Messages(d), TRUE)
    BY <1>1, MessagesAreUnits DEF NetInv, Line
  <2>3. Line(buf[d], net[d] \o Frame(m), Messages(d), TRUE)
    BY <2>2, LineSent
  <2>4. net' \in [Directions -> Seq(Units)]
    BY <2>1, <2>3 DEF NetInv, Line
  <2>5. ASSUME NEW e \in Directions PROVE Line(buf'[e], net'[e], Messages(e), conn_' # "down")
    <3>1. CASE e = d
      <4>1. buf'[e] = buf[d] /\ net'[e] = net[d] \o Frame(m)
        BY <2>1, <3>1 DEF NetInv
      <4> QED
        BY <2>3, <3>1, <4>1 DEF Line
    <3>2. CASE e # d
      <4>1. net'[e] = net[e]
        BY <2>1, <3>2 DEF NetInv
      <4> QED
        BY <3>2, <4>1
    <3> QED
      BY <3>1, <3>2
  <2> QED
    BY <2>4, <2>5 DEF NetInv
<1>2. CASE conn_ # "up"
  <2>1. net' = net
    BY <1>2 DEF Sent
  <2>2. ASSUME NEW e \in Directions PROVE Line(buf'[e], net'[e], Messages(e), conn_' # "down")
    BY <2>1 DEF NetInv
  <2> QED
    BY <2>1, <2>2 DEF NetInv
<1> QED
  BY <1>1, <1>2

\* OnMessage takes a message of its direction and leaves a line.
LEMMA RetrievedKeeps ==
  ASSUME NetInv, NEW d \in Directions, Whole(d), NEW b, b = Retrieved(d)
  PROVE  /\ Message(d) \in Messages(d)
         /\ b \in [Directions -> Seq(Units)]
         /\ \A e \in Directions : e # d => b[e] = buf[e]
         /\ \A e \in Directions : Line(b[e], net[e], Messages(e), conn_ # "down")
<1> DEFINE c == SubSeq(buf[d], FrameSize + 1, Len(buf[d]))
           open == conn_ # "down"
<1>1. Messages(d) \in SUBSET Units /\ Line(buf[d], net[d], Messages(d), open)
  BY MessagesAreUnits DEF NetInv
<1>2. Len(buf[d]) >= 3 /\ open \in BOOLEAN
  BY DEF Whole, FrameSize, kHeaderSize
<1>3. buf[d][1] \in Messages(d) /\ Line(c, net[d], Messages(d), open)
  BY <1>1, <1>2, LineRetrieved
<1>4. b = [buf EXCEPT ![d] = c]
  BY DEF Retrieved
<1> HIDE DEF c
<1>5. b \in [Directions -> Seq(Units)] /\ b[d] = c /\ \A e \in Directions : e # d => b[e] = buf[e]
  BY <1>3, <1>4 DEF NetInv, Line
<1>6. \A e \in Directions : Line(b[e], net[e], Messages(e), open)
  BY <1>3, <1>5 DEF NetInv
<1> QED
  BY <1>3, <1>5, <1>6 DEF Message

\* The end of the connection leaves lines.
LEMMA DownKeeps ==
  ASSUME NetInv, Down, buf' \in [Directions -> Seq(Units)],
         \A d \in Directions : buf'[d] = buf[d] \/ buf'[d] = << >>
  PROVE  NetInv'
<1>1. conn_' = "down" /\ net' = [d \in Directions |-> << >>]
  BY DEF Down, Directions
<1>2. << >> \in Seq(Units)
  OBVIOUS
<1>3. ASSUME NEW d \in Directions PROVE Line(buf'[d], net'[d], Messages(d), conn_' # "down")
  <2>1. Line(buf[d], net[d], Messages(d), conn_ # "down") /\ Messages(d) \in SUBSET Units
    BY MessagesAreUnits DEF NetInv
  <2>2. Line(buf[d], << >>, Messages(d), FALSE) /\ Line(<< >>, << >>, Messages(d), FALSE)
    BY <2>1, LineClosed
  <2>3. Line(buf'[d], << >>, Messages(d), FALSE)
    BY <2>2
  <2> QED
    BY <1>1, <2>3 DEF Line
<1> QED
  BY <1>1, <1>2, <1>3 DEF NetInv

\* A step that leaves the streams alone and does not open a closed connection.
LEMMA NetKept ==
  ASSUME NetInv, UNCHANGED netVars, conn_' # "down" => conn_ # "down"
  PROVE  NetInv'
<1>1. net' = net /\ buf' = buf
  BY DEF netVars
<1> QED
  BY <1>1 DEF NetInv, Line

\* A request or a reply without garbling is what it should be.
LEMMA MessageTypes ==
  /\ \A m \in Messages(Request) : m.kind # "garbled" => m \in [id : Ids, kind : Kinds]
  /\ \A m \in Messages(Reply) : m.kind # "garbled" =>
        m \in [id : Ids, kind : {"ok"}, of : Ids] \cup [id : Ids, kind : {"invalid"}]
  /\ \A i \in Ids, kind \in Kinds : [id |-> i, kind |-> kind] \in Messages(Request)
  /\ \A i \in Ids : [id |-> i, kind |-> "invalid"] \in Messages(Reply)
  /\ \A i \in Ids, j \in Ids : [id |-> i, kind |-> "ok", of |-> j] \in Messages(Reply)
  /\ \A d \in Directions : Garbled \in Messages(d)
<1>1. Request # Reply
  BY DEF Request, Reply
<1>2. Messages(Request) = Requests /\ Messages(Reply) = Replies
  BY <1>1 DEF Messages
<1>3. Garbled.kind = "garbled"
  BY DEF Garbled
<1>4. \A i \in Ids, kind \in Kinds : [id |-> i, kind |-> kind] \in Requests
  BY DEF Requests
<1>5. \A i \in Ids : [id |-> i, kind |-> "invalid"] \in Replies
  BY DEF Replies
<1>6. \A i \in Ids, j \in Ids : [id |-> i, kind |-> "ok", of |-> j] \in Replies
  BY DEF Replies
<1>7. \A d \in Directions : Garbled \in Messages(d)
  BY DEF Messages, Requests, Replies
<1>8. \A m \in Requests : m.kind # "garbled" => m \in [id : Ids, kind : Kinds]
  BY <1>3 DEF Requests
<1>9. \A m \in Replies : m.kind # "garbled" =>
        m \in [id : Ids, kind : {"ok"}, of : Ids] \cup [id : Ids, kind : {"invalid"}]
  BY <1>3 DEF Replies
<1> QED
  BY <1>2, <1>4, <1>5, <1>6, <1>7, <1>8, <1>9

\* The task at the head of the queue.
LEMMA HeadTask ==
  ASSUME TypeOK, tasks # << >>
  PROVE  Head(tasks) \in Tasks /\ Tail(tasks) \in Seq(Tasks)
<1>1. tasks \in Seq(Tasks)
  BY DEF TypeOK, Tasks
<1> QED
  BY <1>1, HeadTailProperties

\* A step keeps the lines.
LEMMA NextNetInv == IInv /\ [Next]_vars => NetInv'
<1> SUFFICES ASSUME IInv, [Next]_vars PROVE NetInv'
  OBVIOUS
<1>0. NetInv /\ TypeOK /\ Request \in Directions /\ Reply \in Directions /\ Request # Reply
  BY DEF IInv, Directions, Request, Reply
<1>1. ASSUME NEW d \in Directions, NEW m \in Messages(d), net' = Sent(d, m), buf' = buf,
             conn_' = conn_
      PROVE  NetInv'
  BY <1>0, <1>1, SentKeeps DEF NetInv
<1>2. CASE SetTcpConnectionPtr
  BY <1>0, <1>2, NetKept DEF SetTcpConnectionPtr
<1>3. ASSUME NEW kind \in Kinds, CallMethod(kind) PROVE NetInv'
  <2>1. CASE conn_ = "null" /\ CallUnsent
    BY <1>0, <1>3, <2>1, NetKept DEF CallMethod, CallUnsent, netVars
  <2>2. CASE net' = Sent(Request, [id |-> seq_', kind |-> kind])
    <3>1. seq_' \in Ids
      BY <1>0, <1>3, MaxCallsAssumption DEF CallMethod, CanCall, TypeOK, Ids
    <3>2. [id |-> seq_', kind |-> kind] \in Messages(Request)
      BY <3>1, MessageTypes
    <3> QED
      BY <1>0, <1>1, <1>3, <2>2, <3>2 DEF CallMethod
  <2> QED
    BY <1>3, <2>1, <2>2 DEF CallMethod
<1>4. ASSUME NEW kind \in Kinds, CallMethodOff(kind) PROVE NetInv'
  BY <1>0, <1>4, NetKept DEF CallMethodOff, CallUnsent, netVars
<1>5. CASE RunAfterOff \/ EnterOff \/ Destroy \/ \E i \in Ids : OnTimeout(i)
  BY <1>0, <1>5, NetKept DEF RunAfterOff, EnterOff, Destroy, OnTimeout
<1>6. CASE RunTask
  <2> DEFINE t == Head(tasks)
  <2>1. t \in Tasks
    BY <1>0, <1>6, HeadTask DEF RunTask
  <2>2. [id |-> t.id, kind |-> t.kind] \in Messages(Request)
    BY <2>1, MessageTypes DEF Tasks
  <2>3. CASE t.do = "send"
    BY <1>0, <1>1, <1>6, <2>2, <2>3 DEF RunTask
  <2>4. CASE t.do # "send"
    BY <1>0, <1>6, <2>4, NetKept DEF RunTask, netVars
  <2> QED
    BY <2>3, <2>4
<1>7. CASE OnResponse
  <2>1. Whole(Reply) /\ buf' = Retrieved(Reply) /\ net' = net /\ conn_' = conn_
    BY <1>7 DEF OnResponse
  <2> QED
    BY <1>0, <2>1, RetrievedKeeps DEF NetInv
<1>8. CASE OnRequest
  <2> DEFINE m == Message(Request)
  <2>1. /\ Whole(Request) /\ buf' = Retrieved(Request) /\ conn_' = conn_ /\ m.kind # "garbled"
        /\ OnRequestBad(m) \/ OnRequestNow(m) \/ OnRequestLater(m)
    BY <1>8 DEF OnRequest, channelVars
  <2>2. /\ m \in Messages(Request)
        /\ buf' \in [Directions -> Seq(Units)]
        /\ buf'[Reply] = buf[Reply]
        /\ \A e \in Directions : Line(buf'[e], net[e], Messages(e), conn_ # "down")
    BY <1>0, <2>1, RetrievedKeeps
  <2> HIDE DEF m
  <2>3. m \in [id : Ids, kind : Kinds]
    BY <2>1, <2>2, MessageTypes
  <2>4. CASE OnRequestBad(m)
    <3>1. [id |-> m.id, kind |-> m.kind] \in Messages(Reply)
      BY <2>3, <2>4, MessageTypes DEF OnRequestBad, Kinds
    <3>2. net' = Sent(Reply, [id |-> m.id, kind |-> m.kind])
      BY <2>4 DEF OnRequestBad
    <3> QED
      BY <1>0, <2>1, <2>2, <3>1, <3>2, SentKeeps
  <2>5. CASE OnRequestNow(m)
    <3>1. [id |-> m.id, kind |-> "ok", of |-> m.id] \in Messages(Reply)
      BY <2>3, MessageTypes
    <3>2. net' = Sent(Reply, [id |-> m.id, kind |-> "ok", of |-> m.id])
      BY <2>5 DEF OnRequestNow, Answer
    <3> QED
      BY <1>0, <2>1, <2>2, <3>1, <3>2, SentKeeps
  <2>6. CASE OnRequestLater(m)
    BY <1>0, <2>1, <2>2, <2>6 DEF OnRequestLater, NetInv
  <2> QED
    BY <2>1, <2>4, <2>5, <2>6
<1>9. ASSUME NEW i \in Ids, Done(i) PROVE NetInv'
  <2>1. PICK id \in ContextId : Answer(id, i)
    BY <1>9 DEF Done
  <2>2. id \in Ids
    BY <1>0, <2>1 DEF ContextId, TypeOK, Ids, Freed
  <2>3. [id |-> id, kind |-> "ok", of |-> i] \in Messages(Reply)
    BY <2>2, MessageTypes
  <2> QED
    BY <1>0, <1>1, <1>9, <2>1, <2>3 DEF Answer, Done, channelVars
<1>10. CASE Lose
  BY <1>0, <1>10, DownKeeps DEF Lose, NetInv
<1>11. ASSUME NEW d \in Directions, Read(d) PROVE NetInv'
  <2>1. PICK j \in 1..Len(net[d]) :
           /\ net' = [net EXCEPT ![d] = SubSeq(@, j + 1, Len(@))]
           /\ buf' = [buf EXCEPT ![d] = @ \o SubSeq(net[d], 1, j)]
    BY <1>11 DEF Read
  <2> DEFINE b == buf[d] \o SubSeq(net[d], 1, j)
             n == SubSeq(net[d], j + 1, Len(net[d]))
             open == conn_ # "down"
  <2>2. Messages(d) \in SUBSET Units /\ Line(buf[d], net[d], Messages(d), open) /\ open \in BOOLEAN
    BY <1>0, MessagesAreUnits DEF NetInv
  <2>3. Line(b, n, Messages(d), open)
    BY <2>2, LineRead
  <2>4. net' = [net EXCEPT ![d] = n] /\ buf' = [buf EXCEPT ![d] = b] /\ conn_' = conn_
    BY <1>11, <2>1 DEF Read, channelVars
  <2> HIDE DEF b, n
  <2>5. net' \in [Directions -> Seq(Units)] /\ buf' \in [Directions -> Seq(Units)]
    BY <1>0, <2>3, <2>4 DEF NetInv, Line
  <2>6. ASSUME NEW e \in Directions PROVE Line(buf'[e], net'[e], Messages(e), conn_' # "down")
    BY <1>0, <2>3, <2>4 DEF NetInv
  <2> QED
    BY <2>5, <2>6 DEF NetInv
<1>12. ASSUME NEW d \in Directions, Garble(d) PROVE NetInv'
  <2> DEFINE m == [kind |-> "garbled"]
  <2>1. m \in Messages(d)
    BY MessageTypes DEF Garbled
  <2> HIDE DEF m
  <2>2. net[d] \o Frame(m) = Frame(m)
    <3>1. Frame(m) \in Seq(Units)
      BY <2>1, MessagesAreUnits, FrameProperties
    <3> QED
      BY <1>12, <3>1, ConcatEmptySeq DEF Garble
  <2>3. net' = Sent(d, m) /\ buf' = buf /\ conn_' = conn_
    BY <1>12, <2>2 DEF Garble, Sent, channelVars, m
  <2> QED
    BY <1>1, <2>1, <2>3
<1>13. ASSUME NEW d \in Directions, OnError(d) PROVE NetInv'
  <2>1. Down /\ buf' = [buf EXCEPT ![d] = << >>]
    BY <1>13 DEF OnError
  <2>2. buf' \in [Directions -> Seq(Units)]
    BY <1>0, <2>1 DEF NetInv
  <2>3. \A e \in Directions : buf'[e] = buf[e] \/ buf'[e] = << >>
    BY <1>0, <2>1 DEF NetInv
  <2> QED
    BY <1>0, <2>1, <2>2, <2>3, DownKeeps
<1>14. CASE UNCHANGED vars
  BY <1>0, <1>14, NetKept DEF vars, channelVars
<1> QED
  BY <1>2, <1>3, <1>4, <1>5, <1>6, <1>7, <1>8, <1>9, <1>10, <1>11, <1>12, <1>13, <1>14
     DEF Next, Directions

-----------------------------------------------------------------------------
(* Types.                                                                  *)

Booleans == ms_ \in BOOLEAN /\ threaded \in BOOLEAN /\ alive \in BOOLEAN /\ overlap \in BOOLEAN

ChannelTypes ==
    /\ conn_ \in {"null", "up", "down"}
    /\ seq_ \in 0..MaxCalls
    /\ call_map_ \subseteq Ids
    /\ caller \in [at : {"idle", "RunAfter", "enter"}, id : 0..MaxCalls]
    /\ tasks \in Seq(Tasks)
    /\ timer \in [Ids -> {"none", "queued", "set", "off"}]

ServerTypes == context \in 0..MaxCalls /\ pending \subseteq Ids

CallTypes ==
    /\ outcome \in [Ids -> Seq(-1..MaxCalls)]
    /\ released \in [Ids -> 0..2]

\* TypeOK in parts.
LEMMA TypeParts == TypeOK <=> Booleans /\ ChannelTypes /\ ServerTypes /\ CallTypes
BY DEF TypeOK, Booleans, ChannelTypes, ServerTypes, CallTypes, Tasks

\* What a call is told and how often it is released stay in range.
LEMMA TellRelease ==
  ASSUME CallTypes
  PROVE  /\ \A ids : Release(ids) => released' \in [Ids -> 0..2]
         /\ \A i \in Ids, o \in -1..MaxCalls : Tell(i, o) => outcome' \in [Ids -> Seq(-1..MaxCalls)]
<1>1. ASSUME NEW ids, Release(ids) PROVE released' \in [Ids -> 0..2]
  BY <1>1 DEF CallTypes, Release
<1>2. ASSUME NEW i \in Ids, NEW o \in -1..MaxCalls, Tell(i, o)
      PROVE  outcome' \in [Ids -> Seq(-1..MaxCalls)]
  <2>1. Append(outcome[i], o) \in Seq(-1..MaxCalls)
    BY AppendProperties DEF CallTypes
  <2> QED
    BY <1>2, <2>1 DEF CallTypes, Tell
<1> QED
  BY <1>1, <1>2

\* A step keeps the types.
LEMMA NextTypeOK == IInv /\ [Next]_vars => TypeOK'
<1> SUFFICES ASSUME IInv, [Next]_vars PROVE TypeOK'
  OBVIOUS
<1>0. Booleans /\ ChannelTypes /\ ServerTypes /\ CallTypes /\ NetInv
  BY TypeParts DEF IInv
<1> SUFFICES Booleans' /\ ChannelTypes' /\ ServerTypes' /\ CallTypes'
  <2>1. TypeOK' <=> Booleans' /\ ChannelTypes' /\ ServerTypes' /\ CallTypes'
    BY DEF TypeOK, Booleans, ChannelTypes, ServerTypes, CallTypes, Tasks
  <2> QED
    BY <2>1
<1>1. Booleans'
  <2>1. ms_' = ms_ /\ threaded' = threaded
    BY DEF Next, vars, channelVars, SetTcpConnectionPtr, CallMethod, CallMethodOff, RunAfterOff,
           EnterOff, RunTask, OnTimeout, Done, OnResponse, Destroy, OnRequest, Lose, Read, Garble,
           OnError, Down
  <2>2. alive' = alive \/ alive' = FALSE
    BY DEF Next, vars, channelVars, SetTcpConnectionPtr, CallMethod, CallMethodOff, RunAfterOff,
           EnterOff, RunTask, OnTimeout, Done, OnResponse, Destroy, OnRequest, Lose, Read, Garble,
           OnError, Down
  <2>3. overlap' \in BOOLEAN
    <3>1. overlap' = overlap \/ OnRequest
      BY DEF Next, vars, serverVars, SetTcpConnectionPtr, CallMethod, CallMethodOff, RunAfterOff,
             EnterOff, RunTask, OnTimeout, Done, OnResponse, Destroy, Lose, Read, Garble,
             OnError, Down
    <3>2. CASE OnRequest
      <4>1. overlap' = overlap \/ overlap' = (overlap \/ pending # {})
        BY <3>2, Zenon DEF OnRequest, OnRequestBad, OnRequestNow, OnRequestLater, serverVars
      <4> QED
        BY <1>0, <4>1, Zenon DEF Booleans
    <3> QED
      BY <1>0, <3>1, <3>2, Zenon DEF Booleans
  <2> QED
    BY <1>0, <2>1, <2>2, <2>3, Zenon DEF Booleans
<1>2. CASE SetTcpConnectionPtr
  BY <1>0, <1>1, <1>2 DEF SetTcpConnectionPtr, ChannelTypes, ServerTypes, CallTypes, serverVars, callVars
<1>3. ASSUME NEW kind \in Kinds, CallMethod(kind) \/ CallMethodOff(kind)
      PROVE  ChannelTypes' /\ ServerTypes' /\ CallTypes'
  <2>1. seq_' = seq_ + 1 /\ seq_' \in Ids /\ seq_' \in 0..MaxCalls /\ conn_' = conn_
    BY <1>0, <1>3, MaxCallsAssumption DEF CallMethod, CallMethodOff, CanCall, ChannelTypes, Ids
  <2>2. ServerTypes'
    BY <1>0, <1>3 DEF CallMethod, CallMethodOff, ServerTypes, serverVars
  <2>3. CASE conn_ = "null"
    <3>0. CallUnsent /\ caller' = caller
      BY <1>3, <2>3 DEF CallMethod, CallMethodOff
    <3>1. Error \in -1..MaxCalls
      BY MaxCallsAssumption DEF Error
    <3>2. CallTypes'
      BY <1>0, <2>1, <3>0, <3>1, TellRelease DEF CallUnsent, CallTypes
    <3>3. ChannelTypes'
      BY <1>0, <2>1, <3>0 DEF CallUnsent, ChannelTypes
    <3> QED
      BY <2>2, <3>2, <3>3
  <2>4. CASE CallMethod(kind) /\ conn_ # "null"
    <3>1. /\ timer' = [timer EXCEPT ![seq_'] = IF ms_ THEN "set" ELSE @]
          /\ call_map_' = call_map_ \cup {seq_'}
          /\ UNCHANGED <<tasks, callVars, caller>>
      BY <2>4 DEF CallMethod
    <3>2. ChannelTypes'
      BY <1>0, <2>1, <3>1 DEF ChannelTypes
    <3> QED
      BY <1>0, <2>2, <3>1, <3>2 DEF CallTypes, callVars
  <2>5. CASE CallMethodOff(kind) /\ conn_ # "null"
    <3>1. /\ tasks' = Append(tasks, [do |-> "send", id |-> seq_', kind |-> kind])
          /\ caller' = [at |-> IF ms_ THEN "RunAfter" ELSE "enter", id |-> seq_']
          /\ UNCHANGED <<call_map_, timer, callVars>>
      BY <2>5 DEF CallMethodOff
    <3>2. tasks' \in Seq(Tasks)
      <4>1. [do |-> "send", id |-> seq_', kind |-> kind] \in Tasks
        BY <2>1 DEF Tasks
      <4> QED
        BY <1>0, <3>1, <4>1, AppendProperties DEF ChannelTypes
    <3>3. caller' \in [at : {"idle", "RunAfter", "enter"}, id : 0..MaxCalls]
      BY <2>1, <3>1
    <3> QED
      BY <1>0, <2>1, <2>2, <3>1, <3>2, <3>3 DEF ChannelTypes, CallTypes, callVars
  <2> QED
    BY <1>3, <2>3, <2>4, <2>5
<1>4. CASE RunAfterOff
  <2>1. caller.id \in Ids
    BY <1>4 DEF RunAfterOff, IInv, CallInv, TypeOK, Ids
  <2>2. tasks' \in Seq(Tasks)
    <3>1. [do |-> "insert", id |-> caller.id, kind |-> "ok"] \in Tasks
      BY <2>1 DEF Tasks, Kinds
    <3> QED
      BY <1>0, <1>4, <3>1, AppendProperties DEF RunAfterOff, ChannelTypes
  <2>3. timer' \in [Ids -> {"none", "queued", "set", "off"}]
    BY <1>0, <1>4, <2>1 DEF RunAfterOff, ChannelTypes
  <2>4. caller' \in [at : {"idle", "RunAfter", "enter"}, id : 0..MaxCalls]
    BY <1>0, <1>4 DEF RunAfterOff, ChannelTypes
  <2> QED
    BY <1>0, <1>1, <1>4, <2>2, <2>3, <2>4
       DEF RunAfterOff, ChannelTypes, ServerTypes, CallTypes, serverVars, callVars
<1>5. CASE EnterOff
  <2>1. caller.id \in Ids
    BY <1>5 DEF EnterOff, IInv, CallInv, TypeOK, Ids
  <2> QED
    BY <1>0, <1>1, <1>5, <2>1, MaxCallsAssumption
       DEF EnterOff, ChannelTypes, ServerTypes, CallTypes, serverVars, callVars
<1>6. CASE RunTask
  <2>1. Head(tasks) \in Tasks /\ tasks' \in Seq(Tasks)
    BY <1>6, HeadTask DEF RunTask, IInv
  <2>2. timer' \in [Ids -> {"none", "queued", "set", "off"}]
    BY <1>0, <1>6, <2>1 DEF RunTask, ChannelTypes, Tasks
  <2> QED
    BY <1>0, <1>1, <1>6, <2>1, <2>2
       DEF RunTask, ChannelTypes, ServerTypes, CallTypes, serverVars, callVars
<1>7. ASSUME NEW ids, timer' = Removed(ids)
      PROVE  timer' \in [Ids -> {"none", "queued", "set", "off"}]
  BY <1>0, <1>7 DEF Removed, ChannelTypes
<1>8. ASSUME NEW i \in Ids, OnTimeout(i) PROVE ChannelTypes' /\ ServerTypes' /\ CallTypes'
  <2>1. Timeout \in -1..MaxCalls
    BY MaxCallsAssumption DEF Timeout
  <2>2. CallTypes'
    BY <1>0, <1>8, <2>1, TellRelease DEF OnTimeout, CallTypes
  <2>3. ChannelTypes'
    BY <1>0, <1>8 DEF OnTimeout, ChannelTypes, Without
  <2> QED
    BY <1>0, <1>8, <2>2, <2>3 DEF OnTimeout, ServerTypes, serverVars
<1>9. CASE OnResponse
  <2> DEFINE m == Message(Reply)
             found == {m.id} \cap call_map_
  <2>1. /\ Whole(Reply) /\ m.kind # "garbled" /\ Reply \in Directions
        /\ call_map_' = Without(m.id) /\ timer' = Removed(found) /\ Release(found)
        /\ IF m.kind # "ok" THEN Tell(m.id, Error)
           ELSE IF found # {} THEN Tell(m.id, m.of) ELSE UNCHANGED outcome
    BY <1>9 DEF OnResponse, Directions
  <2>2. m \in Messages(Reply)
    BY <1>0, <2>1, RetrievedKeeps
  <2>3. m \in [id : Ids, kind : {"ok"}, of : Ids] \cup [id : Ids, kind : {"invalid"}]
    BY <2>1, <2>2, MessageTypes
  <2> HIDE DEF m
  <2>4. m.id \in Ids /\ (m.kind = "ok" => m.of \in Ids)
    BY <2>3
  <2>5. Error \in -1..MaxCalls /\ \A j \in Ids : j \in -1..MaxCalls
    BY MaxCallsAssumption DEF Error, Ids
  <2>6. CallTypes'
    <3>1. outcome' \in [Ids -> Seq(-1..MaxCalls)]
      BY <1>0, <2>1, <2>4, <2>5, TellRelease DEF CallTypes
    <3>2. released' \in [Ids -> 0..2]
      BY <1>0, <2>1, TellRelease
    <3> QED
      BY <3>1, <3>2 DEF CallTypes
  <2>7. timer' \in [Ids -> {"none", "queued", "set", "off"}]
    BY <1>7, <2>1
  <2> QED
    BY <1>0, <1>1, <1>9, <2>1, <2>6, <2>7 DEF OnResponse, ChannelTypes, ServerTypes, serverVars, Without
<1>10. CASE Destroy
  <2>1. released' \in [Ids -> 0..2]
    BY <1>0, <1>10, TellRelease DEF Destroy
  <2>2. timer' \in [Ids -> {"none", "queued", "set", "off"}]
    BY <1>7, <1>10 DEF Destroy
  <2> QED
    BY <1>0, <1>1, <1>10, <2>1, <2>2 DEF Destroy, ChannelTypes, ServerTypes, CallTypes, serverVars
<1>11. CASE OnRequest
  <2>1. Message(Request) \in [id : Ids, kind : Kinds]
    BY <1>0, <1>11, RetrievedKeeps, MessageTypes DEF OnRequest, Directions
  <2>2. ServerTypes'
    <3> DEFINE m == Message(Request)
    <3>1. OnRequestBad(m) \/ OnRequestNow(m) \/ OnRequestLater(m)
      BY <1>11 DEF OnRequest
    <3>2. m.id \in Ids /\ m.id \in 0..MaxCalls
      BY <2>1, MaxCallsAssumption DEF Ids
    <3> HIDE DEF m
    <3>3. (context' = context \/ context' = 0 \/ context' = m.id)
      BY <3>1 DEF OnRequestBad, OnRequestNow, OnRequestLater, serverVars, Freed
    <3>4. pending' = pending \/ pending' = pending \cup {m.id}
      BY <3>1 DEF OnRequestBad, OnRequestNow, OnRequestLater, serverVars
    <3> QED
      BY <1>0, <3>2, <3>3, <3>4, MaxCallsAssumption DEF ServerTypes
  <2> QED
    BY <1>0, <1>1, <1>11, <2>2 DEF OnRequest, ChannelTypes, CallTypes, channelVars, callVars
<1>12. ASSUME NEW i \in Ids, Done(i) PROVE ChannelTypes' /\ ServerTypes' /\ CallTypes'
  BY <1>0, <1>12, MaxCallsAssumption
     DEF Done, ChannelTypes, ServerTypes, CallTypes, channelVars, callVars, Freed
<1>13. CASE Lose \/ \E d \in {Request, Reply} : OnError(d)
  BY <1>0, <1>1, <1>13
     DEF Lose, OnError, Down, ChannelTypes, ServerTypes, CallTypes, serverVars, callVars
<1>14. CASE \E d \in {Request, Reply} : Read(d) \/ Garble(d)
  BY <1>0, <1>1, <1>14
     DEF Read, Garble, ChannelTypes, ServerTypes, CallTypes, channelVars, serverVars, callVars
<1>15. CASE UNCHANGED vars
  BY <1>0, <1>1, <1>15 DEF vars, ChannelTypes, ServerTypes, CallTypes, channelVars, serverVars, callVars
<1> QED
  BY <1>1, <1>2, <1>3, <1>4, <1>5, <1>6, <1>8, <1>9, <1>10, <1>11, <1>12, <1>13, <1>14, <1>15
     DEF Next

-----------------------------------------------------------------------------
(* Released once.                                                          *)

\* Every initial state satisfies the inductive invariant.
LEMMA InitIInv == Init => IInv
<1> SUFFICES ASSUME Init PROVE IInv
  OBVIOUS
<1> USE MaxCallsAssumption
<1>1. Booleans
  BY Zenon DEF Init, Booleans
<1>2. ChannelTypes /\ ServerTypes /\ CallTypes
  BY DEF Init, ChannelTypes, ServerTypes, CallTypes, Freed
<1>3. net = [d \in Directions |-> << >>] /\ buf = net /\ conn_ = "null"
  BY DEF Init, Directions
<1>4. ASSUME NEW d \in Directions PROVE Line(buf[d], net[d], Messages(d), TRUE)
  <2>1. buf[d] = << >> /\ net[d] = << >>
    BY <1>3
  <2>2. << >> \o << >> = << >> /\ Len(<< >>) = 0 /\ << >> \in Seq(Units)
    BY ConcatEmptySeq
  <2>3. 0 \in Nat /\ 0 = 3 * 0
    OBVIOUS
  <2>4. Framed(<< >>, Messages(d))
    BY <2>2 DEF Framed
  <2> QED
    BY <2>1, <2>2, <2>3, <2>4 DEF Line
<1>5. NetInv
  BY <1>3, <1>4 DEF NetInv, Line
<1>6. CallInv
  BY DEF Init, CallInv
<1> QED
  BY <1>1, <1>2, <1>5, <1>6, TypeParts DEF IInv

\* Releasing calls that are entered, once they no longer are.
LEMMA EnteredReleased ==
  ASSUME IInv, NEW ids \in SUBSET call_map_, Release(ids), call_map_' = call_map_ \ ids,
         seq_' = seq_, caller' = caller
  PROVE  CallInv'
<1>1. /\ released \in [Ids -> 0..2] /\ call_map_ \subseteq Ids /\ seq_ \in Nat
      /\ CallInv
  BY MaxCallsAssumption DEF IInv, TypeOK
<1>2. \A i \in Ids : /\ i \notin ids => released'[i] = released[i]
                     /\ i \in ids => released[i] = 0 /\ released'[i] = 1
  BY <1>1 DEF Release, CallInv
<1>3. \A i \in Ids : released'[i] <= 1 /\ (i \in call_map_' => released'[i] = 0)
  BY <1>1, <1>2 DEF CallInv
<1>4. \A i \in Ids : i > seq_' => released'[i] = 0 /\ i \notin call_map_'
  BY <1>1, <1>2 DEF CallInv
<1>5. ASSUME caller.at # "idle"
      PROVE  caller.id \in 1..seq_ /\ released'[caller.id] = 0 /\ caller.id \notin call_map_'
  <2>1. caller.id \in 1..seq_ /\ caller.id \in Ids /\ caller.id \notin call_map_ /\ released[caller.id] = 0
    BY <1>1, <1>5, MaxCallsAssumption DEF CallInv, IInv, TypeOK, Ids
  <2> QED
    BY <1>2, <2>1
<1> QED
  BY <1>3, <1>4, <1>5 DEF CallInv

\* A step keeps what is known of the calls.
LEMMA NextCallInv == IInv /\ [Next]_vars => CallInv'
<1> SUFFICES ASSUME IInv, [Next]_vars PROVE CallInv'
  OBVIOUS
<1>0. /\ released \in [Ids -> 0..2] /\ call_map_ \subseteq Ids /\ seq_ \in 0..MaxCalls
      /\ CallInv
  BY DEF IInv, TypeOK
<1>1. ASSUME UNCHANGED <<released, call_map_, seq_, caller>> PROVE CallInv'
  BY <1>0, <1>1 DEF CallInv
<1>2. CASE SetTcpConnectionPtr \/ RunTask \/ Lose \/ OnRequest \/ \E i \in Ids : Done(i)
  BY <1>1, <1>2 DEF SetTcpConnectionPtr, RunTask, Lose, Down, OnRequest, Done, channelVars, callVars
<1>3. CASE \E d \in {Request, Reply} : Read(d) \/ Garble(d) \/ OnError(d)
  BY <1>1, <1>3 DEF Read, Garble, OnError, Down, channelVars, callVars
<1>4. ASSUME NEW kind \in Kinds, CallMethod(kind) \/ CallMethodOff(kind) PROVE CallInv'
  <2> DEFINE n == seq_ + 1
  <2>1. /\ seq_' = n /\ n \in Ids /\ released[n] = 0 /\ n \notin call_map_
        /\ \A i \in Ids : i > n => i > seq_
        /\ \A i \in 1..seq_ : i \in 1..n /\ i # n
    BY <1>0, <1>4, MaxCallsAssumption DEF CallMethod, CallMethodOff, CanCall, CallInv, Ids
  <2> HIDE DEF n
  <2>2. CASE conn_ = "null"
    <3>1. Release({n}) /\ call_map_' = call_map_ /\ caller' = caller
      BY <1>4, <2>2 DEF CallMethod, CallMethodOff, CallUnsent, n
    <3>2. released'[n] = 1 /\ \A i \in Ids : i # n => released'[i] = released[i]
      BY <1>0, <2>1, <3>1 DEF Release
    <3>3. \A i \in Ids : i > n => i # n
      BY DEF Ids
    <3>4. seq_ \in Nat /\ \A i \in 1..seq_ : i \in Ids
      BY <1>0, MaxCallsAssumption DEF Ids
    <3> QED
      BY <1>0, <2>1, <3>1, <3>2, <3>3, <3>4 DEF CallInv
  <2>3. CASE CallMethod(kind) /\ conn_ # "null"
    <3>1. released' = released /\ call_map_' = call_map_ \cup {n} /\ caller' = caller
      BY <2>1, <2>3 DEF CallMethod, callVars
    <3>2. \A i \in Ids : i > n => i # n
      BY DEF Ids
    <3> QED
      BY <1>0, <2>1, <3>1, <3>2 DEF CallInv
  <2>4. CASE CallMethodOff(kind) /\ conn_ # "null"
    <3>1. released' = released /\ call_map_' = call_map_ /\ caller'.id = n
      BY <2>1, <2>4 DEF CallMethodOff, callVars
    <3>2. n \in 1..n
      BY <2>1 DEF Ids
    <3> QED
      BY <1>0, <2>1, <3>1, <3>2 DEF CallInv
  <2> QED
    BY <1>4, <2>2, <2>3, <2>4
<1>5. CASE RunAfterOff
  <2>1. caller'.id = caller.id /\ caller.at # "idle" /\ UNCHANGED <<released, call_map_, seq_>>
    BY <1>5 DEF RunAfterOff, IInv, TypeOK, callVars
  <2> QED
    BY <1>0, <2>1 DEF CallInv
<1>6. CASE EnterOff
  <2>1. /\ caller.at # "idle" /\ caller'.at = "idle" /\ call_map_' = call_map_ \cup {caller.id}
        /\ UNCHANGED <<released, seq_>>
    BY <1>6 DEF EnterOff, callVars
  <2>2. \A i \in Ids : i > seq_ => i # caller.id
    BY <1>0, <2>1, MaxCallsAssumption DEF CallInv, Ids
  <2> QED
    BY <1>0, <2>1, <2>2 DEF CallInv
<1>7. ASSUME NEW i \in Ids, OnTimeout(i) PROVE CallInv'
  <2>1. call_map_ \ {i} = call_map_ \ ({i} \cap call_map_) /\ {i} \cap call_map_ \in SUBSET call_map_
    OBVIOUS
  <2> QED
    BY <1>7, <2>1, EnteredReleased DEF OnTimeout, Without
<1>8. CASE OnResponse
  <2> DEFINE i == Message(Reply).id
  <2>1. call_map_ \ {i} = call_map_ \ ({i} \cap call_map_) /\ {i} \cap call_map_ \in SUBSET call_map_
    OBVIOUS
  <2>2. /\ Release({i} \cap call_map_) /\ call_map_' = call_map_ \ {i}
        /\ seq_' = seq_ /\ caller' = caller
    BY <1>8 DEF OnResponse, Without
  <2> HIDE DEF i
  <2> QED
    BY <2>1, <2>2, EnteredReleased
<1>9. CASE Destroy
  <2>1. call_map_' = call_map_ \ call_map_ /\ call_map_ \in SUBSET call_map_
    BY <1>9 DEF Destroy
  <2> QED
    BY <1>9, <2>1, EnteredReleased DEF Destroy
<1>10. CASE UNCHANGED vars
  BY <1>1, <1>10 DEF vars, channelVars, callVars
<1> QED
  BY <1>2, <1>3, <1>4, <1>5, <1>6, <1>7, <1>8, <1>9, <1>10 DEF Next

\* The inductive invariant holds in every reachable state.
THEOREM Invariance == Spec => []IInv
<1>1. IInv /\ [Next]_vars => IInv'
  BY NextTypeOK, NextNetInv, NextCallInv DEF IInv
<1> QED
  BY <1>1, InitIInv, PTL DEF Spec

\* done of a call is run or deleted at most once, and not while the call is entered:
\* of an answer, a timeout and the destructor only one finds it in call_map_.
THEOREM DoneReleasedOnce == Spec => []ReleasedOnce
<1>1. IInv => ReleasedOnce
  BY DEF IInv, CallInv, ReleasedOnce
<1> QED
  BY <1>1, Invariance, PTL

-----------------------------------------------------------------------------
(* Own answers.  Without another thread, and as long as no request comes   *)
(* while a service has one, a call is in one place at a time.              *)

\* The k-th message of a stream is of call i.
At(s, k, i) ==
    3 * k + 1 <= Len(s) /\ s[3 * k + 1].kind # "garbled" /\ s[3 * k + 1].id = i

Has(s, i) == \E k \in Nat : At(s, k, i)
Once(s, i) == \A k, l \in Nat : At(s, k, i) /\ At(s, l, i) => k = l

\* Every reply of a stream bears the id of the request it answers.
OfOwn(s) ==
    \A k \in Nat : 3 * k + 1 <= Len(s) /\ s[3 * k + 1].kind = "ok"
                     => s[3 * k + 1].of = s[3 * k + 1].id

\* Where call i is when S and R are the two streams and the service has the requests P.
InPlace(S, R, P, i) == Has(S, i) \/ i \in P \/ Has(R, i)

\* A call that was made, n of which there are, is in one place at most: in a stream,
\* once, or with the service, which has the one whose id c is in the context.
Places(S, R, P, c, n) ==
    /\ P = {} \/ (c \in Ids /\ P = {c})
    /\ \A i \in Ids :
          /\ InPlace(S, R, P, i) => i <= n
          /\ Once(S, i) /\ Once(R, i)
          /\ ~(Has(S, i) /\ Has(R, i))
          /\ i \in P => ~Has(S, i) /\ ~Has(R, i)

UnderWay(i) == InPlace(Stream(Request), Stream(Reply), pending, i)
Told(i) == \E k \in DOMAIN outcome[i] : outcome[i][k] > 0

\* On the loop's thread a timer is set only while its call is entered.
LoopInv ==
    ~threaded =>
       /\ caller.at = "idle" /\ tasks = << >>
       /\ \A i \in Ids : timer[i] = "set" => i \in call_map_
       /\ ~alive => call_map_ = {}

PlaceInv ==
    ~threaded /\ ~overlap =>
       /\ Places(Stream(Request), Stream(Reply), pending, context, seq_)
       /\ OfOwn(Stream(Reply))

\* A call that is entered has been told nothing, and no further message of a call that
\* was answered OK is to come.
AnswerInv ==
    ~threaded /\ ~overlap =>
       \A i \in Ids :
          /\ i \in call_map_ \/ i > seq_ => outcome[i] = << >>
          /\ Told(i) => outcome[i] = <<i>> /\ ~UnderWay(i)

OwnInv == IInv /\ LoopInv /\ PlaceInv /\ AnswerInv

\* The messages of t are the first ones of s.
Fewer(s, t) ==
    \A k \in Nat : 3 * k + 1 <= Len(t) => 3 * k + 1 <= Len(s) /\ t[3 * k + 1] = s[3 * k + 1]

\* Fewer messages are of fewer calls.
LEMMA FewerCalls ==
  ASSUME NEW s, NEW t, Fewer(s, t)
  PROVE  /\ \A i : Has(t, i) => Has(s, i)
         /\ \A i : Once(s, i) => Once(t, i)
         /\ OfOwn(s) => OfOwn(t)
<1>1. \A i : \A k \in Nat : At(t, k, i) => At(s, k, i)
  BY DEF Fewer, At
<1>2. \A i : Has(t, i) => Has(s, i)
  BY <1>1 DEF Has
<1>3. \A i : Once(s, i) => Once(t, i)
  BY <1>1 DEF Once
<1>4. OfOwn(s) => OfOwn(t)
  BY DEF Fewer, OfOwn
<1> QED
  BY <1>2, <1>3, <1>4

\* One more message is of one more call.
LEMMA MoreCalls ==
  ASSUME NEW s, NEW n \in Nat, NEW m, NEW t, Len(s) = 3 * n, OneMore(s, n, m, t)
  PROVE  /\ \A i : Has(t, i) => Has(s, i) \/ (m.kind # "garbled" /\ m.id = i)
         /\ \A i : Once(s, i) /\ ~(Has(s, i) /\ m.kind # "garbled" /\ m.id = i) => Once(t, i)
         /\ OfOwn(s) /\ (m.kind = "ok" => m.of = m.id) => OfOwn(t)
<1>1. \A i : \A k \in Nat : At(t, k, i) =>
         At(s, k, i) \/ (k = n /\ m.kind # "garbled" /\ m.id = i)
  BY DEF OneMore, At
<1>2. \A i : Has(t, i) => Has(s, i) \/ (m.kind # "garbled" /\ m.id = i)
  BY <1>1 DEF Has
<1>3. ASSUME NEW i, Once(s, i), ~(Has(s, i) /\ m.kind # "garbled" /\ m.id = i),
             NEW k \in Nat, NEW l \in Nat, At(t, k, i), At(t, l, i)
      PROVE  k = l
  <2>1. At(s, k, i) \/ (k = n /\ m.kind # "garbled" /\ m.id = i)
    BY <1>1, <1>3
  <2>2. At(s, l, i) \/ (l = n /\ m.kind # "garbled" /\ m.id = i)
    BY <1>1, <1>3
  <2>3. At(s, k, i) \/ At(s, l, i) => Has(s, i)
    BY DEF Has
  <2>4. At(s, k, i) /\ At(s, l, i) => k = l
    BY <1>3 DEF Once
  <2> QED
    BY <1>3, <2>1, <2>2, <2>3, <2>4
<1>4. ASSUME OfOwn(s), m.kind = "ok" => m.of = m.id PROVE OfOwn(t)
  BY <1>4 DEF OneMore, OfOwn
<1> QED
  BY <1>2, <1>3, <1>4 DEF Once

\* Without its first message a stream is of the other calls.
LEMMA LessCalls ==
  ASSUME NEW s, NEW t, OneLess(s, t), Len(t) \in Nat
  PROVE  /\ \A i : Has(t, i) => Has(s, i)
         /\ \A i : Once(s, i) => Once(t, i)
         /\ OfOwn(s) => OfOwn(t)
         /\ s[1].kind # "garbled" => Has(s, s[1].id)
         /\ s[1].kind # "garbled" /\ Once(s, s[1].id) => ~Has(t, s[1].id)
<1>1. \A i : \A k \in Nat : At(t, k, i) => At(s, k + 1, i)
  BY DEF OneLess, At
<1>2. \A k \in Nat : k + 1 \in Nat
  OBVIOUS
<1>3. \A i : Has(t, i) => Has(s, i)
  BY <1>1, <1>2 DEF Has
<1>4. ASSUME NEW i, Once(s, i), NEW k \in Nat, NEW l \in Nat, At(t, k, i), At(t, l, i)
      PROVE  k = l
  <2>1. At(s, k + 1, i) /\ At(s, l + 1, i) /\ k + 1 \in Nat /\ l + 1 \in Nat
    BY <1>1, <1>4
  <2>2. k + 1 = l + 1
    BY <1>4, <2>1 DEF Once
  <2> QED
    BY <2>2
<1>5. ASSUME OfOwn(s), NEW k \in Nat, 3 * k + 1 <= Len(t), t[3 * k + 1].kind = "ok"
      PROVE  t[3 * k + 1].of = t[3 * k + 1].id
  <2>1. 3 * (k + 1) + 1 <= Len(s) /\ t[3 * k + 1] = s[3 * (k + 1) + 1]
    BY <1>5 DEF OneLess
  <2>2. k + 1 \in Nat
    OBVIOUS
  <2> QED
    BY <1>5, <2>1, <2>2 DEF OfOwn
<1>6. ASSUME s[1].kind # "garbled" PROVE At(s, 0, s[1].id)
  <2>1. 3 * 0 + 1 = 1 /\ 1 <= Len(s)
    BY DEF OneLess
  <2> QED
    BY <1>6, <2>1 DEF At
<1>7. ASSUME s[1].kind # "garbled", Once(s, s[1].id), Has(t, s[1].id) PROVE FALSE
  <2>1. PICK k \in Nat : At(t, k, s[1].id)
    BY <1>7 DEF Has
  <2>2. At(s, k + 1, s[1].id) /\ k + 1 \in Nat /\ 0 \in Nat
    BY <1>1, <2>1
  <2>3. k + 1 = 0
    BY <1>6, <1>7, <2>2 DEF Once
  <2> QED
    BY <2>3
<1>8. 0 \in Nat
  OBVIOUS
<1> QED
  BY <1>3, <1>4, <1>5, <1>6, <1>7, <1>8 DEF Once, OfOwn, Has

\* What a step can do to a stream, in terms of the calls its messages are of: drop some,
\* add m, or take m from the head.
Drops(s, t) ==
    /\ \A i : Has(t, i) => Has(s, i)
    /\ \A i : Once(s, i) => Once(t, i)
    /\ OfOwn(s) => OfOwn(t)
Adds(s, m, t) ==
    /\ \A i : Has(t, i) => Has(s, i) \/ (m.kind # "garbled" /\ m.id = i)
    /\ \A i : Once(s, i) /\ ~(Has(s, i) /\ m.kind # "garbled" /\ m.id = i) => Once(t, i)
    /\ OfOwn(s) /\ (m.kind = "ok" => m.of = m.id) => OfOwn(t)
Takes(s, m, t) ==
    /\ Drops(s, t)
    /\ m.kind # "garbled" => Has(s, m.id)
    /\ m.kind # "garbled" /\ Once(s, m.id) => ~Has(t, m.id)
    /\ OfOwn(s) /\ m.kind = "ok" => m.of = m.id

\* SendMessage adds its message or, when the connection is not open, nothing; the
\* other stream is left to what happens to its received part.
LEMMA SentAdds ==
  ASSUME NetInv, NEW d \in Directions, NEW m \in Messages(d), net' = Sent(d, m),
         buf'[d] = buf[d]
  PROVE  /\ Adds(Stream(d), m, Stream(d)')
         /\ \A e \in Directions : e # d => net'[e] = net[e]
<1>1. \A e \in Directions : e # d => net'[e] = net[e]
  BY DEF Sent, NetInv
<1>2. CASE conn_ = "up"
  <2> DEFINE s == buf[d] \o net[d]
  <2>1. /\ buf[d] \in Seq(Units) /\ net[d] \in Seq(Units) /\ m \in Units
        /\ \E n \in Nat : Len(s) = 3 * n
    BY <1>2, MessagesAreUnits DEF NetInv, Line
  <2>2. PICK n \in Nat : Len(s) = 3 * n
    BY <2>1
  <2>3. net'[d] = net[d] \o Frame(m)
    BY <1>2 DEF Sent, NetInv
  <2>4. s \in Seq(Units) /\ Frame(m) \in Seq(Units)
    BY <2>1, ConcatProperties, FrameProperties
  <2>5. buf[d] \o (net[d] \o Frame(m)) = s \o Frame(m)
    <3> DEFINE b == buf[d]
               n_ == net[d]
               f == Frame(m)
    <3>1. b \in Seq(Units) /\ n_ \in Seq(Units) /\ f \in Seq(Units)
      BY <2>1, <2>4
    <3> HIDE DEF b, n_, f
    <3>2. b \o (n_ \o f) = (b \o n_) \o f
      BY <3>1, UnitsAssociate, Zenon
    <3> QED
      BY <3>2 DEF b, n_, f
  <2>6. Stream(d) = s /\ Stream(d)' = s \o Frame(m)
    BY <2>3, <2>5 DEF Stream
  <2> HIDE DEF s
  <2>7. OneMore(s, n, m, s \o Frame(m))
    BY <2>1, <2>2, <2>4, AddFrame
  <2>8. Adds(s, m, s \o Frame(m))
    <3> DEFINE t == s \o Frame(m)
    <3>1. OneMore(s, n, m, t)
      BY <2>7
    <3> HIDE DEF t
    <3>2. Adds(s, m, t)
      BY <2>2, <3>1, MoreCalls DEF Adds
    <3> QED
      BY <3>2 DEF t
  <2> QED
    BY <1>1, <2>6, <2>8
<1>3. CASE conn_ # "up"
  <2>1. Stream(d)' = Stream(d)
    BY <1>3 DEF Sent, Stream
  <2> QED
    BY <1>1, <2>1 DEF Adds
<1> QED
  BY <1>2, <1>3

\* OnMessage takes the message at the head, and nothing of the other stream.
LEMMA RetrievedTakes ==
  ASSUME NetInv, NEW d \in Directions, Whole(d), buf' = Retrieved(d), net'[d] = net[d]
  PROVE  /\ Takes(Stream(d), Message(d), Stream(d)')
         /\ \A e \in Directions : e # d => buf'[e] = buf[e]
<1> DEFINE b == buf[d]
           n == net[d]
           c == SubSeq(b, FrameSize + 1, Len(b))
           s == b \o n
           t == c \o n
<1>1. b \in Seq(Units) /\ n \in Seq(Units) /\ Len(b) >= 3
  BY DEF NetInv, Whole, FrameSize, kHeaderSize
<1>2. buf'[d] = c /\ \A e \in Directions : e # d => buf'[e] = buf[e]
  BY DEF Retrieved, NetInv
<1>3. Stream(d) = s /\ Stream(d)' = t /\ Message(d) = b[1]
  BY <1>2 DEF Stream, Message
<1>4. t \in Seq(Units) /\ s[1] = b[1] /\ OneLess(s, t)
  BY <1>1, DropFrame
<1>5. Len(t) \in Nat
  BY <1>4, LenProperties
<1> HIDE DEF b, n, c, s, t
<1>6. /\ Drops(s, t)
      /\ s[1].kind # "garbled" => Has(s, s[1].id)
      /\ s[1].kind # "garbled" /\ Once(s, s[1].id) => ~Has(t, s[1].id)
  BY <1>4, <1>5, LessCalls DEF Drops
<1>7. OfOwn(s) /\ s[1].kind = "ok" => s[1].of = s[1].id
  <2>1. 3 * 0 + 1 = 1 /\ 0 \in Nat /\ 1 <= Len(s)
    BY <1>4, <1>5 DEF OneLess
  <2> QED
    BY <2>1 DEF OfOwn
<1> QED
  BY <1>2, <1>3, <1>4, <1>6, <1>7 DEF Takes

\* A read moves units within a stream.
LEMMA ReadDrops ==
  ASSUME NetInv, NEW d \in Directions, Read(d), NEW e \in Directions
  PROVE  Drops(Stream(e), Stream(e)')
<1>1. PICK j \in 1..Len(net[d]) :
         /\ net' = [net EXCEPT ![d] = SubSeq(@, j + 1, Len(@))]
         /\ buf' = [buf EXCEPT ![d] = @ \o SubSeq(net[d], 1, j)]
  BY DEF Read
<1>2. Stream(e)' = Stream(e)
  <2>1. CASE e = d
    <3>1. /\ buf'[e] = buf[d] \o SubSeq(net[d], 1, j)
          /\ net'[e] = SubSeq(net[d], j + 1, Len(net[d]))
          /\ buf[d] \in Seq(Units) /\ net[d] \in Seq(Units)
      BY <1>1, <2>1 DEF NetInv
    <3>2. (buf[d] \o SubSeq(net[d], 1, j)) \o SubSeq(net[d], j + 1, Len(net[d]))
             = buf[d] \o net[d]
      BY <1>1, <3>1, ReadMoves
    <3> QED
      BY <2>1, <3>1, <3>2 DEF Stream
  <2>2. CASE e # d
    BY <1>1, <2>2 DEF NetInv, Stream
  <2> QED
    BY <2>1, <2>2
<1> QED
  BY <1>2 DEF Drops

\* What is left of a stream without its end, or without all of it.
LEMMA PrefixFewer ==
  ASSUME NEW b \in Seq(Units), NEW n \in Seq(Units)
  PROVE  Fewer(b \o n, b) /\ Fewer(b \o n, << >>)
<1> DEFINE s == b \o n
<1>1. /\ Len(s) = Len(b) + Len(n) /\ Len(b) \in Nat /\ Len(n) \in Nat
      /\ \A i \in 1..Len(b) + Len(n) : s[i] = IF i <= Len(b) THEN b[i] ELSE n[i - Len(b)]
  BY ConcatProperties, LenProperties
<1> HIDE DEF s
<1>2. ASSUME NEW k \in Nat, 3 * k + 1 <= Len(b)
      PROVE  3 * k + 1 <= Len(s) /\ b[3 * k + 1] = s[3 * k + 1]
  <2>1. 3 * k + 1 \in 1..Len(b) + Len(n) /\ 3 * k + 1 <= Len(s)
    BY <1>1, <1>2
  <2> QED
    BY <1>1, <1>2, <2>1
<1>3. Len(<< >>) = 0
  OBVIOUS
<1> QED
  BY <1>2, <1>3 DEF Fewer, s

\* The end of the connection drops messages.
LEMMA DownDrops ==
  ASSUME NetInv, Down, NEW d \in Directions, buf'[d] = buf[d] \/ buf'[d] = << >>
  PROVE  Drops(Stream(d), Stream(d)')
<1> DEFINE b == buf[d]
           n == net[d]
           s == b \o n
<1>1. b \in Seq(Units) /\ n \in Seq(Units) /\ net'[d] = << >>
  BY DEF NetInv, Down, Directions
<1>3. Fewer(s, b) /\ Fewer(s, << >>)
  BY <1>1, PrefixFewer
<1>4. b \o << >> = b /\ << >> \o << >> = << >>
  BY <1>1, ConcatEmptySeq
<1>5. Stream(d) = s /\ (Stream(d)' = b \/ Stream(d)' = << >>)
  BY <1>1, <1>4 DEF Stream
<1> HIDE DEF b, s, n
<1>6. Drops(s, b) /\ Drops(s, << >>)
  BY <1>3, FewerCalls DEF Drops
<1> QED
  BY <1>5, <1>6

\* Dropping messages leaves every call in its place or in none; calls may be made.
LEMMA PlacesDropped ==
  ASSUME NEW S, NEW R, NEW P, NEW c, NEW n \in Nat, NEW S2, NEW R2, NEW n2 \in Nat,
         Places(S, R, P, c, n), Drops(S, S2), Drops(R, R2), n <= n2
  PROVE  Places(S2, R2, P, c, n2) /\ \A i \in Ids : InPlace(S2, R2, P, i) => InPlace(S, R, P, i)
<1>1. \A i \in Ids : InPlace(S2, R2, P, i) => InPlace(S, R, P, i)
  BY DEF Drops, InPlace
<1>2. \A i \in Ids : InPlace(S2, R2, P, i) => i <= n2
  BY <1>1 DEF Places, Ids
<1> QED
  BY <1>1, <1>2 DEF Drops, Places

\* A new call is in the stream of requests.
LEMMA PlacesCalled ==
  ASSUME NEW S, NEW R, NEW P, NEW c, NEW n \in Nat, NEW S2, NEW m,
         Places(S, R, P, c, n), Adds(S, m, S2), m.kind # "garbled" => m.id = n + 1
  PROVE  /\ Places(S2, R, P, c, n + 1)
         /\ \A i \in Ids : InPlace(S2, R, P, i) => InPlace(S, R, P, i) \/ i = n + 1
<1>1. \A i \in Ids : i = n + 1 => ~InPlace(S, R, P, i)
  BY DEF Places, Ids
<1>2. \A i \in Ids : InPlace(S2, R, P, i) => InPlace(S, R, P, i) \/ i = n + 1
  BY DEF Adds, InPlace
<1>3. \A i \in Ids : InPlace(S2, R, P, i) => i <= n + 1
  BY <1>2 DEF Places, Ids
<1>4. \A i \in Ids : Once(S2, i)
  BY <1>1 DEF Adds, Places, InPlace
<1>5. ASSUME NEW i \in Ids, Has(S2, i), Has(R, i) \/ i \in P PROVE FALSE
  <2>1. CASE i = n + 1
    BY <1>1, <1>5, <2>1 DEF InPlace
  <2>2. CASE i # n + 1
    <3>1. Has(S, i)
      BY <1>5, <2>2 DEF Adds
    <3> QED
      BY <1>5, <3>1 DEF Places
  <2> QED
    BY <2>1, <2>2
<1> QED
  BY <1>2, <1>3, <1>4, <1>5 DEF Places

\* A request that is answered at once moves from the one stream to the other.
LEMMA PlacesAnswered ==
  ASSUME NEW S, NEW R, NEW P, NEW c, NEW n \in Nat, NEW S2, NEW R2, NEW c2, NEW m, NEW r,
         Places(S, R, P, c, n), Takes(S, m, S2), m.kind # "garbled", m.id \in Ids,
         Adds(R, r, R2), r.id = m.id, c2 = c \/ P = {}
  PROVE  Places(S2, R2, P, c2, n) /\ \A i \in Ids : InPlace(S2, R2, P, i) => InPlace(S, R, P, i)
<1> DEFINE j == m.id
<1>1. /\ Has(S, j) /\ ~Has(S2, j) /\ ~Has(R, j) /\ j \notin P
      /\ \A i \in Ids : Has(S2, i) => Has(S, i)
      /\ \A i \in Ids : Once(S2, i)
  BY DEF Takes, Places, Drops
<1>2. \A i \in Ids : Has(R2, i) => Has(R, i) \/ i = j
  BY DEF Adds
<1>3. \A i \in Ids : Once(R2, i)
  BY <1>1 DEF Adds, Places
<1> HIDE DEF j
<1>4. \A i \in Ids : InPlace(S2, R2, P, i) => InPlace(S, R, P, i)
  BY <1>1, <1>2 DEF InPlace
<1>5. \A i \in Ids : ~(Has(S2, i) /\ Has(R2, i)) /\ (i \in P => ~Has(S2, i) /\ ~Has(R2, i))
  BY <1>1, <1>2 DEF Places
<1>6. P = {} \/ (c2 \in Ids /\ P = {c2})
  BY DEF Places
<1> QED
  BY <1>1, <1>3, <1>4, <1>5, <1>6 DEF Places

\* A request that a service keeps moves from the stream to the service.
LEMMA PlacesHanded ==
  ASSUME NEW S, NEW R, NEW c, NEW n \in Nat, NEW S2, NEW m,
         Places(S, R, {}, c, n), Takes(S, m, S2), m.kind # "garbled", m.id \in Ids
  PROVE  /\ Places(S2, R, {m.id}, m.id, n)
         /\ \A i \in Ids : InPlace(S2, R, {m.id}, i) => InPlace(S, R, {}, i)
<1> DEFINE j == m.id
<1>1. /\ j \in Ids /\ Has(S, j) /\ ~Has(S2, j) /\ ~Has(R, j)
      /\ \A i \in Ids : Has(S2, i) => Has(S, i)
      /\ \A i \in Ids : Once(S2, i)
  BY DEF Takes, Places, Drops
<1> HIDE DEF j
<1>2. \A i \in Ids : InPlace(S2, R, {j}, i) => InPlace(S, R, {}, i)
  BY <1>1 DEF InPlace
<1>3. Places(S2, R, {j}, j, n)
  BY <1>1, <1>2 DEF Places
<1> QED
  BY <1>2, <1>3 DEF j

\* A request a service answers moves from it to the stream of replies.
LEMMA PlacesDone ==
  ASSUME NEW S, NEW R, NEW j \in Ids, NEW n \in Nat, NEW R2, NEW r, NEW c,
         Places(S, R, {j}, j, n), Adds(R, r, R2), r.id = j
  PROVE  /\ Places(S, R2, {}, c, n)
         /\ \A i \in Ids : InPlace(S, R2, {}, i) => InPlace(S, R, {j}, i)
<1>1. ~Has(S, j) /\ ~Has(R, j)
  BY DEF Places
<1>2. \A i \in Ids : Has(R2, i) => Has(R, i) \/ i = j
  BY DEF Adds
<1>3. \A i \in Ids : Once(R2, i)
  BY <1>1 DEF Adds, Places
<1>4. \A i \in Ids : InPlace(S, R2, {}, i) => InPlace(S, R, {j}, i)
  BY <1>2 DEF InPlace
<1>5. \A i \in Ids : ~(Has(S, i) /\ Has(R2, i))
  BY <1>1, <1>2 DEF Places
<1> QED
  BY <1>3, <1>4, <1>5 DEF Places

\* A reply that is taken was the last message of its call.
LEMMA PlacesTaken ==
  ASSUME NEW S, NEW R, NEW P, NEW c, NEW n \in Nat, NEW R2, NEW m,
         Places(S, R, P, c, n), Takes(R, m, R2), m.kind # "garbled", m.id \in Ids
  PROVE  /\ InPlace(S, R, P, m.id) /\ ~InPlace(S, R2, P, m.id)
         /\ m.id <= n
BY DEF Places, Takes, InPlace

-----------------------------------------------------------------------------
(* Every step keeps what is known of the answers.                          *)

\* A step keeps the thread of the calls, and that requests have overlapped.
LEMMA NextHistory ==
  ASSUME [Next]_vars
  PROVE  threaded' = threaded /\ (~overlap' => ~overlap)
<1>1. threaded' = threaded
  BY DEF Next, vars, channelVars, SetTcpConnectionPtr, CallMethod, CallMethodOff, RunAfterOff,
         EnterOff, RunTask, OnTimeout, Done, OnResponse, Destroy, OnRequest, Lose, Read, Garble,
         OnError, Down
<1>2. (overlap' = overlap) \/ OnRequest
  BY DEF Next, vars, serverVars, SetTcpConnectionPtr, CallMethod, CallMethodOff, RunAfterOff,
         EnterOff, RunTask, OnTimeout, Done, OnResponse, Destroy, Lose, Read, Garble,
         OnError, Down
<1>3. ASSUME OnRequest PROVE ~overlap' => ~overlap
  <2>1. (overlap' = overlap) \/ overlap' = (overlap \/ pending # {})
    BY <1>3, Zenon DEF OnRequest, OnRequestBad, OnRequestNow, OnRequestLater, serverVars
  <2>2. CASE overlap' = overlap
    BY <2>2, Zenon
  <2>3. CASE overlap' = (overlap \/ pending # {})
    BY <2>3, Zenon
  <2> QED
    BY <2>1, <2>2, <2>3, Zenon
<1>4. ~overlap' => ~overlap
  <2>1. CASE overlap' = overlap
    BY <2>1, Zenon
  <2> QED
    BY <1>2, <1>3, <2>1, Zenon
<1> QED
  BY <1>1, <1>4

\* On the loop's thread nothing is left to the other thread.
LEMMA NextLoopInv == OwnInv /\ [Next]_vars => LoopInv'
<1> SUFFICES ASSUME OwnInv, [Next]_vars, ~threaded
             PROVE  /\ caller'.at = "idle" /\ tasks' = << >>
                    /\ \A i \in Ids : timer'[i] = "set" => i \in call_map_'
                    /\ ~alive' => call_map_' = {}
  BY NextHistory DEF LoopInv
<1>0. /\ caller.at = "idle" /\ tasks = << >>
      /\ \A i \in Ids : timer[i] = "set" => i \in call_map_
      /\ ~alive => call_map_ = {}
      /\ timer \in [Ids -> {"none", "queued", "set", "off"}] /\ call_map_ \subseteq Ids
      /\ seq_ \in 0..MaxCalls
  BY DEF OwnInv, LoopInv, IInv, TypeOK
<1>1. CASE SetTcpConnectionPtr \/ Lose \/ OnRequest \/ \E i \in Ids : Done(i)
  BY <1>0, <1>1 DEF SetTcpConnectionPtr, Lose, Down, OnRequest, Done, channelVars
<1>2. CASE UNCHANGED vars \/ \E d \in {Request, Reply} : Read(d) \/ Garble(d) \/ OnError(d)
  BY <1>0, <1>2 DEF Read, Garble, OnError, Down, channelVars, vars
<1>3. ASSUME NEW kind \in Kinds, CallMethod(kind) \/ CallMethodOff(kind)
      PROVE  /\ caller'.at = "idle" /\ tasks' = << >>
             /\ \A i \in Ids : timer'[i] = "set" => i \in call_map_'
             /\ ~alive' => call_map_' = {}
  <2>1. CallMethod(kind) /\ alive' = alive /\ alive
    BY <1>3 DEF CallMethod, CallMethodOff, CanCall
  <2>2. CASE conn_ = "null"
    BY <1>0, <2>1, <2>2 DEF CallMethod, CallUnsent
  <2>3. CASE conn_ # "null"
    <3>1. /\ timer' = [timer EXCEPT ![seq_'] = IF ms_ THEN "set" ELSE @]
          /\ call_map_' = call_map_ \cup {seq_'} /\ UNCHANGED <<tasks, caller>>
      BY <2>1, <2>3 DEF CallMethod
    <3>2. \A i \in Ids : i # seq_' => timer'[i] = timer[i]
      BY <1>0, <3>1
    <3> QED
      BY <1>0, <2>1, <3>1, <3>2
  <2> QED
    BY <2>2, <2>3
<1>4. CASE RunAfterOff \/ EnterOff \/ RunTask
  BY <1>0, <1>4 DEF RunAfterOff, EnterOff, RunTask
<1>5. ASSUME NEW i \in Ids, OnTimeout(i)
      PROVE  /\ caller'.at = "idle" /\ tasks' = << >>
             /\ \A j \in Ids : timer'[j] = "set" => j \in call_map_'
             /\ ~alive' => call_map_' = {}
  BY <1>0, <1>5 DEF OnTimeout, Without
<1>6. CASE OnResponse
  <2> DEFINE i == Message(Reply).id
  <2>1. /\ call_map_' = call_map_ \ {i} /\ timer' = Removed({i} \cap call_map_)
        /\ UNCHANGED <<alive, caller, tasks>>
    BY <1>6 DEF OnResponse, Without
  <2> HIDE DEF i
  <2>2. \A j \in Ids : timer'[j] = "set" => j \in call_map_'
    BY <1>0, <2>1 DEF Removed
  <2> QED
    BY <1>0, <2>1, <2>2
<1>7. CASE Destroy
  BY <1>0, <1>7 DEF Destroy, Removed
<1> QED
  BY <1>1, <1>2, <1>3, <1>4, <1>5, <1>6, <1>7 DEF Next

\* Every step moves calls from place to place; only a new one comes to be in one.
LEMMA NextPlaces ==
  ASSUME OwnInv, [Next]_vars, ~threaded, ~overlap'
  PROVE  /\ Places(Stream(Request)', Stream(Reply)', pending', context', seq_')
         /\ OfOwn(Stream(Reply)')
         /\ \A i \in Ids : InPlace(Stream(Request)', Stream(Reply)', pending', i)
                              => UnderWay(i) \/ i > seq_
<1> DEFINE S == Stream(Request)
           R == Stream(Reply)
           Goal == /\ Places(S', R', pending', context', seq_') /\ OfOwn(R')
                   /\ \A i \in Ids : InPlace(S', R', pending', i) => UnderWay(i) \/ i > seq_
<1> SUFFICES Goal
  OBVIOUS
<1>0. /\ NetInv /\ TypeOK /\ LoopInv /\ seq_ \in Nat
      /\ Request \in Directions /\ Reply \in Directions /\ Request # Reply
  BY MaxCallsAssumption DEF OwnInv, IInv, TypeOK, Directions, Request, Reply
<1>1. Places(S, R, pending, context, seq_) /\ OfOwn(R)
  BY NextHistory DEF OwnInv, PlaceInv
<1>2. \A i \in Ids : UnderWay(i) <=> InPlace(S, R, pending, i)
  BY DEF UnderWay
<1>3. ASSUME UNCHANGED <<pending, context>>, seq_' \in Nat, seq_ <= seq_', Drops(S, S'), Drops(R, R')
      PROVE  Goal
  <2> DEFINE s == S'
             r == R'
             n == seq_'
  <2>1. n \in Nat /\ seq_ <= n /\ Drops(S, s) /\ Drops(R, r)
    BY <1>3
  <2> HIDE DEF s, r, n, S, R
  <2>2. /\ Places(s, r, pending, context, n) /\ OfOwn(r)
        /\ \A i \in Ids : InPlace(s, r, pending, i) => InPlace(S, R, pending, i)
    BY <1>0, <1>1, <2>1, PlacesDropped DEF Drops
  <2> QED
    BY <1>2, <1>3, <2>2 DEF s, r, n
<1>4. ASSUME NEW d \in Directions, net'[d] = net[d], buf'[d] = buf[d]
      PROVE  Stream(d)' = Stream(d) /\ Drops(Stream(d), Stream(d)')
  BY <1>4 DEF Stream, Drops
<1>5. CASE UNCHANGED vars \/ SetTcpConnectionPtr \/ Destroy \/ \E i \in Ids : OnTimeout(i)
  <2>1. UNCHANGED <<net, buf, pending, context, seq_>>
    BY <1>5 DEF vars, SetTcpConnectionPtr, Destroy, OnTimeout, netVars, serverVars, channelVars
  <2> QED
    BY <1>0, <1>3, <1>4, <2>1
<1>6. ASSUME NEW kind \in Kinds, CallMethod(kind) \/ CallMethodOff(kind) PROVE Goal
  <2>1. CallMethod(kind) /\ UNCHANGED <<buf, pending, context>> /\ seq_' = seq_ + 1
    BY <1>6 DEF CallMethod, CallMethodOff, serverVars
  <2>2. CASE conn_ = "null"
    <3>1. net' = net
      BY <2>1, <2>2 DEF CallMethod, CallUnsent
    <3>2. seq_' \in Nat /\ seq_ <= seq_'
      BY <1>0, <2>1
    <3> QED
      BY <1>0, <1>3, <1>4, <2>1, <3>1, <3>2
  <2>3. CASE conn_ # "null"
    <3> DEFINE m == [id |-> seq_', kind |-> kind]
    <3>1. net' = Sent(Request, m)
      BY <2>1, <2>3 DEF CallMethod
    <3>2. seq_' \in Ids
      BY <1>0, <2>1, MaxCallsAssumption DEF CallMethod, CanCall, TypeOK, Ids
    <3>3. m \in Messages(Request) /\ m.id = seq_ + 1
      BY <2>1, <3>2, MessageTypes
    <3> HIDE DEF m
    <3>4. Adds(S, m, S') /\ R' = R
      BY <1>0, <1>4, <2>1, <3>1, <3>3, SentAdds
    <3> DEFINE s == S'
    <3>5. Adds(S, m, s)
      BY <3>4
    <3> HIDE DEF s, S, R
    <3>6. /\ Places(s, R, pending, context, seq_ + 1)
          /\ \A i \in Ids : InPlace(s, R, pending, i) => InPlace(S, R, pending, i) \/ i = seq_ + 1
      BY <1>0, <1>1, <3>3, <3>5, PlacesCalled
    <3>7. \A i \in Ids : i = seq_ + 1 => i > seq_
      BY <1>0
    <3> QED
      BY <1>1, <1>2, <2>1, <3>4, <3>6, <3>7 DEF s
  <2> QED
    BY <2>2, <2>3
<1>7. CASE RunAfterOff \/ EnterOff \/ RunTask
  BY <1>0, <1>7 DEF RunAfterOff, EnterOff, RunTask, LoopInv
<1>8. CASE OnResponse
  <2>1. Whole(Reply) /\ buf' = Retrieved(Reply) /\ UNCHANGED <<net, pending, context, seq_>>
    BY <1>8 DEF OnResponse, serverVars
  <2>2. Drops(R, R') /\ buf'[Request] = buf[Request]
    BY <1>0, <2>1, RetrievedTakes DEF Takes
  <2> QED
    BY <1>0, <1>3, <1>4, <2>1, <2>2
<1>9. CASE OnRequest
  <2> DEFINE m == Message(Request)
  <2>1. /\ Whole(Request) /\ buf' = Retrieved(Request) /\ m.kind # "garbled" /\ seq_' = seq_
        /\ OnRequestBad(m) \/ OnRequestNow(m) \/ OnRequestLater(m)
    BY <1>9 DEF OnRequest, channelVars
  <2>2. m \in Messages(Request) /\ buf'[Reply] = buf[Reply]
    BY <1>0, <2>1, RetrievedKeeps
  <2>3. net'[Request] = net[Request]
    BY <1>0, <2>1 DEF OnRequestBad, OnRequestNow, OnRequestLater, Answer, Sent, NetInv
  <2>4. Takes(S, m, S')
    BY <1>0, <2>1, <2>3, RetrievedTakes
  <2> HIDE DEF m
  <2>5. m \in [id : Ids, kind : Kinds]
    BY <2>1, <2>2, MessageTypes
  <2> DEFINE s == S'
  <2>6. Takes(S, m, s) /\ m.id \in Ids
    BY <2>4, <2>5
  <2>7. ASSUME NEW r \in Messages(Reply), net' = Sent(Reply, r), r.id = m.id,
               r.kind = "ok" => r.of = r.id, pending' = pending, context' = context \/ pending = {}
        PROVE  Goal
    <3>1. Adds(R, r, R')
      BY <1>0, <2>2, <2>7, SentAdds
    <3> DEFINE t == R'
               c == context'
    <3>2. Adds(R, r, t) /\ (c = context \/ pending = {})
      BY <2>7, <3>1
    <3> HIDE DEF s, t, S, R, c
    <3>3. /\ Places(s, t, pending, c, seq_)
          /\ \A i \in Ids : InPlace(s, t, pending, i) => InPlace(S, R, pending, i)
      BY <1>0, <1>1, <2>1, <2>6, <2>7, <3>2, PlacesAnswered
    <3>4. OfOwn(t)
      BY <1>1, <2>7, <3>2 DEF Adds
    <3> QED
      BY <1>2, <2>1, <2>7, <3>3, <3>4 DEF s, t, c
  <2>8. CASE OnRequestBad(m)
    <3> DEFINE r == [id |-> m.id, kind |-> m.kind]
    <3>1. r \in Messages(Reply) /\ r.id = m.id /\ r.kind # "ok"
      BY <2>5, <2>8, MessageTypes DEF OnRequestBad, Kinds
    <3>2. net' = Sent(Reply, r) /\ pending' = pending /\ context' = context
      BY <2>8 DEF OnRequestBad, serverVars
    <3> HIDE DEF r
    <3> QED
      BY <2>7, <3>1, <3>2
  <2>9. CASE OnRequestNow(m)
    <3> DEFINE r == [id |-> m.id, kind |-> "ok", of |-> m.id]
    <3>1. r \in Messages(Reply) /\ r.id = m.id /\ r.of = r.id
      BY <2>5, MessageTypes
    <3>2. net' = Sent(Reply, r) /\ pending' = pending /\ pending = {}
      BY <2>9 DEF OnRequestNow, Answer
    <3> HIDE DEF r
    <3> QED
      BY <2>7, <3>1, <3>2
  <2>10. CASE OnRequestLater(m)
    <3>1. net' = net /\ pending = {} /\ pending' = {m.id} /\ context' = m.id
      BY <2>10 DEF OnRequestLater
    <3>2. R' = R
      BY <1>0, <1>4, <2>2, <3>1
    <3> HIDE DEF s, S, R
    <3>3. Places(S, R, {}, context, seq_)
      BY <1>1, <3>1
    <3>4. /\ Places(s, R, {m.id}, m.id, seq_)
          /\ \A i \in Ids : InPlace(s, R, {m.id}, i) => InPlace(S, R, {}, i)
      BY <1>0, <2>1, <2>6, <3>3, PlacesHanded
    <3> QED
      BY <1>1, <1>2, <2>1, <3>1, <3>2, <3>4 DEF s
  <2> QED
    BY <2>1, <2>8, <2>9, <2>10
<1>10. ASSUME NEW j \in Ids, Done(j) PROVE Goal
  <2>1. /\ j \in pending /\ pending' = pending \ {j} /\ UNCHANGED <<buf, seq_>>
        /\ \E id \in ContextId : Answer(id, j)
    BY <1>10 DEF Done, channelVars
  <2>2. pending = {j} /\ context = j /\ ContextId = {j} /\ pending' = {}
    BY <1>1, <2>1 DEF Places, ContextId, Freed, Ids
  <2> DEFINE r == [id |-> j, kind |-> "ok", of |-> j]
             t == R'
             c == context'
  <2>3. r \in Messages(Reply) /\ r.id = j /\ r.of = r.id
    BY MessageTypes
  <2>4. net' = Sent(Reply, r)
    BY <2>1, <2>2 DEF Answer
  <2> HIDE DEF r
  <2>5. Adds(R, r, t) /\ S' = S
    BY <1>0, <1>4, <2>1, <2>3, <2>4, SentAdds
  <2> HIDE DEF S, R, t, c
  <2>6. Places(S, R, {j}, j, seq_)
    BY <1>1, <2>2
  <2>7. /\ Places(S, t, {}, c, seq_)
        /\ \A i \in Ids : InPlace(S, t, {}, i) => InPlace(S, R, {j}, i)
    BY <1>0, <2>3, <2>5, <2>6, PlacesDone
  <2>8. OfOwn(t)
    BY <1>1, <2>3, <2>5 DEF Adds
  <2> QED
    BY <1>2, <2>1, <2>2, <2>5, <2>7, <2>8 DEF t, c
<1>11. CASE Lose \/ \E d \in {Request, Reply} : OnError(d)
  <2>1. Down /\ UNCHANGED <<pending, context, seq_>>
    BY <1>11 DEF Lose, OnError, Down, serverVars
  <2>2. \A d \in Directions : buf'[d] = buf[d] \/ buf'[d] = << >>
    BY <1>0, <1>11 DEF Lose, OnError, NetInv
  <2>3. Drops(S, S') /\ Drops(R, R')
    BY <1>0, <2>1, <2>2, DownDrops
  <2> QED
    BY <1>0, <1>3, <2>1, <2>3
<1>12. ASSUME NEW d \in Directions, Read(d) PROVE Goal
  <2>1. Drops(S, S') /\ Drops(R, R') /\ UNCHANGED <<pending, context, seq_>>
    BY <1>0, <1>12, ReadDrops DEF Read, serverVars, channelVars
  <2> QED
    BY <1>0, <1>3, <2>1
<1>13. ASSUME NEW d \in Directions, Garble(d) PROVE Goal
  <2>1. Garbled \in Messages(d) /\ Garbled.kind = "garbled"
    BY MessageTypes DEF Garbled
  <2>2. net[d] \o Frame(Garbled) = Frame(Garbled)
    <3>1. Frame(Garbled) \in Seq(Units)
      BY <2>1, MessagesAreUnits, FrameProperties
    <3> QED
      BY <1>13, <3>1, ConcatEmptySeq DEF Garble
  <2>3. net' = Sent(d, Garbled) /\ UNCHANGED <<buf, pending, context, seq_>>
    BY <1>13, <2>2 DEF Garble, Sent, channelVars, serverVars, Garbled
  <2>4. /\ Adds(Stream(d), Garbled, Stream(d)')
        /\ \A e \in Directions : e # d => net'[e] = net[e]
    BY <1>0, <2>1, <2>3, SentAdds
  <2>5. Drops(Stream(d), Stream(d)')
    BY <2>1, <2>4 DEF Adds, Drops
  <2>6. \A e \in Directions : Drops(Stream(e), Stream(e)')
    BY <1>4, <2>3, <2>4, <2>5
  <2> QED
    BY <1>0, <1>3, <2>3, <2>6
<1> QED
  BY <1>5, <1>6, <1>7, <1>8, <1>9, <1>10, <1>11, <1>12, <1>13 DEF Next, Directions

\* A call told of an answer is told nothing else.
LEMMA NextAnswerInv == OwnInv /\ [Next]_vars => AnswerInv'
<1> SUFFICES ASSUME OwnInv, [Next]_vars, ~threaded, ~overlap', NEW i \in Ids
             PROVE  /\ i \in call_map_' \/ i > seq_' => outcome'[i] = << >>
                    /\ Told(i)' => outcome'[i] = <<i>> /\ ~UnderWay(i)'
  BY NextHistory DEF AnswerInv
<1> DEFINE Goal == /\ i \in call_map_' \/ i > seq_' => outcome'[i] = << >>
                   /\ Told(i)' => outcome'[i] = <<i>> /\ ~UnderWay(i)'
<1>0. /\ i \in call_map_ \/ i > seq_ => outcome[i] = << >>
      /\ Told(i) => outcome[i] = <<i>> /\ ~UnderWay(i)
      /\ outcome \in [Ids -> Seq(-1..MaxCalls)]
      /\ outcome[i] \in Seq(-1..MaxCalls)
      /\ seq_ \in 0..MaxCalls /\ i \in Nat
  BY NextHistory DEF OwnInv, AnswerInv, IInv, TypeOK, Ids
<1>1. UnderWay(i)' => UnderWay(i) \/ i > seq_
  BY NextPlaces DEF UnderWay
<1>2. outcome[i] = << >> => ~Told(i)
  BY DEF Told
<1>3. ASSUME outcome'[i] = outcome[i], i \in call_map_' \/ i > seq_' => i \in call_map_ \/ i > seq_
      PROVE  Goal
  <2>1. Told(i)' <=> Told(i)
    BY <1>3 DEF Told
  <2> QED
    BY <1>0, <1>1, <1>2, <1>3, <2>1
<1>4. ASSUME NEW o \in -1..MaxCalls, outcome'[i] = Append(outcome[i], o), ~(o > 0), ~Told(i)
      PROVE  ~Told(i)'
  <2> DEFINE s == outcome[i]
             t == outcome'[i]
  <2>1. s \in Seq(-1..MaxCalls) /\ t = Append(s, o) /\ \A k \in DOMAIN s : ~(s[k] > 0)
    BY <1>0, <1>4 DEF Told
  <2> HIDE DEF s, t
  <2>2. /\ t \in Seq(-1..MaxCalls) /\ Len(t) = Len(s) + 1 /\ Len(s) \in Nat
        /\ \A k \in 1..Len(s) : t[k] = s[k]
        /\ t[Len(s) + 1] = o
    BY <2>1, AppendProperties, LenProperties
  <2>3. DOMAIN s = 1..Len(s) /\ DOMAIN t = 1..Len(t)
    BY <2>1, <2>2, LenProperties
  <2>4. ASSUME NEW k \in DOMAIN t PROVE ~(t[k] > 0)
    <3>1. k \in 1..Len(s) \/ k = Len(s) + 1
      BY <2>2, <2>3
    <3> QED
      BY <1>4, <2>1, <2>2, <2>3, <3>1
  <2> QED
    BY <2>4 DEF Told, t
<1>5. CASE SetTcpConnectionPtr \/ Lose \/ OnRequest \/ UNCHANGED vars \/ \E j \in Ids : Done(j)
  <2>1. UNCHANGED <<outcome, call_map_, seq_>>
    BY <1>5 DEF SetTcpConnectionPtr, Lose, Down, OnRequest, Done, channelVars, callVars, vars
  <2> QED
    BY <1>3, <2>1
<1>6. CASE \E d \in {Request, Reply} : Read(d) \/ Garble(d) \/ OnError(d)
  <2>1. UNCHANGED <<outcome, call_map_, seq_>>
    BY <1>6 DEF Read, Garble, OnError, Down, channelVars, callVars
  <2> QED
    BY <1>3, <2>1
<1>7. ASSUME NEW kind \in Kinds, CallMethod(kind) \/ CallMethodOff(kind) PROVE Goal
  <2>1. CallMethod(kind) /\ seq_' = seq_ + 1 /\ seq_' \in Ids
    BY <1>0, <1>7, MaxCallsAssumption DEF CallMethod, CallMethodOff, CanCall, Ids
  <2>2. CASE conn_ = "null"
    <3>1. outcome' = [outcome EXCEPT ![seq_'] = Append(@, 0)] /\ call_map_' = call_map_
      BY <2>1, <2>2 DEF CallMethod, CallUnsent, Tell, Error
    <3>2. CASE i = seq_'
      <4>1. outcome'[i] = Append(outcome[i], 0) /\ i > seq_ /\ ~(i > seq_')
        BY <1>0, <2>1, <3>1, <3>2
      <4>2. ~Told(i) /\ ~(0 > 0) /\ 0 \in -1..MaxCalls /\ i \notin call_map_
        BY <1>0, <1>2, <4>1, MaxCallsAssumption DEF OwnInv, IInv, CallInv
      <4> QED
        BY <1>4, <3>1, <4>1, <4>2
    <3>3. CASE i # seq_'
      <4>1. outcome'[i] = outcome[i] /\ (i > seq_' => i > seq_)
        BY <1>0, <2>1, <3>1, <3>3
      <4> QED
        BY <1>3, <3>1, <4>1
    <3> QED
      BY <3>2, <3>3
  <2>3. CASE conn_ # "null"
    <3>1. outcome' = outcome /\ call_map_' = call_map_ \cup {seq_'}
      BY <2>1, <2>3 DEF CallMethod, callVars
    <3>2. i = seq_' \/ i > seq_' => i > seq_
      BY <1>0, <2>1
    <3> QED
      BY <1>3, <3>1, <3>2
  <2> QED
    BY <2>2, <2>3
<1>8. CASE RunAfterOff \/ EnterOff \/ RunTask
  BY <1>8 DEF RunAfterOff, EnterOff, RunTask, OwnInv, LoopInv
<1>9. ASSUME NEW j \in Ids, OnTimeout(j) PROVE Goal
  <2>1. /\ outcome' = [outcome EXCEPT ![j] = Append(@, -1)] /\ call_map_' = call_map_ \ {j}
        /\ seq_' = seq_ /\ timer[j] = "set"
    BY <1>9 DEF OnTimeout, Tell, Timeout, Without
  <2>2. CASE i = j
    <3>1. i \in call_map_ /\ ~(i > seq_) /\ i \notin call_map_'
      BY <2>1, <2>2 DEF OwnInv, LoopInv, IInv, CallInv
    <3>2. outcome'[i] = Append(outcome[i], -1) /\ ~Told(i) /\ ~(-1 > 0) /\ -1 \in -1..MaxCalls
      BY <1>0, <1>2, <2>1, <2>2, <3>1, MaxCallsAssumption
    <3> QED
      BY <1>4, <2>1, <3>1, <3>2
  <2>3. CASE i # j
    <3>1. outcome'[i] = outcome[i]
      BY <1>0, <2>1, <2>3
    <3> QED
      BY <1>3, <2>1, <3>1
  <2> QED
    BY <2>2, <2>3
<1>10. CASE OnResponse
  <2> DEFINE m == Message(Reply)
  <2>0. NetInv /\ Reply \in Directions /\ Request \in Directions /\ Reply # Request
    BY DEF OwnInv, IInv, Directions, Reply, Request
  <2>1. /\ Whole(Reply) /\ m.kind # "garbled" /\ buf' = Retrieved(Reply)
        /\ UNCHANGED <<net, seq_, pending>> /\ call_map_' = call_map_ \ {m.id}
        /\ IF m.kind # "ok" THEN Tell(m.id, Error)
           ELSE IF {m.id} \cap call_map_ # {} THEN Tell(m.id, m.of) ELSE UNCHANGED outcome
    BY <1>10 DEF OnResponse, Without, serverVars
  <2>2. m \in Messages(Reply) /\ buf'[Request] = buf[Request]
    BY <2>0, <2>1, RetrievedKeeps
  <2>3. Takes(Stream(Reply), m, Stream(Reply)') /\ Stream(Request)' = Stream(Request)
    <3>1. Stream(Request)' = Stream(Request)
      BY <2>1, <2>2 DEF Stream
    <3> QED
      BY <2>0, <2>1, <3>1, RetrievedTakes
  <2> HIDE DEF m
  <2>4. m.id \in Ids /\ (m.kind = "ok" => m.of \in Ids)
    <3>1. m \in [id : Ids, kind : {"ok"}, of : Ids] \cup [id : Ids, kind : {"invalid"}]
      BY <2>1, <2>2, MessageTypes
    <3> QED
      BY <3>1
  <2>5. CASE i # m.id
    <3>1. outcome'[i] = outcome[i]
      BY <1>0, <2>1, <2>5 DEF Tell
    <3> QED
      BY <1>3, <2>1, <3>1
  <2>6. CASE i = m.id
    <3> DEFINE S == Stream(Request)
               R == Stream(Reply)
               t == R'
    <3>1. Places(S, R, pending, context, seq_) /\ OfOwn(R) /\ seq_ \in Nat
      BY <1>0, NextHistory, MaxCallsAssumption DEF OwnInv, PlaceInv
    <3>2. /\ (UnderWay(i) <=> InPlace(S, R, pending, i))
          /\ (UnderWay(i)' <=> InPlace(S, t, pending, i))
      BY <2>1, <2>3 DEF UnderWay
    <3>3. Takes(R, m, t)
      BY <2>3
    <3> HIDE DEF S, R, t
    <3>4. UnderWay(i) /\ ~UnderWay(i)' /\ i <= seq_
      BY <2>1, <2>4, <2>6, <3>1, <3>2, <3>3, PlacesTaken
    <3>5. ~Told(i) /\ i \notin call_map_' /\ ~(i > seq_')
      BY <1>0, <2>1, <2>6, <3>4
    <3>6. CASE m.kind # "ok"
      <4>1. outcome'[i] = Append(outcome[i], 0) /\ 0 \in -1..MaxCalls /\ ~(0 > 0)
        BY <1>0, <2>1, <2>6, <3>6, MaxCallsAssumption DEF Tell, Error
      <4> QED
        BY <1>4, <3>5, <4>1
    <3>7. CASE m.kind = "ok" /\ i \in call_map_
      <4>1. m.of = i
        BY <2>6, <3>1, <3>3, <3>7 DEF Takes
      <4>2. outcome[i] = << >> /\ outcome'[i] = Append(outcome[i], i)
        BY <1>0, <2>1, <2>6, <3>7, <4>1 DEF Tell
      <4>3. outcome'[i] = <<i>>
        BY <4>2
      <4> QED
        BY <3>4, <3>5, <4>3
    <3>8. CASE m.kind = "ok" /\ i \notin call_map_
      <4>1. outcome' = outcome
        BY <2>1, <2>6, <3>8
      <4> QED
        BY <1>3, <3>5, <4>1
    <3> QED
      BY <3>6, <3>7, <3>8
  <2> QED
    BY <2>5, <2>6
<1>11. CASE Destroy
  <2>1. outcome' = outcome /\ call_map_' = {} /\ seq_' = seq_
    BY <1>11 DEF Destroy
  <2> QED
    BY <1>3, <2>1
<1> QED
  BY <1>5, <1>6, <1>7, <1>8, <1>9, <1>10, <1>11 DEF Next

\* In the beginning no call is anywhere.
LEMMA InitOwnInv == Init => OwnInv
<1> SUFFICES ASSUME Init PROVE OwnInv
  OBVIOUS
<1>1. Stream(Request) = << >> /\ Stream(Reply) = << >>
  <2>1. << >> \o << >> = << >>
    BY ConcatEmptySeq
  <2> QED
    BY <2>1 DEF Init, Stream
<1>2. Len(<< >>) = 0
  OBVIOUS
<1>3. (\A i : ~Has(<< >>, i) /\ Once(<< >>, i)) /\ OfOwn(<< >>)
  BY <1>2 DEF Has, Once, At, OfOwn
<1>4. PlaceInv
  BY <1>1, <1>3 DEF Init, PlaceInv, Places, InPlace
<1>5. AnswerInv
  BY DEF Init, AnswerInv, Told
<1>6. LoopInv
  BY DEF Init, LoopInv
<1> QED
  BY <1>4, <1>5, <1>6, InitIInv DEF OwnInv

\* A call answered OK is told nothing else, and got the answer to its own request; no
\* timer is left when the channel is destroyed.  Calls are made on the loop's thread
\* and, for the answers, services answer one request of a connection before the next.
THEOREM AnsweredOnceWithOwn == Spec => []OwnAnswerOnly
<1>1. OwnInv /\ [Next]_vars => OwnInv'
  <2> SUFFICES ASSUME OwnInv, [Next]_vars PROVE OwnInv'
    OBVIOUS
  <2>1. IInv'
    BY NextTypeOK, NextNetInv, NextCallInv DEF OwnInv, IInv
  <2>2. PlaceInv'
    BY NextHistory, NextPlaces DEF PlaceInv
  <2> QED
    BY <2>1, <2>2, NextLoopInv, NextAnswerInv DEF OwnInv
<1>2. OwnInv => OwnAnswerOnly
  <2> SUFFICES ASSUME OwnInv, ~threaded PROVE OwnAnswerOnly
    BY DEF OwnAnswerOnly
  <2>1. ~overlap => \A i \in Ids : (\E k \in DOMAIN outcome[i] : outcome[i][k] > 0)
                                      => outcome[i] = <<i>>
    BY DEF OwnInv, AnswerInv, Told
  <2>2. ~alive => \A i \in Ids : timer[i] # "set"
    BY DEF OwnInv, LoopInv
  <2> QED
    BY <2>1, <2>2 DEF OwnAnswerOnly
<1> QED
  BY <1>1, <1>2, InitOwnInv, PTL DEF Spec
=============================================================================
