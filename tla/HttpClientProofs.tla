--------------------------- MODULE HttpClientProofs ---------------------------
(***************************************************************************)
(* Proofs for HttpClient.  First what one ParseBuffer does: on any text it *)
(* ends unless it begins in kEnd; on a stream of messages that announce    *)
(* their bodies, read in pieces of any size, it ends inside the first of   *)
(* them or behind it.  Both directions of a connection are such streams as *)
(* long as framed holds, so the invariant then says of each parser which   *)
(* messages are still before it (Spells): no more are under way than       *)
(* callbacks wait, and whose they are.                                     *)
(***************************************************************************)
EXTENDS HttpClient, SequenceTheorems, WellFoundedInduction, TLAPS

\* What the two ends write, and of that what announces its body as it is.
Requested == {Request(r, k) : r \in Requests, k \in RequestKinds}
Replied == {Reply(r, k) : r \in Requests, k \in ReplyKinds} \cup {BadRequest(r) : r \in Requests}
Written(kind) == IF kind = "request" THEN Requested ELSE Replied
RequestMsgs == {m \in Requested : FramedRequest(m)}
ResponseMsgs == {m \in Replied : Framed(m)}
Msgs(kind) == IF kind = "request" THEN RequestMsgs ELSE ResponseMsgs
Kinds == {"request", "response"}

Byte == [t |-> "byte"]
Tokens == {Line(m) : m \in Requested \cup Replied} \cup {Header(n) : n \in Nat} \cup {NoColon, Blank, Byte}

\* The tokens of a message before its body, and the j-th token of all.
HeadLen(m) == 2 + (IF m.length # NoLength THEN 1 ELSE 0) + (IF m.valid THEN 0 ELSE 1)
MsgLen(m) == HeadLen(m) + m.body
TokenAt(m, j) ==
    IF j = 1 THEN Line(m)
    ELSE IF j = 2 /\ m.length # NoLength THEN Header(m.length)
    ELSE IF j < HeadLen(m) THEN NoColon
    ELSE IF j = HeadLen(m) THEN Blank ELSE Byte

\* The parser when it has taken c tokens of m, none of its body.
Parsed(m, c) ==
    [state |-> IF c = 0 THEN "kLine" ELSE IF c < HeadLen(m) THEN "kHeaders" ELSE "kBody",
     msg |-> IF c = 0 THEN NoMessage ELSE m,
     length |-> IF c >= 2 THEN m.length ELSE NoLength]

\* The fields of what is written.
LEMMA WrittenFields ==
  ASSUME NEW kind \in Kinds, NEW m \in Written(kind)
  PROVE  /\ m \in Requested \cup Replied /\ m.id \in Requests
         /\ m.body \in Nat /\ m.length \in Lengths /\ m.valid \in BOOLEAN
         /\ kind = "request" => m.post \in BOOLEAN
<1>1. CASE kind = "request"
  <2>1. m \in Requested
    BY <1>1 DEF Written
  <2>2. PICK r \in Requests, k \in RequestKinds : m = Request(r, k)
    BY <2>1 DEF Requested
  <2>3. k \in [post : BOOLEAN, close : BOOLEAN, body : Nat, length : Lengths]
    BY KindsAssumption
  <2>4. k.post \in BOOLEAN /\ k.body \in Nat /\ k.length \in Lengths
    BY <2>3, Zenon
  <2>5. m.id = r /\ (m.post = k.post) /\ m.body = k.body /\ m.length = k.length /\ (m.valid = TRUE)
    BY <2>2, Zenon DEF Request
  <2>6. m.valid \in BOOLEAN /\ m.post \in BOOLEAN
    BY <2>4, <2>5, Zenon
  <2> QED
    BY <2>1, <2>4, <2>5, <2>6, Zenon
<1>2. CASE kind = "response"
  <2>1. m \in Replied
    BY <1>2 DEF Written
  <2>2. CASE m \in {Reply(r, k) : r \in Requests, k \in ReplyKinds}
    <3>2. PICK r \in Requests, k \in ReplyKinds : m = Reply(r, k)
      BY <2>2
    <3>3. k \in [valid : BOOLEAN, close : BOOLEAN, body : Nat, length : Lengths]
      BY KindsAssumption
    <3>4. k.valid \in BOOLEAN /\ k.body \in Nat /\ k.length \in Lengths
      BY <3>3, Zenon
    <3>5. m.id = r /\ m.body = k.body /\ m.length = k.length /\ (m.valid = k.valid)
      BY <3>2, Zenon DEF Reply
    <3>6. m.valid \in BOOLEAN
      BY <3>4, <3>5, Zenon
    <3> QED
      BY <1>2, <2>1, <3>4, <3>5, <3>6, Zenon
  <2>3. CASE m \in {BadRequest(r) : r \in Requests}
    <3>2. PICK r \in Requests : m = BadRequest(r)
      BY <2>3
    <3>5. m.id = r /\ m.body = 0 /\ m.length = NoLength /\ (m.valid = TRUE)
      BY <3>2, Zenon DEF BadRequest
    <3>6. m.valid \in BOOLEAN
      BY <3>5, Zenon
    <3>7. m.body \in Nat /\ m.length \in Lengths
      BY <3>5 DEF Lengths
    <3> QED
      BY <1>2, <2>1, <3>5, <3>6, <3>7, Zenon
  <2> QED
    BY <2>1, <2>2, <2>3 DEF Replied
<1> QED
  BY <1>1, <1>2 DEF Kinds

\* Its lengths.
LEMMA WrittenLengths ==
  ASSUME NEW kind \in Kinds, NEW m \in Written(kind)
  PROVE  HeadLen(m) \in Nat /\ HeadLen(m) >= 2 /\ MsgLen(m) \in Nat
  BY WrittenFields DEF HeadLen, MsgLen

\* The fields of a message that announces its body, and its lengths.
LEMMA MsgFields ==
  ASSUME NEW kind \in Kinds, NEW m \in Msgs(kind)
  PROVE  /\ m \in Written(kind) /\ m.id \in Requests
         /\ m.body \in Nat /\ m.length \in Lengths /\ m.valid \in BOOLEAN
         /\ m.length = m.body \/ (m.length = NoLength /\ m.body = 0)
         /\ kind = "request" => m.post \in BOOLEAN /\ (m.post \/ m.body = 0)
         /\ HeadLen(m) \in Nat /\ HeadLen(m) >= 2 /\ MsgLen(m) \in Nat
<1>1. m \in Written(kind) /\ Framed(m) /\ (kind = "request" => FramedRequest(m))
  <2>1. CASE kind = "request"
    BY <2>1 DEF Msgs, Written, RequestMsgs, FramedRequest
  <2>2. CASE kind = "response"
    BY <2>2 DEF Msgs, Written, ResponseMsgs
  <2> QED
    BY <2>1, <2>2 DEF Kinds
<1>2. m.length = m.body \/ (m.length = NoLength /\ m.body = 0)
  BY <1>1 DEF Framed
<1>3. kind = "request" => (m.post \/ m.body = 0)
  BY <1>1, Zenon DEF FramedRequest
<1>4. /\ m.id \in Requests /\ m.body \in Nat /\ m.length \in Lengths /\ m.valid \in BOOLEAN
      /\ kind = "request" => m.post \in BOOLEAN
  BY <1>1, WrittenFields, Zenon
<1>5. HeadLen(m) \in Nat /\ HeadLen(m) >= 2 /\ MsgLen(m) \in Nat
  BY <1>1, WrittenLengths, Zenon
<1> QED
  BY <1>1, <1>2, <1>3, <1>4, <1>5, Zenon

\* A concatenation, entry by entry.
LEMMA Joined ==
  ASSUME NEW S, NEW u \in Seq(S), NEW v \in Seq(S)
  PROVE  /\ u \o v \in Seq(S)
         /\ Len(u) \in Nat /\ Len(v) \in Nat /\ Len(u \o v) = Len(u) + Len(v)
         /\ \A j \in 1..Len(u) : (u \o v)[j] = u[j]
         /\ \A j \in 1..Len(v) : (u \o v)[Len(u) + j] = v[j]
         /\ \A j \in Len(u) + 1..Len(u) + Len(v) :
               j - Len(u) \in 1..Len(v) /\ (u \o v)[j] = v[j - Len(u)]
<1>1. /\ u \o v \in Seq(S) /\ Len(u) \in Nat /\ Len(v) \in Nat /\ Len(u \o v) = Len(u) + Len(v)
  BY LenProperties, ConcatProperties
<1>2. \A j \in 1..Len(u) + Len(v) : (u \o v)[j] = IF j <= Len(u) THEN u[j] ELSE v[j - Len(u)]
  BY ConcatProperties
<1>3. \A j \in 1..Len(u) : (u \o v)[j] = u[j]
  BY <1>1, <1>2
<1>4. \A j \in Len(u) + 1..Len(u) + Len(v) :
               j - Len(u) \in 1..Len(v) /\ (u \o v)[j] = v[j - Len(u)]
  BY <1>1, <1>2
<1>5. \A j \in 1..Len(v) : (u \o v)[Len(u) + j] = v[j]
  <2> TAKE j \in 1..Len(v)
  <2>1. Len(u) + j \in Len(u) + 1..Len(u) + Len(v) /\ Len(u) + j - Len(u) = j
    BY <1>1
  <2> QED BY <1>4, <2>1
<1> QED
  BY <1>1, <1>3, <1>4, <1>5

\* w is u, of length k, and behind it v, of length l.
IsJoin(w, S, u, k, v, l) ==
    /\ w \in Seq(S) /\ Len(w) = k + l
    /\ \A j \in 1..k : w[j] = u[j]
    /\ \A j \in k + 1..k + l : j - k \in 1..l /\ w[j] = v[j - k]

\* A concatenation again, with its lengths named.
LEMMA JoinedParts ==
  ASSUME NEW S, NEW u, u \in Seq(S), NEW v, v \in Seq(S),
         NEW k, k \in Nat, Len(u) = k, NEW l, l \in Nat, Len(v) = l
  PROVE  IsJoin(u \o v, S, u, k, v, l)
<1> DEFINE w == u \o v
<1>1. w \in Seq(S) /\ Len(w) = k + l
  BY ConcatProperties
<1>2. \A j \in 1..k : w[j] = u[j]
  BY Joined
<1>3. \A j \in k + 1..k + l : j - k \in 1..l /\ w[j] = v[j - k]
  BY Joined
<1> HIDE DEF w
<1>4. IsJoin(w, S, u, k, v, l)
  BY <1>1, <1>2, <1>3 DEF IsJoin
<1> QED
  BY <1>4 DEF w

\* What Message writes, token by token.
LEMMA MessageShape ==
  ASSUME NEW kind \in Kinds, NEW m \in Written(kind)
  PROVE  /\ Message(m) \in Seq(Tokens)
         /\ Len(Message(m)) = MsgLen(m)
         /\ \A j \in 1..MsgLen(m) : Message(m)[j] = TokenAt(m, j)
<1>1. /\ m.body \in Nat /\ m.length \in Lengths /\ m \in Requested \cup Replied
      /\ m.valid \in BOOLEAN
  BY WrittenFields
<1> DEFINE A == IF m.length = NoLength THEN <<>> ELSE <<Header(m.length)>>
           B == IF m.valid THEN <<>> ELSE <<NoColon>>
           a == IF m.length # NoLength THEN 1 ELSE 0
           d == IF m.valid THEN 0 ELSE 1
           L == <<Line(m)>>
           E == Bytes(m.body)
<1>2. L \in Seq(Tokens) /\ Len(L) = 1 /\ L[1] = Line(m)
  BY <1>1 DEF Tokens
<1>3. A \in Seq(Tokens) /\ Len(A) = a /\ \A j \in 1..a : A[j] = Header(m.length)
  <2>1. CASE m.length # NoLength
    <3>1. m.length \in Nat
      BY <1>1, <2>1 DEF Lengths
    <3>2. Header(m.length) \in Tokens
      BY <3>1 DEF Tokens
    <3> QED BY <2>1, <3>2
  <2>2. CASE m.length = NoLength
    BY <2>2
  <2> QED BY <2>1, <2>2
<1>4. B \in Seq(Tokens) /\ Len(B) = d /\ \A j \in 1..d : B[j] = NoColon
  <2>0. NoColon \in Tokens
    BY DEF Tokens
  <2>1. CASE m.valid
    BY <2>1
  <2>2. CASE ~m.valid
    BY <2>0, <2>2
  <2> QED BY <2>1, <2>2
<1>5. <<Blank>> \in Seq(Tokens) /\ Len(<<Blank>>) = 1 /\ <<Blank>>[1] = Blank
  BY DEF Tokens
<1>6. E \in Seq(Tokens) /\ Len(E) = m.body /\ \A j \in 1..m.body : E[j] = Byte
  <2>1. Byte \in Tokens
    BY DEF Tokens
  <2>2. E = [i \in 1..m.body |-> Byte]
    BY DEF Bytes, Byte
  <2> QED BY <1>1, <2>1, <2>2
<1>7. a \in Nat /\ d \in Nat /\ HeadLen(m) = 2 + a + d /\ a <= 1 /\ d <= 1 /\ (a = 1 <=> m.length # NoLength)
  BY DEF HeadLen
<1>8. Message(m) = (((L \o A) \o B) \o <<Blank>>) \o E
  BY DEF Message
<1> HIDE DEF A, B, a, d, L, E
<1> DEFINE F == L \o A
           G == F \o B
           H == G \o <<Blank>>
<1>9. /\ F \in Seq(Tokens) /\ Len(F) = 1 + a
      /\ F[1] = Line(m) /\ \A j \in 2..1 + a : F[j] = Header(m.length)
  <2>1. L \in Seq(Tokens) /\ A \in Seq(Tokens) /\ Len(L) = 1 /\ Len(A) = a /\ 1 \in Nat /\ a \in Nat
    BY <1>2, <1>3, <1>7
  <2>2. IsJoin(F, Tokens, L, 1, A, a)
    BY <2>1, JoinedParts, Zenon
  <2> HIDE DEF F
  <2>3. /\ F \in Seq(Tokens) /\ Len(F) = 1 + a /\ (\A j \in 1..1 : F[j] = L[j])
        /\ \A j \in 1 + 1..1 + a : j - 1 \in 1..a /\ F[j] = A[j - 1]
    BY <2>2 DEF IsJoin
  <2>4. \A j \in 2..1 + a : F[j] = Header(m.length)
    BY <1>3, <1>7, <2>3
  <2> QED
    BY <1>2, <2>3, <2>4
<1> HIDE DEF F
<1>10. /\ G \in Seq(Tokens) /\ Len(G) = 1 + a + d
       /\ G[1] = Line(m) /\ \A j \in 2..1 + a : G[j] = Header(m.length)
       /\ \A j \in 2 + a..1 + a + d : G[j] = NoColon
  <2>1. F \in Seq(Tokens) /\ B \in Seq(Tokens) /\ Len(F) = 1 + a /\ Len(B) = d /\ 1 + a \in Nat /\ d \in Nat
    BY <1>4, <1>7, <1>9
  <2>2. IsJoin(G, Tokens, F, 1 + a, B, d)
    BY <2>1, JoinedParts, Zenon
  <2> HIDE DEF G
  <2>3. /\ G \in Seq(Tokens) /\ Len(G) = 1 + a + d /\ (\A j \in 1..1 + a : G[j] = F[j])
        /\ \A j \in (1 + a) + 1..(1 + a) + d : j - (1 + a) \in 1..d /\ G[j] = B[j - (1 + a)]
    BY <2>2 DEF IsJoin
  <2>4. G[1] = Line(m) /\ \A j \in 2..1 + a : G[j] = Header(m.length)
    BY <1>7, <1>9, <2>3
  <2>5. \A j \in 2 + a..1 + a + d : G[j] = NoColon
    BY <1>4, <1>7, <2>3
  <2> QED
    BY <2>3, <2>4, <2>5
<1> HIDE DEF G
<1>11. /\ H \in Seq(Tokens) /\ Len(H) = 2 + a + d
       /\ H[1] = Line(m) /\ \A j \in 2..1 + a : H[j] = Header(m.length)
       /\ \A j \in 2 + a..1 + a + d : H[j] = NoColon
       /\ H[2 + a + d] = Blank
  <2>1. /\ G \in Seq(Tokens) /\ <<Blank>> \in Seq(Tokens) /\ Len(G) = 1 + a + d /\ Len(<<Blank>>) = 1
        /\ 1 + a + d \in Nat /\ 1 \in Nat
    BY <1>5, <1>7, <1>10
  <2>2. IsJoin(H, Tokens, G, 1 + a + d, <<Blank>>, 1)
    BY <2>1, JoinedParts, Zenon
  <2> HIDE DEF H
  <2>3. /\ H \in Seq(Tokens) /\ Len(H) = 1 + a + d + 1 /\ (\A j \in 1..1 + a + d : H[j] = G[j])
        /\ \A j \in (1 + a + d) + 1..(1 + a + d) + 1 :
              j - (1 + a + d) \in 1..1 /\ H[j] = <<Blank>>[j - (1 + a + d)]
    BY <2>2 DEF IsJoin
  <2>4. H[1] = Line(m) /\ \A j \in 2..1 + a : H[j] = Header(m.length)
    BY <1>7, <1>10, <2>3
  <2>5. \A j \in 2 + a..1 + a + d : H[j] = NoColon
    BY <1>7, <1>10, <2>3
  <2>6. H[2 + a + d] = Blank
    <3>1. 2 + a + d \in (1 + a + d) + 1..(1 + a + d) + 1 /\ 2 + a + d - (1 + a + d) = 1
      BY <1>7
    <3> QED
      BY <1>5, <2>3, <3>1
  <2>7. Len(H) = 2 + a + d
    BY <1>7, <2>3
  <2> QED
    BY <2>3, <2>4, <2>5, <2>6, <2>7
<1> HIDE DEF H
<1>12. Message(m) = H \o E
  BY <1>8 DEF F, G, H
<1>13. /\ H \o E \in Seq(Tokens) /\ Len(H \o E) = 2 + a + d + m.body
       /\ \A j \in 1..2 + a + d : (H \o E)[j] = H[j]
       /\ \A j \in 3 + a + d..2 + a + d + m.body : (H \o E)[j] = Byte
  <2> DEFINE K == H \o E
  <2>1. /\ H \in Seq(Tokens) /\ E \in Seq(Tokens) /\ Len(H) = 2 + a + d /\ Len(E) = m.body
        /\ 2 + a + d \in Nat /\ m.body \in Nat
    BY <1>1, <1>6, <1>7, <1>11
  <2>2. IsJoin(K, Tokens, H, 2 + a + d, E, m.body)
    BY <2>1, JoinedParts, Zenon
  <2> HIDE DEF K
  <2>3. /\ K \in Seq(Tokens) /\ Len(K) = 2 + a + d + m.body /\ (\A j \in 1..2 + a + d : K[j] = H[j])
        /\ \A j \in (2 + a + d) + 1..(2 + a + d) + m.body :
              j - (2 + a + d) \in 1..m.body /\ K[j] = E[j - (2 + a + d)]
    BY <2>2 DEF IsJoin
  <2>4. \A j \in 3 + a + d..2 + a + d + m.body : K[j] = Byte
    BY <1>6, <1>7, <2>1, <2>3
  <2> QED
    BY <2>3, <2>4 DEF K
<1>14. MsgLen(m) = 2 + a + d + m.body
  BY <1>7 DEF MsgLen
<1>15. ASSUME NEW j \in 1..MsgLen(m) PROVE Message(m)[j] = TokenAt(m, j)
  <2>1. CASE j = 1
    BY <2>1, <1>7, <1>11, <1>12, <1>13 DEF TokenAt
  <2>2. CASE j \in 2..1 + a
    BY <2>2, <1>7, <1>11, <1>12, <1>13 DEF TokenAt
  <2>3. CASE j \in 2 + a..1 + a + d
    BY <2>3, <1>7, <1>11, <1>12, <1>13 DEF TokenAt
  <2>4. CASE j = 2 + a + d
    BY <2>4, <1>7, <1>11, <1>12, <1>13 DEF TokenAt
  <2>5. CASE j \in 3 + a + d..2 + a + d + m.body
    <3>1. j \in Nat /\ j > HeadLen(m) /\ j > 2
      BY <1>1, <1>7, <2>5
    <3>2. TokenAt(m, j) = Byte
      BY <1>7, <3>1 DEF TokenAt
    <3> QED
      BY <1>12, <1>13, <2>5, <3>2
  <2> QED
    BY <1>14, <1>7, <1>1, <2>1, <2>2, <2>3, <2>4, <2>5
<1> QED
  BY <1>12, <1>13, <1>14, <1>15

\* What is left of txt when d tokens were taken.
Drop(txt, d) == SubSeq(txt, d + 1, Len(txt))

\* Dropping, entry by entry and in two steps.
LEMMA DropProperties ==
  ASSUME NEW S, NEW txt \in Seq(S), NEW d \in 0..Len(txt)
  PROVE  /\ Drop(txt, d) \in Seq(S) /\ Len(Drop(txt, d)) = Len(txt) - d
         /\ \A i \in 1..Len(txt) - d : Drop(txt, d)[i] = txt[d + i]
<1>1. Len(txt) \in Nat /\ d \in Nat
  BY LenProperties
<1>2. \A i \in d + 1..Len(txt) : txt[i] \in S
  BY <1>1, ElementOfSeq
<1>3. /\ SubSeq(txt, d + 1, Len(txt)) \in Seq(S)
      /\ Len(SubSeq(txt, d + 1, Len(txt))) = IF d + 1 <= Len(txt) THEN Len(txt) - (d + 1) + 1 ELSE 0
      /\ \A i \in 1..Len(txt) - (d + 1) + 1 : SubSeq(txt, d + 1, Len(txt))[i] = txt[(d + 1) + i - 1]
  BY <1>1, <1>2, SubSeqProperties
<1>4. \A i \in 1..Len(txt) - d : (d + 1) + i - 1 = d + i /\ i \in 1..Len(txt) - (d + 1) + 1
  BY <1>1
<1>5. \A i \in 1..Len(txt) - d : Drop(txt, d)[i] = txt[d + i]
  BY <1>3, <1>4 DEF Drop
<1> QED
  BY <1>1, <1>3, <1>5 DEF Drop

\* Two drops are one.
LEMMA DropDrop ==
  ASSUME NEW S, NEW txt \in Seq(S), NEW d \in 0..Len(txt), NEW e \in 0..Len(txt) - d
  PROVE  Drop(Drop(txt, d), e) = Drop(txt, d + e)
<1> DEFINE u == Drop(txt, d)
           v == Drop(u, e)
           w == Drop(txt, d + e)
<1>1. Len(txt) \in Nat /\ d \in Nat /\ e \in Nat /\ d + e \in 0..Len(txt)
  BY LenProperties
<1>2. u \in Seq(S) /\ Len(u) = Len(txt) - d /\ \A i \in 1..Len(txt) - d : u[i] = txt[d + i]
  BY DropProperties
<1>3. w \in Seq(S) /\ Len(w) = Len(txt) - (d + e) /\ \A i \in 1..Len(txt) - (d + e) : w[i] = txt[d + e + i]
  BY <1>1, DropProperties
<1> HIDE DEF u, w
<1>4. e \in 0..Len(u)
  BY <1>1, <1>2
<1>5. v \in Seq(S) /\ Len(v) = Len(u) - e /\ \A i \in 1..Len(u) - e : v[i] = u[e + i]
  <2>1. u \in Seq(S)
    BY <1>2
  <2> QED
    BY <1>4, <2>1, DropProperties
<1> HIDE DEF v
<1>6. Len(v) = Len(w)
  BY <1>1, <1>2, <1>3, <1>5
<1>7. ASSUME NEW i \in 1..Len(v) PROVE v[i] = w[i]
  <2>1. i \in 1..Len(u) - e /\ e + i \in 1..Len(txt) - d /\ i \in 1..Len(txt) - (d + e)
    BY <1>1, <1>2, <1>5
  <2>2. v[i] = txt[d + (e + i)] /\ w[i] = txt[d + e + i]
    BY <1>2, <1>3, <1>5, <2>1
  <2>3. d + (e + i) = d + e + i
    BY <1>1, <2>1
  <2> QED
    BY <2>2, <2>3
<1>8. v = w
  BY <1>3, <1>5, <1>6, <1>7, SeqEqual
<1> QED
  BY <1>8 DEF u, v, w

\* A drop of one is a tail.
LEMMA DropTail ==
  ASSUME NEW S, NEW txt \in Seq(S), txt # <<>>
  PROVE  Tail(txt) = Drop(txt, 1) /\ 1 \in 0..Len(txt)
<1>1. Len(txt) \in Nat /\ Len(txt) >= 1
  BY EmptySeq, LenProperties
<1>2. /\ Tail(txt) \in Seq(S) /\ Len(Tail(txt)) = Len(txt) - 1
      /\ \A i \in 1..Len(Tail(txt)) : Tail(txt)[i] = txt[i + 1]
  BY HeadTailProperties
<1>3. Drop(txt, 1) \in Seq(S) /\ Len(Drop(txt, 1)) = Len(txt) - 1 /\ \A i \in 1..Len(txt) - 1 : Drop(txt, 1)[i] = txt[1 + i]
  BY <1>1, DropProperties
<1>4. \A i \in 1..Len(Tail(txt)) : Tail(txt)[i] = Drop(txt, 1)[i]
  BY <1>1, <1>2, <1>3
<1>5. Tail(txt) = Drop(txt, 1)
  BY <1>2, <1>3, <1>4, SeqEqual
<1> QED
  BY <1>1, <1>5

\* The first line ends where the text begins, if that is no byte of a body.
LEMMA LineFirst ==
  ASSUME NEW S, NEW txt \in Seq(S), txt # <<>>, txt[1].t # "byte"
  PROVE  LineEnds(txt) # {} /\ LineEnd(txt) = 1 /\ Behind(txt, 1) = Tail(txt)
<1>1. Len(txt) \in Nat /\ Len(txt) >= 1
  BY EmptySeq, LenProperties
<1>2. 1 \in LineEnds(txt) /\ \A j \in LineEnds(txt) : j \in Nat /\ 1 <= j
  BY <1>1 DEF LineEnds
<1>3. LineEnd(txt) \in LineEnds(txt) /\ \A j \in LineEnds(txt) : LineEnd(txt) <= j
  BY <1>2 DEF LineEnd
<1>4. LineEnd(txt) = 1
  BY <1>2, <1>3
<1>5. Behind(txt, 1) = Tail(txt)
  BY DropTail DEF Behind, Drop
<1> QED
  BY <1>2, <1>4, <1>5

-----------------------------------------------------------------------------
(* One turn of the loop.                                                   *)

\* The state of the loop, and what it is when the parser has taken c tokens of m and txt is left.
Rest(p, txt, ok, flag) == [p |-> p, buf |-> txt, ok |-> ok, flag |-> flag]
At(m, c, txt) == Rest(Parsed(m, c), txt, TRUE, TRUE)

\* txt goes on where c tokens of m were taken.
Continues(m, c, txt) ==
    \A i \in 1..Len(txt) : c + i <= MsgLen(m) => txt[i] = TokenAt(m, c + i)

\* The loop has ended inside m, with c tokens of it taken.
StoppedIn(m, c, txt, r) ==
    /\ ~Running(r) /\ r.p = Parsed(m, c) /\ r.buf = txt
    /\ ~r.ok => c > 0

\* The loop has ended behind m.
StoppedBehind(m, c, txt, r) ==
    /\ ~Running(r) /\ r.ok /\ r.p.state = "kEnd" /\ r.p.msg = m
    /\ MsgLen(m) - c \in 0..Len(txt)
    /\ r.buf = SubSeq(txt, MsgLen(m) - c + 1, Len(txt))

Fields(state, msg, length) == [state |-> state, msg |-> msg, length |-> length]

\* Assignments to the fields of the loop's state, one by one.
LEMMA SetBuf ==
  ASSUME NEW state, NEW msg, NEW length, NEW txt, NEW ok, NEW flag, NEW x
  PROVE  [Rest(Fields(state, msg, length), txt, ok, flag) EXCEPT !.buf = x]
           = Rest(Fields(state, msg, length), x, ok, flag)
  BY DEF Rest

\* The same for another field.
LEMMA SetOk ==
  ASSUME NEW state, NEW msg, NEW length, NEW txt, NEW ok, NEW flag, NEW x
  PROVE  [Rest(Fields(state, msg, length), txt, ok, flag) EXCEPT !.ok = x]
           = Rest(Fields(state, msg, length), txt, x, flag)
  BY DEF Rest

\* The same for another field.
LEMMA SetFlag ==
  ASSUME NEW state, NEW msg, NEW length, NEW txt, NEW ok, NEW flag, NEW x
  PROVE  [Rest(Fields(state, msg, length), txt, ok, flag) EXCEPT !.flag = x]
           = Rest(Fields(state, msg, length), txt, ok, x)
  BY DEF Rest

\* The same for another field.
LEMMA SetState ==
  ASSUME NEW state, NEW msg, NEW length, NEW txt, NEW ok, NEW flag, NEW x
  PROVE  [Rest(Fields(state, msg, length), txt, ok, flag) EXCEPT !.p.state = x]
           = Rest(Fields(x, msg, length), txt, ok, flag)
  BY DEF Rest, Fields

\* The same for another field.
LEMMA SetParser ==
  ASSUME NEW p, NEW txt, NEW ok, NEW flag, NEW x
  PROVE  [Rest(p, txt, ok, flag) EXCEPT !.p = x] = Rest(x, txt, ok, flag)
  BY DEF Rest

WithLine(p, state, msg) == [[p EXCEPT !.msg = msg] EXCEPT !.state = state]

\* And for the message and the state of a parser.
LEMMA SetLine ==
  ASSUME NEW state, NEW msg, NEW length, NEW x, NEW y
  PROVE  WithLine(Fields(state, msg, length), x, y) = Fields(x, y, length)
<1>1. [Fields(state, msg, length) EXCEPT !.msg = y] = Fields(state, y, length)
  BY DEF Fields
<1>2. [Fields(state, y, length) EXCEPT !.state = x] = Fields(x, y, length)
  BY DEF Fields
<1> QED
  BY <1>1, <1>2, Zenon DEF WithLine

\* The same for another field.
LEMMA SetLength ==
  ASSUME NEW state, NEW msg, NEW length, NEW txt, NEW ok, NEW flag, NEW x
  PROVE  [Rest(Fields(state, msg, length), txt, ok, flag) EXCEPT !.p.length = x]
           = Rest(Fields(state, msg, x), txt, ok, flag)
  BY DEF Rest, Fields

\* Each turn takes one token of the message, or ends the loop inside or behind it.
LEMMA TurnStep ==
  ASSUME NEW kind \in Kinds, NEW m \in Msgs(kind), NEW c \in 0..HeadLen(m),
         NEW txt \in Seq(Tokens), Continues(m, c, txt)
  PROVE  LET r == Turn(kind, At(m, c, txt)) IN
         \/ txt # <<>> /\ c < HeadLen(m) /\ r = At(m, c + 1, Tail(txt))
         \/ txt # <<>> /\ c < HeadLen(m) /\ StoppedIn(m, c + 1, Tail(txt), r)
         \/ StoppedIn(m, c, txt, r)
         \/ StoppedBehind(m, c, txt, r)
<1> DEFINE s == At(m, c, txt)
           r == Turn(kind, s)
<1>1. /\ m.body \in Nat /\ HeadLen(m) \in Nat /\ HeadLen(m) >= 2 /\ MsgLen(m) = HeadLen(m) + m.body
      /\ Len(txt) \in Nat /\ c \in Nat
  <2>1. m.body \in Nat /\ HeadLen(m) \in Nat /\ HeadLen(m) >= 2
    BY MsgFields
  <2>2. MsgLen(m) = HeadLen(m) + m.body
    BY DEF MsgLen
  <2> QED
    BY <2>1, <2>2, LenProperties
<1>2. s.p = Parsed(m, c) /\ s.buf = txt /\ (s.ok = TRUE) /\ (s.flag = TRUE)
  BY DEF At, Rest
<1>3. /\ Parsed(m, c).state = IF c = 0 THEN "kLine" ELSE IF c < HeadLen(m) THEN "kHeaders" ELSE "kBody"
      /\ Parsed(m, c).msg = IF c = 0 THEN NoMessage ELSE m
      /\ Parsed(m, c).length = IF c >= 2 THEN m.length ELSE NoLength
  BY DEF Parsed
<1>p. Parsed(m, c) = Fields(Parsed(m, c).state, Parsed(m, c).msg, Parsed(m, c).length)
  BY DEF Parsed, Fields
<1> DEFINE st == Parsed(m, c).state
           mg == Parsed(m, c).msg
           ln == Parsed(m, c).length
<1>s. s = Rest(Fields(st, mg, ln), txt, TRUE, TRUE)
  BY <1>p, Zenon DEF At
<1>tt. PICK tt : tt = TRUE
  OBVIOUS
<1>ff. PICK ff : ff = FALSE
  OBVIOUS
<1>o. s = Rest(Fields(st, mg, ln), txt, tt, tt)
  BY <1>s, <1>tt, Zenon
<1>4. ASSUME txt # <<>>, c < HeadLen(m)
      PROVE  /\ txt[1] = TokenAt(m, c + 1)
             /\ LineEnds(txt) # {} /\ LineEnd(txt) = 1 /\ Behind(txt, 1) = Tail(txt)
  <2>1. 1 \in 1..Len(txt)
    BY <1>4, <1>1
  <2>2. txt[1] = TokenAt(m, c + 1)
    BY <1>1, <1>4, <2>1 DEF Continues
  <2>3. TokenAt(m, c + 1).t # "byte"
    BY <1>1, <1>4 DEF TokenAt, Line, Header, NoColon, Blank
  <2>4. LineEnds(txt) # {} /\ LineEnd(txt) = 1 /\ Behind(txt, 1) = Tail(txt)
    BY <1>4, <2>2, <2>3, LineFirst
  <2> QED
    BY <2>2, <2>4
<1>5. ASSUME txt = <<>>, c < HeadLen(m)
      PROVE  StoppedIn(m, c, txt, r)
  <2>0. LineEnds(s.buf) = {}
    BY <1>2, <1>5 DEF LineEnds
  <2>1. r = [s EXCEPT !.flag = FALSE]
    <3>1. s.p.state = "kLine" \/ s.p.state = "kHeaders"
      BY <1>1, <1>2, <1>3, <1>5
    <3> HIDE DEF s
    <3> QED
      BY <2>0, <3>1 DEF Turn, LineTurn, HeaderTurn
  <2>2. r = Rest(Parsed(m, c), txt, TRUE, FALSE)
    <3> HIDE DEF r, s, st, mg, ln
    <3>1. [s EXCEPT !.flag = FALSE] = Rest(Fields(st, mg, ln), txt, TRUE, FALSE)
      <4>1. [s EXCEPT !.flag = ff] = Rest(Fields(st, mg, ln), txt, tt, ff)
        BY <1>o, SetFlag
      <4>2. [s EXCEPT !.flag = FALSE] = [s EXCEPT !.flag = ff]
        BY <1>ff
      <4> QED
        BY <1>tt, <1>ff, <4>1, <4>2, Zenon
    <3> QED
      BY <1>p, <2>1, <3>1, Zenon DEF st, mg, ln
  <2> HIDE DEF r
  <2> QED
    BY <2>2 DEF StoppedIn, Running, Rest
<1>6. ASSUME txt # <<>>, c = 0
      PROVE  r = At(m, c + 1, Tail(txt))
  <2>1. txt[1] = Line(m) /\ LineEnds(txt) # {} /\ LineEnd(txt) = 1 /\ Behind(txt, 1) = Tail(txt)
    BY <1>1, <1>4, <1>6 DEF TokenAt
  <2>2. ParseLine(kind, s.buf, 1)
    BY <1>2, <2>1 DEF ParseLine, ParseRequestLine, ParseResponseLine, Line
  <2>4. s.buf[1].msg = m
    BY <1>2, <2>1 DEF Line
  <2>t. PICK tl : tl = Tail(txt)
    OBVIOUS
  <2>3. r = [s EXCEPT !.p = [[s.p EXCEPT !.msg = m] EXCEPT !.state = "kHeaders"], !.buf = tl]
    <3>1. Behind(s.buf, 1) = tl
      BY <1>2, <2>1, <2>t
    <3>2. s.p.state = "kLine"
      BY <1>2, <1>3, <1>6
    <3>3. LineEnds(s.buf) # {} /\ LineEnd(s.buf) = 1
      BY <1>2, <2>1
    <3>4. r = LineTurn(kind, s)
      <4> HIDE DEF s
      <4> QED BY <3>2 DEF Turn
    <3> HIDE DEF s, r
    <3> QED
      BY <2>2, <2>4, <3>1, <3>3, <3>4 DEF LineTurn
  <2>5. r = Rest(Fields("kHeaders", m, ln), tl, TRUE, TRUE)
    <3> HIDE DEF r, s, st, mg, ln
    <3>p. PICK q : q = [[s.p EXCEPT !.msg = m] EXCEPT !.state = "kHeaders"]
      OBVIOUS
    <3>0. q = Fields("kHeaders", m, ln)
      <4>1. s.p = Fields(st, mg, ln)
        BY <1>o DEF Rest
      <4>2. q = WithLine(Fields(st, mg, ln), "kHeaders", m)
        BY <3>p, <4>1, Zenon DEF WithLine
      <4>3. \A a, b, d, x, y : WithLine(Fields(a, b, d), x, y) = Fields(x, y, d)
        BY SetLine
      <4> QED
        BY <4>2, <4>3
    <3>1. [s EXCEPT !.p = q] = Rest(Fields("kHeaders", m, ln), txt, tt, tt)
      <4>1. [s EXCEPT !.p = q] = Rest(q, txt, tt, tt)
        BY <1>o, SetParser
      <4> QED
        BY <3>0, <4>1
    <3>2. [s EXCEPT !.p = q, !.buf = tl] = Rest(Fields("kHeaders", m, ln), tl, tt, tt)
      <4> DEFINE v == [s EXCEPT !.p = q]
      <4>1. [v EXCEPT !.buf = tl] = Rest(Fields("kHeaders", m, ln), tl, tt, tt)
        <5> HIDE DEF v
        <5>1. v = Rest(Fields("kHeaders", m, ln), txt, tt, tt)
          BY <3>1 DEF v
        <5> QED BY <5>1, SetBuf
      <4>2. [s EXCEPT !.p = q, !.buf = tl] = [v EXCEPT !.buf = tl]
        OBVIOUS
      <4> QED
        BY <4>1, <4>2
    <3>3. r = [s EXCEPT !.p = q, !.buf = tl]
      BY <2>3, <3>p, Zenon
    <3> QED
      BY <1>tt, <3>2, <3>3, Zenon
  <2>6. Parsed(m, 1) = Fields("kHeaders", m, ln)
    BY <1>1, <1>6 DEF Parsed, Fields
  <2> HIDE DEF r, ln
  <2>7. c + 1 = 1
    BY <1>6
  <2> QED
    BY <2>5, <2>6, <2>7, <2>t, Zenon DEF At
<1>7. ASSUME txt # <<>>, c \in 1..HeadLen(m) - 1
      PROVE  \/ r = At(m, c + 1, Tail(txt))
             \/ StoppedIn(m, c + 1, Tail(txt), r)
  <2>t. PICK tl : tl = Tail(txt)
    OBVIOUS
  <2> DEFINE h == txt[1]
             n == [s EXCEPT !.buf = tl]
  <2>1. /\ h = TokenAt(m, c + 1) /\ LineEnds(txt) # {} /\ LineEnd(txt) = 1 /\ Behind(txt, 1) = tl
    BY <1>1, <1>4, <1>7, <2>t
  <2>2. r = CASE h.t = "blank"  -> [n EXCEPT !.p.state = "kBody"]
              [] h.t = "length" -> [n EXCEPT !.p.length = h.length]
              [] OTHER          -> [n EXCEPT !.ok = FALSE]
    <3>1. LineEnds(s.buf) # {} /\ LineEnd(s.buf) = 1 /\ Behind(s.buf, 1) = tl /\ s.buf[1] = h
      BY <1>2, <2>1
    <3>2. s.p.state = "kHeaders"
      BY <1>1, <1>2, <1>3, <1>7
    <3>3. r = HeaderTurn(s)
      <4> HIDE DEF s
      <4> QED BY <3>2 DEF Turn
    <3> HIDE DEF s, r, h
    <3> QED
      BY <3>1, <3>3 DEF HeaderTurn
  <2>3. n = Rest(Fields(st, mg, ln), tl, tt, tt)
    <3> HIDE DEF s, st, mg, ln
    <3> QED
      BY <1>o, SetBuf
  <2> HIDE DEF r, n
  <2>f. st = "kHeaders" /\ mg = m
    BY <1>1, <1>3, <1>7
  <2>4. CASE c = 1 /\ m.length # NoLength
    <3>1. h.t = "length" /\ h.length = m.length
      BY <2>1, <2>4, <1>1 DEF TokenAt, Header
    <3>2. r = [n EXCEPT !.p.length = m.length]
      BY <2>2, <3>1
    <3>3. r = Rest(Fields(st, mg, m.length), tl, TRUE, TRUE)
      <4> HIDE DEF st, mg, ln
      <4>1. [n EXCEPT !.p.length = m.length] = Rest(Fields(st, mg, m.length), tl, TRUE, TRUE)
        <5>1. [n EXCEPT !.p.length = m.length] = Rest(Fields(st, mg, m.length), tl, tt, tt)
          BY <2>3, SetLength
        <5> QED
          BY <1>tt, <1>ff, <5>1, Zenon
      <4> QED
        BY <3>2, <4>1, Zenon
    <3>4. HeadLen(m) >= 3
      BY <1>1, <2>4 DEF HeadLen
    <3>5. Parsed(m, c + 1) = Fields("kHeaders", m, m.length)
      BY <1>1, <2>4, <3>4 DEF Parsed, Fields
    <3> HIDE DEF st, mg
    <3> QED
      BY <2>f, <2>t, <3>3, <3>5, Zenon DEF At
  <2>5. CASE ~(c = 1 /\ m.length # NoLength) /\ c + 1 < HeadLen(m)
    <3>1. h.t = "nocolon"
      BY <2>1, <2>5, <1>1, <1>7 DEF TokenAt, NoColon
    <3>2. r = [n EXCEPT !.ok = FALSE]
      BY <2>2, <3>1
    <3>3. r = Rest(Fields(st, mg, ln), tl, FALSE, TRUE)
      <4> HIDE DEF st, mg, ln
      <4>1. [n EXCEPT !.ok = FALSE] = Rest(Fields(st, mg, ln), tl, FALSE, TRUE)
        <5>1. [n EXCEPT !.ok = ff] = Rest(Fields(st, mg, ln), tl, ff, tt)
          BY <2>3, SetOk
        <5>2. [n EXCEPT !.ok = FALSE] = [n EXCEPT !.ok = ff]
          BY <1>ff
        <5> QED
          BY <1>tt, <1>ff, <5>1, <5>2, Zenon
      <4> QED
        BY <3>2, <4>1, Zenon
    <3>4. Parsed(m, c + 1) = Parsed(m, c)
      BY <1>1, <1>7, <2>5 DEF Parsed
    <3>5. r = Rest(Parsed(m, c + 1), tl, FALSE, TRUE)
      BY <1>p, <3>3, <3>4, Zenon
    <3>6. c + 1 > 0
      BY <1>7
    <3> QED
      BY <2>t, <3>5, <3>6 DEF StoppedIn, Running, Rest
  <2>6. CASE ~(c = 1 /\ m.length # NoLength) /\ c + 1 = HeadLen(m)
    <3>1. h.t = "blank"
      BY <2>1, <2>6, <1>1, <1>7 DEF TokenAt, Blank
    <3>2. r = [n EXCEPT !.p.state = "kBody"]
      BY <2>2, <3>1
    <3>3. r = Rest(Fields("kBody", mg, ln), tl, TRUE, TRUE)
      <4> HIDE DEF st, mg, ln
      <4>1. [n EXCEPT !.p.state = "kBody"] = Rest(Fields("kBody", mg, ln), tl, TRUE, TRUE)
        <5>1. [n EXCEPT !.p.state = "kBody"] = Rest(Fields("kBody", mg, ln), tl, tt, tt)
          BY <2>3, SetState
        <5> QED
          BY <1>tt, <1>ff, <5>1, Zenon
      <4> QED
        BY <3>2, <4>1, Zenon
    <3>4. ln = IF c + 1 >= 2 THEN m.length ELSE NoLength
      BY <1>1, <1>3, <1>7, <2>6 DEF HeadLen
    <3>5. Parsed(m, c + 1) = Fields("kBody", m, ln)
      <4> HIDE DEF ln
      <4> QED
        BY <1>1, <1>7, <2>6, <3>4 DEF Parsed, Fields
    <3> HIDE DEF st, mg, ln
    <3> QED
      BY <2>f, <2>t, <3>3, <3>5, Zenon DEF At
  <2> QED
    BY <1>1, <1>7, <2>4, <2>5, <2>6
<1>8. ASSUME c = HeadLen(m)
      PROVE  StoppedIn(m, c, txt, r) \/ StoppedBehind(m, c, txt, r)
  <2>1. s.p.state = "kBody" /\ s.p.msg = m
    BY <1>1, <1>2, <1>3, <1>8
  <2>2. s.p.length = m.length
    BY <1>1, <1>2, <1>3, <1>8
  <2>b. PICK bl : bl = BodyLength(kind, s.p)
    OBVIOUS
  <2>3. (bl = NoLength /\ m.body = 0) \/ (bl # NoLength /\ bl = m.body)
    <3>0. /\ m.length = m.body \/ (m.length = NoLength /\ m.body = 0)
          /\ m.body # NoLength
      BY <1>1, MsgFields DEF NoLength
    <3>1. CASE kind = "request"
      <4>1. m.post \in BOOLEAN /\ (m.post \/ m.body = 0)
        BY <3>1, MsgFields
      <4>2. bl = (IF m.post THEN m.length ELSE NoLength)
        BY <2>b, <2>1, <2>2, <3>1 DEF BodyLength, ParseRequestBody
      <4> QED
        BY <3>0, <4>1, <4>2
    <3>2. CASE kind = "response"
      BY <2>b, <2>2, <3>0, <3>2 DEF BodyLength, ParseResponseBody
    <3> QED
      BY <3>1, <3>2 DEF Kinds
  <2>4. r = IF bl = NoLength THEN [s EXCEPT !.p.state = "kEnd", !.flag = FALSE]
            ELSE IF Len(txt) = bl
            THEN [s EXCEPT !.p.state = "kEnd", !.buf = <<>>, !.flag = FALSE]
            ELSE [s EXCEPT !.ok = FALSE, !.flag = FALSE]
    <3>1. r = BodyTurn(kind, s)
      <4> HIDE DEF s
      <4> QED BY <2>1 DEF Turn
    <3> HIDE DEF s, r
    <3> QED
      BY <1>2, <2>b, <3>1 DEF BodyTurn
  <2>f. mg = m
    BY <1>1, <1>3, <1>8
  <2> HIDE DEF r
  <2>5. CASE bl = NoLength /\ m.body = 0
    <3>1. r = Rest(Fields("kEnd", mg, ln), txt, TRUE, FALSE)
      <4>1. r = [s EXCEPT !.p.state = "kEnd", !.flag = FALSE]
        BY <2>4, <2>5
      <4> HIDE DEF s, st, mg, ln
      <4>2. [s EXCEPT !.p.state = "kEnd", !.flag = FALSE] = Rest(Fields("kEnd", mg, ln), txt, TRUE, FALSE)
        <5>1. [s EXCEPT !.p.state = "kEnd", !.flag = ff] = Rest(Fields("kEnd", mg, ln), txt, tt, ff)
          <6> DEFINE u == [s EXCEPT !.p.state = "kEnd"]
          <6>1. u = Rest(Fields("kEnd", mg, ln), txt, tt, tt)
            BY <1>o, SetState
          <6>2. [u EXCEPT !.flag = ff] = Rest(Fields("kEnd", mg, ln), txt, tt, ff)
            <7> HIDE DEF u
            <7> QED BY <6>1, SetFlag
          <6>3. [s EXCEPT !.p.state = "kEnd", !.flag = ff] = [u EXCEPT !.flag = ff]
            OBVIOUS
          <6> QED
            BY <6>2, <6>3
        <5>2. [s EXCEPT !.p.state = "kEnd", !.flag = FALSE] = [s EXCEPT !.p.state = "kEnd", !.flag = ff]
          BY <1>ff
        <5> QED
          BY <1>tt, <1>ff, <5>1, <5>2, Zenon
      <4> QED
        BY <4>1, <4>2, Zenon
    <3>2. MsgLen(m) - c = 0
      BY <1>1, <1>8, <2>5
    <3>3. SubSeq(txt, 0 + 1, Len(txt)) = txt
      BY <1>1
    <3> HIDE DEF mg, ln
    <3> QED
      <4>1. r.p.state = "kEnd" /\ r.p.msg = mg /\ r.buf = txt
        BY <3>1 DEF Rest, Fields
      <4>2. (r.ok = TRUE) /\ (r.flag = FALSE)
        BY <3>1, Zenon DEF Rest
      <4>3. r.ok /\ ~Running(r)
        BY <4>2, Zenon DEF Running
      <4>4. MsgLen(m) - c \in 0..Len(txt) /\ SubSeq(txt, MsgLen(m) - c + 1, Len(txt)) = txt
        BY <1>1, <3>2, <3>3
      <4> QED
        BY <2>f, <4>1, <4>3, <4>4, Zenon DEF StoppedBehind
  <2>6. CASE bl # NoLength /\ bl = m.body /\ Len(txt) = m.body
    <3>1. r = Rest(Fields("kEnd", mg, ln), <<>>, TRUE, FALSE)
      <4>1. r = [s EXCEPT !.p.state = "kEnd", !.buf = <<>>, !.flag = FALSE]
        BY <2>4, <2>6
      <4> HIDE DEF s, st, mg, ln
      <4>2. [s EXCEPT !.p.state = "kEnd", !.buf = <<>>, !.flag = FALSE]
              = Rest(Fields("kEnd", mg, ln), <<>>, TRUE, FALSE)
        <5>1. [s EXCEPT !.p.state = "kEnd", !.buf = <<>>, !.flag = ff] = Rest(Fields("kEnd", mg, ln), <<>>, tt, ff)
          <6> DEFINE u == [s EXCEPT !.p.state = "kEnd"]
                     v == [u EXCEPT !.buf = <<>>]
          <6>1. u = Rest(Fields("kEnd", mg, ln), txt, tt, tt)
            BY <1>o, SetState
          <6>2. v = Rest(Fields("kEnd", mg, ln), <<>>, tt, tt)
            <7> HIDE DEF u
            <7> QED BY <6>1, SetBuf
          <6>3. [v EXCEPT !.flag = ff] = Rest(Fields("kEnd", mg, ln), <<>>, tt, ff)
            <7> HIDE DEF v
            <7> QED BY <6>2, SetFlag
          <6>4. [s EXCEPT !.p.state = "kEnd", !.buf = <<>>, !.flag = ff] = [v EXCEPT !.flag = ff]
            OBVIOUS
          <6> QED
            BY <6>3, <6>4
        <5>2. [s EXCEPT !.p.state = "kEnd", !.buf = <<>>, !.flag = FALSE] = [s EXCEPT !.p.state = "kEnd", !.buf = <<>>, !.flag = ff]
          BY <1>ff
        <5> QED
          BY <1>tt, <1>ff, <5>1, <5>2, Zenon
      <4> QED
        BY <4>1, <4>2, Zenon
    <3>2. MsgLen(m) - c = Len(txt)
      BY <1>1, <1>8, <2>6
    <3>3. SubSeq(txt, Len(txt) + 1, Len(txt)) = <<>>
      BY <1>1
    <3> HIDE DEF mg, ln
    <3> QED
      BY <1>1, <2>f, <3>1, <3>2, <3>3 DEF StoppedBehind, Running, Rest, Fields
  <2>7. CASE bl # NoLength /\ bl = m.body /\ Len(txt) # m.body
    <3>1. r = Rest(Fields(st, mg, ln), txt, FALSE, FALSE)
      <4>1. r = [s EXCEPT !.ok = FALSE, !.flag = FALSE]
        BY <2>4, <2>7
      <4> HIDE DEF s, st, mg, ln
      <4>2. [s EXCEPT !.ok = FALSE, !.flag = FALSE] = Rest(Fields(st, mg, ln), txt, FALSE, FALSE)
        <5>1. [s EXCEPT !.ok = ff, !.flag = ff] = Rest(Fields(st, mg, ln), txt, ff, ff)
          <6> DEFINE u == [s EXCEPT !.ok = ff]
          <6>1. u = Rest(Fields(st, mg, ln), txt, ff, tt)
            BY <1>o, SetOk
          <6>2. [u EXCEPT !.flag = ff] = Rest(Fields(st, mg, ln), txt, ff, ff)
            <7> HIDE DEF u
            <7> QED BY <6>1, SetFlag
          <6>3. [s EXCEPT !.ok = ff, !.flag = ff] = [u EXCEPT !.flag = ff]
            OBVIOUS
          <6> QED
            BY <6>2, <6>3
        <5>2. [s EXCEPT !.ok = FALSE, !.flag = FALSE] = [s EXCEPT !.ok = ff, !.flag = ff]
          BY <1>ff
        <5> QED
          BY <1>tt, <1>ff, <5>1, <5>2, Zenon
      <4> QED
        BY <4>1, <4>2, Zenon
    <3>2. r = Rest(Parsed(m, c), txt, FALSE, FALSE)
      BY <1>p, <3>1, Zenon
    <3>3. c > 0
      BY <1>1, <1>8
    <3> QED
      BY <3>2, <3>3 DEF StoppedIn, Running, Rest
  <2> QED
    BY <2>3, <2>5, <2>6, <2>7
<1> HIDE DEF r, s
<1>9. c < HeadLen(m) \/ c = HeadLen(m)
  BY <1>1
<1>10. (c < HeadLen(m)) => c = 0 \/ c \in 1..HeadLen(m) - 1
  BY <1>1
<1>11. r = Turn(kind, At(m, c, txt))
  BY DEF r, s
<1> QED
  BY <1>5, <1>6, <1>7, <1>8, <1>9, <1>10, <1>11, Zenon

-----------------------------------------------------------------------------
(* The loop of ParseBuffer.                                                *)

\* A non-empty set of natural numbers has a least element.
LEMMA Least ==
  ASSUME NEW T, T \subseteq Nat, T # {}
  PROVE  \E m \in T : \A n \in T : m <= n
<1> DEFINE R == {ss \in Nat \X Nat : ss[1] < ss[2]}
<1>1. IsWellFoundedOn(R, Nat)
  BY NatLessThanWellFounded, Zenon DEF OpToRel
<1>2. PICK m \in T : \A n \in T : ~(<<n, m>> \in R)
  <2> HIDE DEF R
  <2> QED BY <1>1, WFMin, Zenon
<1>3. \A n \in T : m <= n
  <2> TAKE n \in T
  <2>1. n \in Nat /\ m \in Nat
    OBVIOUS
  <2>2. <<n, m>> \in R <=> n < m
    BY <2>1
  <2> QED BY <1>2, <2>1, <2>2
<1> QED BY <1>3

\* Induction up to N, on the set of the numbers a statement holds of.
LEMMA UpTo ==
  ASSUME NEW T, NEW N \in Nat, 0 \in T, \A k \in 0..(N - 1) : k \in T => k + 1 \in T
  PROVE  0..N \subseteq T
<1> SUFFICES ASSUME (0..N) \ T # {} PROVE FALSE
  OBVIOUS
<1> DEFINE U == (0..N) \ T
<1>1. U \subseteq Nat /\ U # {}
  OBVIOUS
<1>2. PICK m \in U : \A n \in U : m <= n
  BY <1>1, Least
<1>3. m # 0 /\ m - 1 \in 0..(N - 1)
  BY <1>1, <1>2
<1>4. m - 1 \in T
  BY <1>2, <1>3
<1> QED BY <1>2, <1>3, <1>4

\* f gives the states of the loop after 0..n turns.
NextTurn(kind, s) == IF Running(s) THEN Turn(kind, s) ELSE s
IsRun(f, n, kind, a) == f = [k \in 0..n |-> IF k = 0 THEN a ELSE NextTurn(kind, f[k - 1])]

\* There are such states, which is what makes the recursion of ParseBuffer a definition.
LEMMA RunExists ==
  ASSUME NEW kind, NEW a, NEW N \in Nat
  PROVE  \E f : IsRun(f, N, kind, a)
<1> DEFINE T == {n \in 0..N : \E f : IsRun(f, n, kind, a)}
<1>1. 0 \in T
  <2> DEFINE f == [k \in 0..0 |-> a]
  <2>1. f = [k \in 0..0 |-> IF k = 0 THEN a ELSE NextTurn(kind, f[k - 1])]
    OBVIOUS
  <2>2. IsRun(f, 0, kind, a)
    BY <2>1 DEF IsRun
  <2> QED
    BY <2>2
<1>2. ASSUME NEW n \in 0..(N - 1), n \in T PROVE n + 1 \in T
  <2>1. PICK f : IsRun(f, n, kind, a)
    BY <1>2
  <2>2. \A k \in 0..n : f[k] = IF k = 0 THEN a ELSE NextTurn(kind, f[k - 1])
    BY <2>1 DEF IsRun
  <2> DEFINE g == [k \in 0..(n + 1) |-> IF k <= n THEN f[k] ELSE NextTurn(kind, f[n])]
  <2>3. \A k \in 0..(n + 1) : g[k] = IF k = 0 THEN a ELSE NextTurn(kind, g[k - 1])
    <3> TAKE k \in 0..(n + 1)
    <3>1. CASE k <= n
      <4>1. g[k] = f[k] /\ (k # 0 => g[k - 1] = f[k - 1])
        BY <3>1
      <4> QED BY <2>2, <3>1, <4>1
    <3>2. CASE k = n + 1
      <4>1. g[k] = NextTurn(kind, f[n]) /\ g[k - 1] = f[n] /\ k # 0
        BY <3>2
      <4> QED BY <4>1
    <3> QED BY <3>1, <3>2
  <2>4. IsRun(g, n + 1, kind, a)
    <3> DEFINE h == [k \in 0..(n + 1) |-> IF k = 0 THEN a ELSE NextTurn(kind, g[k - 1])]
    <3>1. \A k \in 0..(n + 1) : g[k] = h[k]
      BY <2>3
    <3>2. g = h
      BY <3>1
    <3> QED BY <3>2 DEF IsRun
  <2> HIDE DEF g
  <2> QED
    BY <2>4
<1> HIDE DEF T
<1>3. 0..N \subseteq T
  BY <1>1, <1>2, UpTo
<1> QED
  BY <1>3 DEF T

\* ParseBuffer returns the last of those states.
LEMMA ParseRun ==
  ASSUME NEW kind, NEW p, NEW txt, Len(txt) \in Nat
  PROVE  \E f : /\ IsRun(f, Turns(txt), kind, Rest(p, txt, TRUE, TRUE))
                /\ ParseBuffer(kind, p, txt) = f[Turns(txt)]
<1> DEFINE a == [p |-> p, buf |-> txt, ok |-> TRUE, flag |-> TRUE]
           N == Turns(txt)
           D(f) == f = [k \in 0..N |-> IF k = 0 THEN a
                          ELSE CHOOSE r \in {IF Running(s) THEN Turn(kind, s) ELSE s : s \in {f[k - 1]}} : TRUE]
           after == CHOOSE f : D(f)
<1>1. ParseBuffer(kind, p, txt) = after[N]
  BY Zenon DEF ParseBuffer
<1>2. \A x : (CHOOSE r \in {IF Running(s) THEN Turn(kind, s) ELSE s : s \in {x}} : TRUE) = NextTurn(kind, x)
  BY DEF NextTurn
<1>3. \A f : D(f) <=> IsRun(f, N, kind, a)
  BY <1>2 DEF IsRun
<1>4. N \in Nat
  BY DEF Turns
<1>5. \E f : D(f)
  <2>1. PICK f : IsRun(f, N, kind, a)
    BY <1>4, RunExists, Zenon
  <2> QED
    BY <1>3, <2>1, Zenon
<1>6. D(after)
  BY <1>5
<1>7. IsRun(after, N, kind, a)
  BY <1>3, <1>6
<1>8. a = Rest(p, txt, TRUE, TRUE)
  BY Zenon DEF Rest
<1> HIDE DEF after, a
<1> QED
  BY <1>1, <1>7, <1>8, Zenon

\* ParseBuffer has ended inside m, or behind it.
Ended(m, c, txt, r) ==
    \/ \E d \in 0..Len(txt) : c + d <= HeadLen(m) /\ StoppedIn(m, c + d, Drop(txt, d), r)
    \/ StoppedBehind(m, c, txt, r)

\* A state in which the loop ends from a later place is one for the earlier place too.
LEMMA EndedEarlier ==
  ASSUME NEW m, NEW c \in Nat, NEW S, NEW txt \in Seq(S), NEW k \in 0..Len(txt), MsgLen(m) \in Nat,
         NEW r, Ended(m, c + k, Drop(txt, k), r)
  PROVE  Ended(m, c, txt, r)
<1>1. Len(txt) \in Nat /\ k \in Nat /\ Drop(txt, k) \in Seq(S) /\ Len(Drop(txt, k)) = Len(txt) - k
  BY LenProperties, DropProperties
<1>2. ASSUME NEW d \in 0..Len(Drop(txt, k)), c + k + d <= HeadLen(m),
             StoppedIn(m, c + k + d, Drop(Drop(txt, k), d), r)
      PROVE  Ended(m, c, txt, r)
  <2>1. k + d \in 0..Len(txt) /\ d \in 0..Len(txt) - k /\ c + k + d = c + (k + d)
    BY <1>1
  <2>2. Drop(Drop(txt, k), d) = Drop(txt, k + d)
    BY <2>1, DropDrop
  <2>3. StoppedIn(m, c + (k + d), Drop(txt, k + d), r)
    BY <1>2, <2>1, <2>2
  <2>4. c + (k + d) <= HeadLen(m)
    BY <1>2, <2>1
  <2> QED
    BY <2>1, <2>3, <2>4 DEF Ended
<1>3. ASSUME StoppedBehind(m, c + k, Drop(txt, k), r)
      PROVE  Ended(m, c, txt, r)
  <2>1. MsgLen(m) - (c + k) \in 0..Len(txt) - k
    BY <1>1, <1>3 DEF StoppedBehind
  <2>2. /\ MsgLen(m) - c \in 0..Len(txt)
        /\ k + (MsgLen(m) - (c + k)) = MsgLen(m) - c
    BY <1>1, <2>1
  <2>3. r.buf = Drop(Drop(txt, k), MsgLen(m) - (c + k))
    BY <1>3 DEF StoppedBehind, Drop
  <2>4. r.buf = Drop(txt, MsgLen(m) - c)
    BY <2>1, <2>2, <2>3, DropDrop
  <2>5. StoppedBehind(m, c, txt, r)
    BY <1>3, <2>2, <2>4 DEF StoppedBehind, Drop
  <2> QED
    BY <2>5 DEF Ended
<1> QED
  BY <1>2, <1>3 DEF Ended

\* On the text of a message ParseBuffer ends: inside the message, when the rest of it is
\* still to come or it is refused, or behind it.
LEMMA ParseEnds ==
  ASSUME NEW kind \in Kinds, NEW m \in Msgs(kind), NEW c \in 0..HeadLen(m),
         NEW txt \in Seq(Tokens), Continues(m, c, txt)
  PROVE  Ended(m, c, txt, ParseBuffer(kind, Parsed(m, c), txt))
<1> DEFINE N == Turns(txt)
<1>1. /\ m.body \in Nat /\ HeadLen(m) \in Nat /\ MsgLen(m) \in Nat /\ Len(txt) \in Nat /\ c \in Nat
  <2>1. m.body \in Nat /\ HeadLen(m) \in Nat /\ MsgLen(m) \in Nat
    BY MsgFields
  <2> QED
    BY <2>1, LenProperties
<1>2. PICK f : /\ IsRun(f, N, kind, At(m, c, txt))
               /\ ParseBuffer(kind, Parsed(m, c), txt) = f[N]
  BY <1>1, ParseRun, Zenon DEF At
<1>3. N \in Nat /\ N > Len(txt)
  BY <1>1 DEF Turns
<1>4. \A k \in 0..N : f[k] = IF k = 0 THEN At(m, c, txt) ELSE NextTurn(kind, f[k - 1])
  BY <1>2 DEF IsRun
<1> DEFINE OnTheWay(k) == /\ k <= Len(txt) /\ c + k <= HeadLen(m)
                          /\ f[k] = At(m, c + k, Drop(txt, k))
           T == {k \in 0..N : Ended(m, c, txt, f[k]) \/ OnTheWay(k)}
<1>5. 0 \in T
  <2>1. Drop(txt, 0) = txt
    BY <1>1 DEF Drop
  <2>2. f[0] = At(m, c + 0, Drop(txt, 0))
    <3>1. f[0] = At(m, c, txt) /\ c + 0 = c
      BY <1>1, <1>3, <1>4
    <3> QED
      BY <2>1, <3>1
  <2>3. OnTheWay(0)
    BY <1>1, <2>2
  <2> HIDE DEF OnTheWay
  <2> QED
    BY <1>3, <2>3
<1>6. ASSUME NEW k \in 0..(N - 1), k \in T PROVE k + 1 \in T
  <2>1. k + 1 \in 0..N /\ f[k + 1] = NextTurn(kind, f[k])
    BY <1>3, <1>4
  <2>2. CASE Ended(m, c, txt, f[k])
    <3>1. ~Running(f[k])
      BY <2>2 DEF Ended, StoppedIn, StoppedBehind
    <3>2. f[k + 1] = f[k]
      BY <2>1, <3>1 DEF NextTurn
    <3> QED
      BY <2>1, <2>2, <3>2
  <2>3. CASE OnTheWay(k)
    <3>0. k \in 0..Len(txt) /\ c + k \in 0..HeadLen(m) /\ f[k] = At(m, c + k, Drop(txt, k))
      BY <1>1, <2>3
    <3> HIDE DEF OnTheWay
    <3>1. Drop(txt, k) \in Seq(Tokens) /\ Len(Drop(txt, k)) = Len(txt) - k
          /\ \A i \in 1..Len(txt) - k : Drop(txt, k)[i] = txt[k + i]
      BY <3>0, DropProperties
    <3>2. Continues(m, c + k, Drop(txt, k))
      <4> SUFFICES ASSUME NEW i \in 1..Len(Drop(txt, k)), c + k + i <= MsgLen(m)
                   PROVE  Drop(txt, k)[i] = TokenAt(m, c + k + i)
        BY DEF Continues
      <4>1. k + i \in 1..Len(txt) /\ c + (k + i) = c + k + i /\ Drop(txt, k)[i] = txt[k + i]
        BY <1>1, <3>0, <3>1
      <4>2. txt[k + i] = TokenAt(m, c + (k + i))
        BY <4>1 DEF Continues
      <4> QED
        BY <4>1, <4>2
    <3>3. f[k + 1] = Turn(kind, At(m, c + k, Drop(txt, k)))
      <4>1. Running(At(m, c + k, Drop(txt, k)))
        BY DEF Running, At, Rest
      <4> QED
        BY <2>1, <3>0, <4>1, Zenon DEF NextTurn
    <3> DEFINE u == Drop(txt, k)
    <3>4. \/ u # <<>> /\ c + k < HeadLen(m) /\ f[k + 1] = At(m, c + k + 1, Tail(u))
          \/ u # <<>> /\ c + k < HeadLen(m) /\ StoppedIn(m, c + k + 1, Tail(u), f[k + 1])
          \/ StoppedIn(m, c + k, u, f[k + 1])
          \/ StoppedBehind(m, c + k, u, f[k + 1])
      <4> HIDE DEF u
      <4>1. u \in Seq(Tokens) /\ Continues(m, c + k, u) /\ f[k + 1] = Turn(kind, At(m, c + k, u))
        BY <3>1, <3>2, <3>3 DEF u
      <4> QED
        BY <3>0, <4>1, TurnStep, Zenon
    <3>5. ASSUME u # <<>>, c + k < HeadLen(m), f[k + 1] = At(m, c + k + 1, Tail(u))
          PROVE  k + 1 \in T
      <4>1. Tail(u) = Drop(u, 1) /\ 1 \in 0..Len(u)
        BY <3>1, <3>5, DropTail
      <4>2. 1 \in 0..Len(txt) - k
        BY <3>1, <4>1
      <4>3. Tail(u) = Drop(txt, k + 1)
        BY <3>0, <4>1, <4>2, DropDrop
      <4>4. c + k + 1 = c + (k + 1) /\ k + 1 <= Len(txt) /\ c + (k + 1) <= HeadLen(m)
        BY <1>1, <3>0, <3>5, <4>2
      <4>5. OnTheWay(k + 1)
        BY <3>5, <4>3, <4>4, Zenon DEF OnTheWay
      <4> QED
        BY <2>1, <4>5
    <3>6. ASSUME Ended(m, c + k, u, f[k + 1]) PROVE k + 1 \in T
      <4>1. Ended(m, c, txt, f[k + 1])
        BY <1>1, <3>0, <3>6, EndedEarlier
      <4> QED
        BY <2>1, <4>1
    <3>7. ASSUME u # <<>>, c + k < HeadLen(m), StoppedIn(m, c + k + 1, Tail(u), f[k + 1])
          PROVE  Ended(m, c + k, u, f[k + 1])
      <4>1. Tail(u) = Drop(u, 1) /\ 1 \in 0..Len(u)
        BY <3>1, <3>7, DropTail
      <4>2. c + k + 1 <= HeadLen(m)
        BY <1>1, <3>0, <3>7
      <4> HIDE DEF u
      <4> QED
        BY <3>7, <4>1, <4>2 DEF Ended
    <3>8. ASSUME StoppedIn(m, c + k, u, f[k + 1])
          PROVE  Ended(m, c + k, u, f[k + 1])
      <4>1. u \in Seq(Tokens) /\ Len(u) \in Nat
        BY <3>1, LenProperties
      <4> HIDE DEF u
      <4>2. Drop(u, 0) = u /\ 0 \in 0..Len(u) /\ c + k + 0 = c + k /\ c + k <= HeadLen(m)
        BY <1>1, <3>0, <4>1 DEF Drop
      <4> QED
        BY <3>8, <4>2 DEF Ended
    <3>9. ASSUME StoppedBehind(m, c + k, u, f[k + 1])
          PROVE  Ended(m, c + k, u, f[k + 1])
      BY <3>9 DEF Ended
    <3> HIDE DEF u, T
    <3> QED
      BY <3>4, <3>5, <3>6, <3>7, <3>8, <3>9, Zenon
  <2> HIDE DEF OnTheWay
  <2> QED
    BY <1>6, <2>2, <2>3
<1>7. N \in T
  <2> HIDE DEF T
  <2>1. 0..N \subseteq T
    BY <1>3, <1>5, <1>6, UpTo
  <2> QED
    BY <1>3, <2>1
<1>8. Ended(m, c, txt, f[N])
  BY <1>3, <1>7
<1> QED
  BY <1>2, <1>8

-----------------------------------------------------------------------------
(* ParseBuffer on any text: the loop ends, but in kEnd.                    *)

ParserStates == {"kLine", "kHeaders", "kBody", "kEnd"}
IsParser(p) == p.state \in ParserStates /\ p = Fields(p.state, p.msg, p.length)
GoesOn(s, p, txt) == s = Rest(p, txt, TRUE, TRUE)

\* r is a state of the loop; if it goes on, it does with less than n tokens.
LeftBelow(r, n) ==
    /\ IsParser(r.p) /\ r.buf \in Seq(Tokens)
    /\ Running(r) => GoesOn(r, r.p, r.buf) /\ r.p.state # "kEnd" /\ Len(r.buf) < n

\* A parser, with its fields named.
LEMMA FieldsParser ==
  ASSUME NEW state \in ParserStates, NEW msg, NEW length
  PROVE  IsParser(Fields(state, msg, length))
  BY DEF IsParser, Fields

\* It is one when the loop stops.
LEMMA RestStops ==
  ASSUME NEW p, IsParser(p), NEW txt \in Seq(Tokens), NEW ok, NEW flag, NEW n,
         ok = FALSE \/ flag = FALSE
  PROVE  LeftBelow(Rest(p, txt, ok, flag), n)
<1>p. PICK r : r = Rest(p, txt, ok, flag)
  OBVIOUS
<1>1. r.p = p /\ r.buf = txt /\ (r.ok = ok) /\ (r.flag = flag)
  BY <1>p, Zenon DEF Rest
<1>2. ~Running(r)
  BY <1>1, Zenon DEF Running
<1>3. LeftBelow(r, n)
  BY <1>1, <1>2, Zenon DEF LeftBelow
<1> QED
  BY <1>p, <1>3, Zenon

\* And one when it goes on with less.
LEMMA RestGoes ==
  ASSUME NEW p, IsParser(p), p.state # "kEnd", NEW txt \in Seq(Tokens), NEW n, Len(txt) < n
  PROVE  LeftBelow(Rest(p, txt, TRUE, TRUE), n)
<1>p. PICK r : r = Rest(p, txt, TRUE, TRUE)
  OBVIOUS
<1>1. r.p = p /\ r.buf = txt
  BY <1>p, Zenon DEF Rest
<1>2. GoesOn(r, r.p, r.buf)
  BY <1>p, <1>1, Zenon DEF GoesOn
<1>3. LeftBelow(r, n)
  BY <1>1, <1>2, Zenon DEF LeftBelow
<1> QED
  BY <1>p, <1>3, Zenon

\* The end of the first line is in the text, and behind it is less.
LEMMA LineIn ==
  ASSUME NEW txt \in Seq(Tokens), LineEnds(txt) # {}
  PROVE  LineEnd(txt) \in 1..Len(txt) /\ Behind(txt, LineEnd(txt)) \in Seq(Tokens)
         /\ Len(Behind(txt, LineEnd(txt))) < Len(txt)
<1>1. Len(txt) \in Nat /\ LineEnds(txt) \subseteq 1..Len(txt) /\ LineEnds(txt) \subseteq Nat
  BY LenProperties DEF LineEnds
<1>2. \E i \in LineEnds(txt) : \A j \in LineEnds(txt) : i <= j
  BY <1>1, Least
<1>3. LineEnd(txt) \in LineEnds(txt)
  BY <1>2 DEF LineEnd
<1>p. PICK e : e = LineEnd(txt)
  OBVIOUS
<1>4. e \in 1..Len(txt) /\ e \in 0..Len(txt)
  BY <1>p, <1>1, <1>3
<1>5. Drop(txt, e) \in Seq(Tokens) /\ Len(Drop(txt, e)) = Len(txt) - e
  BY <1>4, DropProperties
<1>6. Behind(txt, e) = Drop(txt, e)
  BY DEF Behind, Drop
<1>7. Len(Behind(txt, e)) < Len(txt)
  BY <1>1, <1>4, <1>5, <1>6
<1> QED
  BY <1>p, <1>4, <1>5, <1>6, <1>7

\* A turn in kLine or kHeaders takes a line, or the loop ends; in kBody it ends.
LEMMA TurnTakes ==
  ASSUME NEW kind, NEW state \in ParserStates, state # "kEnd", NEW msg, NEW length,
         NEW txt \in Seq(Tokens), NEW s, GoesOn(s, Fields(state, msg, length), txt)
  PROVE  LeftBelow(Turn(kind, s), Len(txt))
<1>p. PICK r, tt, ff : r = Turn(kind, s) /\ (tt = TRUE) /\ (ff = FALSE)
  BY Zenon
<1> SUFFICES LeftBelow(r, Len(txt))
  BY <1>p, Zenon
<1>q. PICK e, u : e = LineEnd(txt) /\ u = Behind(txt, e)
  OBVIOUS
<1>1. s = Rest(Fields(state, msg, length), txt, tt, tt)
  BY <1>p, Zenon DEF GoesOn
<1>2. s.p = Fields(state, msg, length) /\ s.buf = txt /\ s.p.state = state /\ s.p.msg = msg /\ s.p.length = length
  BY <1>1 DEF Rest, Fields
<1>3. \A p, v, ok, flag : IsParser(p) /\ v \in Seq(Tokens) /\ (ok = ff \/ flag = ff)
        => LeftBelow(Rest(p, v, ok, flag), Len(txt))
  BY <1>p, RestStops, Zenon
<1>4. \A p, v : IsParser(p) /\ p.state # "kEnd" /\ v \in Seq(Tokens) /\ Len(v) < Len(txt)
        => LeftBelow(Rest(p, v, tt, tt), Len(txt))
  BY <1>p, RestGoes, Zenon
<1>f. \A st, mg, ln : st \in ParserStates
        => IsParser(Fields(st, mg, ln)) /\ Fields(st, mg, ln).state = st
  BY FieldsParser DEF Fields
<1>5. "kLine" \in ParserStates /\ "kHeaders" \in ParserStates /\ "kBody" \in ParserStates /\ "kEnd" \in ParserStates
  BY DEF ParserStates
<1>6. [s EXCEPT !.flag = ff] = Rest(Fields(state, msg, length), txt, tt, ff)
  BY <1>1, SetFlag
<1>7. [s EXCEPT !.ok = ff, !.flag = ff] = Rest(Fields(state, msg, length), txt, ff, ff)
  <2> DEFINE a == [s EXCEPT !.ok = ff]
  <2>1. a = Rest(Fields(state, msg, length), txt, ff, tt)
    BY <1>1, SetOk
  <2>2. [s EXCEPT !.ok = ff, !.flag = ff] = [a EXCEPT !.flag = ff]
    OBVIOUS
  <2> HIDE DEF a
  <2>3. [a EXCEPT !.flag = ff] = Rest(Fields(state, msg, length), txt, ff, ff)
    BY <2>1, SetFlag
  <2> QED
    BY <2>2, <2>3
<1>8. CASE state # "kBody" /\ LineEnds(txt) = {}
  <2>1. state = "kLine" \/ state = "kHeaders"
    BY <1>8 DEF ParserStates
  <2>2. Turn(kind, s) = [s EXCEPT !.flag = FALSE]
    BY <1>2, <1>8, <2>1 DEF Turn, LineTurn, HeaderTurn
  <2>3. r = Rest(Fields(state, msg, length), txt, tt, ff)
    BY <1>p, <1>6, <2>2, Zenon
  <2>3a. IsParser(Fields(state, msg, length)) /\ Fields(state, msg, length).state = state /\ txt \in Seq(Tokens)
    BY <1>f, <1>5
  <2>3ab. LeftBelow(Rest(Fields(state, msg, length), txt, tt, ff), Len(txt))
    BY <1>3, <2>3a, Zenon
  <2> QED
    BY <2>3, <2>3ab, Zenon
<1>l. ASSUME LineEnds(txt) # {} PROVE u \in Seq(Tokens) /\ Len(u) < Len(txt)
  BY <1>q, <1>l, LineIn
<1>9. CASE state = "kLine" /\ LineEnds(txt) # {}
  <2>p. PICK mg : mg = txt[e].msg
    OBVIOUS
  <2>q. PICK p0, p1 : p0 = [s.p EXCEPT !.msg = mg] /\ p1 = [p0 EXCEPT !.state = "kHeaders"]
    OBVIOUS
  <2>1. p0 = Fields(state, mg, length) /\ p1 = Fields("kHeaders", mg, length)
    BY <1>2, <2>q DEF Fields
  <2>2. Turn(kind, s) = (IF ParseLine(kind, txt, e)
                         THEN [s EXCEPT !.p = p1, !.buf = u]
                         ELSE [s EXCEPT !.p = p0, !.ok = FALSE, !.flag = FALSE])
    <3>1. Turn(kind, s) = LineTurn(kind, s)
      BY <1>2, <1>9 DEF Turn
    <3> QED
      BY <1>2, <1>9, <1>q, <2>p, <2>q, <3>1 DEF LineTurn
  <2>3. [s EXCEPT !.p = p1, !.buf = u] = Rest(Fields("kHeaders", mg, length), u, tt, tt)
    <3> DEFINE a == [s EXCEPT !.p = p1]
    <3>1. a = Rest(Fields("kHeaders", mg, length), txt, tt, tt)
      BY <1>1, <2>1, SetParser
    <3>2. [s EXCEPT !.p = p1, !.buf = u] = [a EXCEPT !.buf = u]
      OBVIOUS
    <3> HIDE DEF a
    <3>3. [a EXCEPT !.buf = u] = Rest(Fields("kHeaders", mg, length), u, tt, tt)
      BY <3>1, SetBuf
    <3> QED
      BY <3>2, <3>3
  <2>4. [s EXCEPT !.p = p0, !.ok = ff, !.flag = ff] = Rest(Fields(state, mg, length), txt, ff, ff)
    <3> DEFINE a == [s EXCEPT !.p = p0]
               b == [a EXCEPT !.ok = ff]
    <3>1. a = Rest(Fields(state, mg, length), txt, tt, tt)
      BY <1>1, <2>1, SetParser
    <3>2. [s EXCEPT !.p = p0, !.ok = ff, !.flag = ff] = [b EXCEPT !.flag = ff]
      OBVIOUS
    <3> HIDE DEF a
    <3>3. b = Rest(Fields(state, mg, length), txt, ff, tt)
      BY <3>1, SetOk
    <3> HIDE DEF b
    <3>4. [b EXCEPT !.flag = ff] = Rest(Fields(state, mg, length), txt, ff, ff)
      BY <3>3, SetFlag
    <3> QED
      BY <3>2, <3>4
  <2>5. CASE ParseLine(kind, txt, e)
    <3>1. r = Rest(Fields("kHeaders", mg, length), u, tt, tt)
      BY <1>p, <2>2, <2>3, <2>5, Zenon
    <3>1a. IsParser(Fields("kHeaders", mg, length)) /\ Fields("kHeaders", mg, length).state = "kHeaders" /\ u \in Seq(Tokens)
      BY <1>f, <1>5, <1>9, <1>l
    <3>1ab. LeftBelow(Rest(Fields("kHeaders", mg, length), u, tt, tt), Len(txt))
      BY <1>4, <1>5, <1>9, <1>l, <3>1a, Zenon
    <3> QED
      BY <3>1, <3>1ab, Zenon
  <2>6. CASE ~ParseLine(kind, txt, e)
    <3>1. r = Rest(Fields(state, mg, length), txt, ff, ff)
      BY <1>p, <2>2, <2>4, <2>6, Zenon
    <3>1a. IsParser(Fields(state, mg, length)) /\ Fields(state, mg, length).state = state /\ txt \in Seq(Tokens)
      BY <1>f, <1>5
    <3>1ab. LeftBelow(Rest(Fields(state, mg, length), txt, ff, ff), Len(txt))
      BY <1>3, <3>1a, Zenon
    <3> QED
      BY <3>1, <3>1ab, Zenon
  <2> QED
    BY <2>5, <2>6, Zenon
<1>10. CASE state = "kHeaders" /\ LineEnds(txt) # {}
  <2>q. PICK a : a = [s EXCEPT !.buf = u]
    OBVIOUS
  <2>1. a = Rest(Fields(state, msg, length), u, tt, tt)
    BY <1>1, <2>q, SetBuf
  <2>2. \/ Turn(kind, s) = [a EXCEPT !.p.state = "kBody"]
        \/ Turn(kind, s) = [a EXCEPT !.p.length = txt[e].length]
        \/ Turn(kind, s) = a
        \/ Turn(kind, s) = [a EXCEPT !.ok = FALSE]
    <3>1. Turn(kind, s) = HeaderTurn(s)
      BY <1>2, <1>10 DEF Turn
    <3> QED
      BY <1>2, <1>10, <1>q, <2>q, <3>1 DEF HeaderTurn
  <2>3. CASE Turn(kind, s) = [a EXCEPT !.p.state = "kBody"]
    <3>1. [a EXCEPT !.p.state = "kBody"] = Rest(Fields("kBody", msg, length), u, tt, tt)
      BY <2>1, SetState
    <3>2. r = Rest(Fields("kBody", msg, length), u, tt, tt)
      BY <1>p, <2>3, <3>1, Zenon
    <3>2a. IsParser(Fields("kBody", msg, length)) /\ Fields("kBody", msg, length).state = "kBody" /\ u \in Seq(Tokens)
      BY <1>f, <1>5, <1>10, <1>l
    <3>2ab. LeftBelow(Rest(Fields("kBody", msg, length), u, tt, tt), Len(txt))
      BY <1>4, <1>5, <1>10, <1>l, <3>2a, Zenon
    <3> QED
      BY <3>2, <3>2ab, Zenon
  <2>4. CASE Turn(kind, s) = [a EXCEPT !.p.length = txt[e].length]
    <3>p. PICK ln : ln = txt[e].length
      OBVIOUS
    <3>1. [a EXCEPT !.p.length = ln] = Rest(Fields(state, msg, ln), u, tt, tt)
      BY <2>1, SetLength
    <3>2. r = Rest(Fields(state, msg, ln), u, tt, tt)
      BY <1>p, <2>4, <3>p, <3>1, Zenon
    <3>2a. IsParser(Fields(state, msg, ln)) /\ Fields(state, msg, ln).state = state /\ u \in Seq(Tokens)
      BY <1>f, <1>5, <1>10, <1>l
    <3>2ab. LeftBelow(Rest(Fields(state, msg, ln), u, tt, tt), Len(txt))
      BY <1>4, <1>10, <1>l, <3>2a, Zenon
    <3> QED
      BY <3>2, <3>2ab, Zenon
  <2>5. CASE Turn(kind, s) = a
    <3>2. r = Rest(Fields(state, msg, length), u, tt, tt)
      BY <1>p, <2>1, <2>5, Zenon
    <3>2a. IsParser(Fields(state, msg, length)) /\ Fields(state, msg, length).state = state /\ u \in Seq(Tokens)
      BY <1>f, <1>5, <1>10, <1>l
    <3>2ab. LeftBelow(Rest(Fields(state, msg, length), u, tt, tt), Len(txt))
      BY <1>4, <1>10, <1>l, <3>2a, Zenon
    <3> QED
      BY <3>2, <3>2ab, Zenon
  <2>6. CASE Turn(kind, s) = [a EXCEPT !.ok = FALSE]
    <3>1. [a EXCEPT !.ok = ff] = Rest(Fields(state, msg, length), u, ff, tt)
      BY <2>1, SetOk
    <3>2. r = Rest(Fields(state, msg, length), u, ff, tt)
      BY <1>p, <2>6, <3>1, Zenon
    <3>2a. IsParser(Fields(state, msg, length)) /\ Fields(state, msg, length).state = state /\ u \in Seq(Tokens)
      BY <1>f, <1>5, <1>10, <1>l
    <3>2ab. LeftBelow(Rest(Fields(state, msg, length), u, ff, tt), Len(txt))
      BY <1>3, <1>10, <1>l, <3>2a, Zenon
    <3> QED
      BY <3>2, <3>2ab, Zenon
  <2> QED
    BY <2>2, <2>3, <2>4, <2>5, <2>6, Zenon
<1>11. CASE state = "kBody"
  <2>1. \/ Turn(kind, s) = [s EXCEPT !.p.state = "kEnd", !.flag = FALSE]
        \/ Turn(kind, s) = [s EXCEPT !.p.state = "kEnd", !.buf = <<>>, !.flag = FALSE]
        \/ Turn(kind, s) = [s EXCEPT !.ok = FALSE, !.flag = FALSE]
    <3>1. Turn(kind, s) = BodyTurn(kind, s)
      BY <1>2, <1>11 DEF Turn
    <3> QED
      BY <3>1, Zenon DEF BodyTurn
  <2> DEFINE a == [s EXCEPT !.p.state = "kEnd"]
             b == [a EXCEPT !.buf = <<>>]
  <2>2. a = Rest(Fields("kEnd", msg, length), txt, tt, tt)
    BY <1>1, SetState
  <2>3. CASE Turn(kind, s) = [s EXCEPT !.p.state = "kEnd", !.flag = FALSE]
    <3>1. [s EXCEPT !.p.state = "kEnd", !.flag = ff] = [a EXCEPT !.flag = ff]
      OBVIOUS
    <3> HIDE DEF a
    <3>2. [a EXCEPT !.flag = ff] = Rest(Fields("kEnd", msg, length), txt, tt, ff)
      BY <2>2, SetFlag
    <3>3. r = Rest(Fields("kEnd", msg, length), txt, tt, ff)
      BY <1>p, <2>3, <3>1, <3>2, Zenon
    <3>3a. IsParser(Fields("kEnd", msg, length)) /\ Fields("kEnd", msg, length).state = "kEnd" /\ txt \in Seq(Tokens)
      BY <1>f, <1>5
    <3>3ab. LeftBelow(Rest(Fields("kEnd", msg, length), txt, tt, ff), Len(txt))
      BY <1>3, <1>5, <3>3a, Zenon
    <3> QED
      BY <3>3, <3>3ab, Zenon
  <2>4. CASE Turn(kind, s) = [s EXCEPT !.p.state = "kEnd", !.buf = <<>>, !.flag = FALSE]
    <3>1. [s EXCEPT !.p.state = "kEnd", !.buf = <<>>, !.flag = ff] = [b EXCEPT !.flag = ff]
      OBVIOUS
    <3> HIDE DEF a
    <3>2. b = Rest(Fields("kEnd", msg, length), <<>>, tt, tt)
      BY <2>2, SetBuf
    <3> HIDE DEF b
    <3>3. [b EXCEPT !.flag = ff] = Rest(Fields("kEnd", msg, length), <<>>, tt, ff)
      BY <3>2, SetFlag
    <3>4. r = Rest(Fields("kEnd", msg, length), <<>>, tt, ff)
      BY <1>p, <2>4, <3>1, <3>3, Zenon
    <3>5. <<>> \in Seq(Tokens)
      OBVIOUS
    <3>4a. IsParser(Fields("kEnd", msg, length)) /\ Fields("kEnd", msg, length).state = "kEnd" /\ <<>> \in Seq(Tokens)
      BY <1>f, <1>5, <3>5
    <3>4ab. LeftBelow(Rest(Fields("kEnd", msg, length), <<>>, tt, ff), Len(txt))
      BY <1>3, <1>5, <3>5, <3>4a, Zenon
    <3> QED
      BY <3>4, <3>4ab, Zenon
  <2>5. CASE Turn(kind, s) = [s EXCEPT !.ok = FALSE, !.flag = FALSE]
    <3>1. r = Rest(Fields(state, msg, length), txt, ff, ff)
      BY <1>p, <1>7, <2>5, Zenon
    <3>1a. IsParser(Fields(state, msg, length)) /\ Fields(state, msg, length).state = state /\ txt \in Seq(Tokens)
      BY <1>f, <1>5
    <3>1ab. LeftBelow(Rest(Fields(state, msg, length), txt, ff, ff), Len(txt))
      BY <1>3, <3>1a, Zenon
    <3> QED
      BY <3>1, <3>1ab, Zenon
  <2> QED
    BY <2>1, <2>3, <2>4, <2>5, Zenon
<1>12. state = "kLine" \/ state = "kHeaders" \/ state = "kBody"
  BY DEF ParserStates
<1> QED
  BY <1>8, <1>9, <1>10, <1>11, <1>12

\* What is below is below more.
LEMMA LeftMore ==
  ASSUME NEW r, NEW k \in Int, LeftBelow(r, k), NEW n \in Int, ~Running(r) \/ k <= n
  PROVE  LeftBelow(r, n)
<1>1. IsParser(r.p) /\ r.buf \in Seq(Tokens) /\ (Running(r) => GoesOn(r, r.p, r.buf) /\ r.p.state # "kEnd" /\ Len(r.buf) < k)
  BY Zenon DEF LeftBelow
<1>2. Running(r) => Len(r.buf) < n
  <2>1. Len(r.buf) \in Nat
    BY <1>1, LenProperties
  <2> HIDE DEF LeftBelow
  <2> QED
    BY <1>1, <2>1
<1> QED
  BY <1>1, <1>2, Zenon DEF LeftBelow

\* ParseBuffer returns from every state but kEnd, whatever the text.
LEMMA ParseStops ==
  ASSUME NEW kind, NEW p, IsParser(p), p.state # "kEnd", NEW txt \in Seq(Tokens)
  PROVE  LET r == ParseBuffer(kind, p, txt) IN IsParser(r.p) /\ r.buf \in Seq(Tokens) /\ ~Running(r)
<1> DEFINE N == Turns(txt)
           L == Len(txt)
<1>1. L \in Nat
  BY LenProperties
<1>2. PICK f : /\ IsRun(f, N, kind, Rest(p, txt, TRUE, TRUE))
               /\ ParseBuffer(kind, p, txt) = f[N]
  BY <1>1, ParseRun, Zenon
<1>3. N \in Nat /\ N = L + 3
  BY <1>1 DEF Turns
<1>a. PICK a : a = Rest(p, txt, TRUE, TRUE)
  OBVIOUS
<1>4. \A k \in 0..N : f[k] = IF k = 0 THEN a ELSE NextTurn(kind, f[k - 1])
  BY <1>2, <1>a DEF IsRun
<1> DEFINE T == {k \in 0..N : LeftBelow(f[k], L + 1 - k)}
<1>5. 0 \in T
  <2>1. L < L + 1 - 0
    BY <1>1
  <2>2. LeftBelow(Rest(p, txt, TRUE, TRUE), L + 1 - 0)
    BY <2>1, RestGoes, Zenon
  <2>3. f[0] = a
    BY <1>3, <1>4
  <2>4. LeftBelow(f[0], L + 1 - 0) /\ 0 \in 0..N
    <3>1. 0 \in 0..N
      BY <1>3
    <3> QED
      BY <1>a, <2>2, <2>3, <3>1, Zenon
  <2> QED
    BY <2>4, Zenon
<1>6. ASSUME NEW k \in 0..(N - 1), k \in T PROVE k + 1 \in T
  <2>1. k + 1 \in 0..N /\ f[k + 1] = NextTurn(kind, f[k]) /\ k \in Nat
    BY <1>3, <1>4
  <2>2. LeftBelow(f[k], L + 1 - k) /\ L + 1 - k \in Int /\ L + 1 - (k + 1) \in Int
    BY <1>1, <1>6, <2>1
  <2>3. CASE ~Running(f[k])
    <3>1. f[k + 1] = f[k]
      BY <2>1, <2>3, Zenon DEF NextTurn
    <3>2. LeftBelow(f[k + 1], L + 1 - (k + 1))
      BY <2>2, <2>3, <3>1, LeftMore, Zenon
    <3> QED
      BY <2>1, <3>2, Zenon
  <2>4. CASE Running(f[k])
    <3>p. PICK s, q, u : s = f[k] /\ q = s.p /\ u = s.buf
      BY Zenon
    <3>1. GoesOn(s, q, u) /\ q.state # "kEnd" /\ Len(u) < L + 1 - k /\ u \in Seq(Tokens) /\ IsParser(q)
      BY <2>2, <2>4, <3>p, Zenon DEF LeftBelow
    <3>2. q = Fields(q.state, q.msg, q.length) /\ q.state \in ParserStates
      BY <3>1, Zenon DEF IsParser
    <3>3. GoesOn(s, Fields(q.state, q.msg, q.length), u)
      BY <3>1, <3>2, Zenon
    <3>4. LeftBelow(Turn(kind, s), Len(u))
      BY <3>1, <3>2, <3>3, TurnTakes, Zenon
    <3>5. f[k + 1] = Turn(kind, s)
      BY <2>1, <2>4, <3>p, Zenon DEF NextTurn
    <3>6. Len(u) \in Nat
      BY <3>1, LenProperties
    <3>7. Len(u) \in Int /\ Len(u) <= L + 1 - (k + 1)
      BY <1>1, <2>1, <3>1, <3>6
    <3>8. LeftBelow(f[k + 1], L + 1 - (k + 1))
      BY <2>2, <3>4, <3>5, <3>7, LeftMore, Zenon
    <3> QED
      BY <2>1, <3>8, Zenon
  <2> HIDE DEF T
  <2> QED
    BY <2>3, <2>4, Zenon
<1>7. N \in T
  <2> HIDE DEF T
  <2>1. 0..N \subseteq T
    BY <1>3, <1>5, <1>6, UpTo
  <2> QED
    BY <1>3, <2>1
<1>p. PICK r : r = f[N]
  OBVIOUS
<1>8. LeftBelow(r, L + 1 - N) /\ L + 1 - N < 0
  <2>1. LeftBelow(f[N], L + 1 - N)
    BY <1>7, Zenon
  <2> QED
    BY <1>1, <1>3, <1>p, <2>1
<1>9. IsParser(r.p) /\ r.buf \in Seq(Tokens) /\ (Running(r) => Len(r.buf) < L + 1 - N)
  BY <1>8, Zenon DEF LeftBelow
<1>10. Len(r.buf) \in Nat
  BY <1>9, LenProperties
<1>11. ~Running(r)
  BY <1>1, <1>3, <1>8, <1>9, <1>10
<1> QED
  BY <1>2, <1>p, <1>9, <1>11, Zenon

\* In kEnd it never returns: nothing changes.
LEMMA ParseSpins ==
  ASSUME NEW kind, NEW p, p.state = "kEnd", NEW txt \in Seq(Tokens)
  PROVE  ParseBuffer(kind, p, txt) = Rest(p, txt, TRUE, TRUE)
<1> DEFINE N == Turns(txt)
<1>1. Len(txt) \in Nat
  BY LenProperties
<1>2. PICK f : /\ IsRun(f, N, kind, Rest(p, txt, TRUE, TRUE))
               /\ ParseBuffer(kind, p, txt) = f[N]
  BY <1>1, ParseRun, Zenon
<1>3. N \in Nat
  BY <1>1 DEF Turns
<1>a. PICK a : a = Rest(p, txt, TRUE, TRUE)
  OBVIOUS
<1>4. \A k \in 0..N : f[k] = IF k = 0 THEN a ELSE NextTurn(kind, f[k - 1])
  BY <1>2, <1>a DEF IsRun
<1> DEFINE T == {k \in 0..N : f[k] = a}
<1>5. 0 \in T
  BY <1>3, <1>4
<1>6. ASSUME NEW k \in 0..(N - 1), k \in T PROVE k + 1 \in T
  <2>1. k + 1 \in 0..N /\ f[k + 1] = NextTurn(kind, a)
    BY <1>3, <1>4, <1>6
  <2>2. a.p = p
    BY <1>a, Zenon DEF Rest
  <2>3. Turn(kind, a) = a
    BY <2>2 DEF Turn
  <2>4. NextTurn(kind, a) = a
    BY <2>3, Zenon DEF NextTurn
  <2> QED
    BY <2>1, <2>4
<1>7. N \in T
  <2> HIDE DEF T
  <2>1. 0..N \subseteq T
    BY <1>3, <1>5, <1>6, UpTo
  <2> QED
    BY <1>3, <2>1
<1> QED
  BY <1>2, <1>7, <1>a

-----------------------------------------------------------------------------
(* A stream of messages, read up to a place in the first.                  *)

\* b[i] is where the i-th of the messages ms ends, counted from where the first
\* begins; c tokens of the first are taken and the stream st is the rest.
Cut(ms, st, c, b) ==
    /\ b \in [0..Len(ms) -> Nat]
    /\ b[0] = 0 /\ b[Len(ms)] = Len(st) + c
    /\ \A i, j \in 0..Len(ms) : i <= j => b[i] <= b[j]
    /\ \A i \in 1..Len(ms) : b[i] = b[i - 1] + MsgLen(ms[i])
    /\ \A i \in 1..Len(ms) : \A j \in 1..MsgLen(ms[i]) :
          b[i - 1] + j > c => st[b[i - 1] + j - c] = TokenAt(ms[i], j)

\* The parser p has before it, in the stream st, the messages ms and nothing else.
SpellsFrom(kind, p, st, ms, c) ==
    /\ \E b : Cut(ms, st, c, b)
    /\ IF ms = <<>> THEN c = 0 /\ p = NewParser
       ELSE c <= HeadLen(ms[1]) /\ p = Parsed(ms[1], c)
Spells(kind, p, st, ms) ==
    /\ ms \in Seq(Msgs(kind)) /\ st \in Seq(Tokens)
    /\ \E c \in Nat : SpellsFrom(kind, p, st, ms, c)

\* Of what the messages of a sequence are made.
LEMMA EachMessage ==
  ASSUME NEW kind \in Kinds, NEW ms \in Seq(Msgs(kind))
  PROVE  /\ Len(ms) \in Nat
         /\ \A i \in 1..Len(ms) : /\ ms[i] \in Msgs(kind)
                                  /\ HeadLen(ms[i]) \in Nat /\ MsgLen(ms[i]) \in Nat
                                  /\ HeadLen(ms[i]) <= MsgLen(ms[i])
<1>1. Len(ms) \in Nat
  BY LenProperties
<1>2. \A i \in 1..Len(ms) : ms[i] \in Msgs(kind)
  BY ElementOfSeq
<1>3. ASSUME NEW i \in 1..Len(ms)
      PROVE  HeadLen(ms[i]) \in Nat /\ MsgLen(ms[i]) \in Nat /\ HeadLen(ms[i]) <= MsgLen(ms[i])
  <2>1. ms[i] \in Msgs(kind)
    BY <1>2
  <2>2. ms[i].body \in Nat /\ HeadLen(ms[i]) \in Nat
    BY <2>1, MsgFields
  <2> QED
    BY <2>2 DEF MsgLen
<1> QED
  BY <1>1, <1>2, <1>3

\* Nothing is before a new parser when the stream is empty.
LEMMA SpellsNothing ==
  ASSUME NEW kind \in Kinds
  PROVE  Spells(kind, NewParser, <<>>, <<>>)
<1> DEFINE b == [i \in 0..0 |-> 0]
<1>1. <<>> \in Seq(Msgs(kind)) /\ <<>> \in Seq(Tokens) /\ Len(<<>>) = 0
  OBVIOUS
<1>2. Cut(<<>>, <<>>, 0, b)
  <2>1. b \in [0..Len(<<>>) -> Nat] /\ b[0] = 0 /\ b[Len(<<>>)] = Len(<<>>) + 0
    OBVIOUS
  <2>2. \A i, j \in 0..Len(<<>>) : i <= j => b[i] <= b[j]
    OBVIOUS
  <2>3. 1..Len(<<>>) = {}
    OBVIOUS
  <2> HIDE DEF b
  <2>4. \A i \in 1..Len(<<>>) : \A j \in 1..MsgLen(<<>>[i]) :
          b[i - 1] + j > 0 => <<>>[b[i - 1] + j - 0] = TokenAt(<<>>[i], j)
    BY <2>3
  <2>5. \A i \in 1..Len(<<>>) : b[i] = b[i - 1] + MsgLen(<<>>[i])
    BY <2>3
  <2> QED
    BY <2>1, <2>2, <2>4, <2>5 DEF Cut
<1> HIDE DEF b
<1>3. SpellsFrom(kind, NewParser, <<>>, <<>>, 0)
  BY <1>2 DEF SpellsFrom
<1> QED
  BY <1>1, <1>3 DEF Spells

\* Without a message there is no token.
LEMMA SpellsSome ==
  ASSUME NEW kind \in Kinds, NEW p, NEW st, NEW ms, Spells(kind, p, st, ms), st # <<>>
  PROVE  ms # <<>> /\ Len(ms) >= 1
<1>1. ms \in Seq(Msgs(kind)) /\ st \in Seq(Tokens)
  BY DEF Spells
<1>2. PICK c \in Nat : \E b : Cut(ms, st, c, b)
  BY DEF Spells, SpellsFrom
<1>2b. PICK b : Cut(ms, st, c, b)
  BY <1>2
<1>3. Len(st) \in Nat /\ Len(st) # 0 /\ Len(ms) \in Nat
  BY <1>1, EmptySeq, LenProperties
<1>4. b[0] = 0 /\ b[Len(ms)] = Len(st) + c
  BY <1>2b DEF Cut
<1>5. Len(ms) # 0
  BY <1>3, <1>4
<1> QED
  BY <1>1, <1>3, <1>5

\* A message written at the end of the stream is the last one before the parser.
LEMMA SpellsAppend ==
  ASSUME NEW kind \in Kinds, NEW p, NEW st, NEW ms, Spells(kind, p, st, ms),
         NEW m \in Msgs(kind)
  PROVE  Spells(kind, p, st \o Message(m), Append(ms, m))
<1> DEFINE tx == Message(m)
           n == Len(ms)
           ms1 == Append(ms, m)
           st1 == st \o tx
<1>1. ms \in Seq(Msgs(kind)) /\ st \in Seq(Tokens)
  BY DEF Spells
<1>2. PICK c \in Nat : SpellsFrom(kind, p, st, ms, c)
  BY DEF Spells
<1>3. PICK b : Cut(ms, st, c, b)
  BY <1>2 DEF SpellsFrom
<1>4. tx \in Seq(Tokens) /\ Len(tx) = MsgLen(m) /\ \A j \in 1..MsgLen(m) : tx[j] = TokenAt(m, j)
  <2>1. m \in Written(kind)
    BY MsgFields
  <2> QED
    BY <2>1, MessageShape
<1> HIDE DEF tx
<1>5. n \in Nat /\ MsgLen(m) \in Nat /\ Len(st) \in Nat
  BY <1>1, MsgFields, LenProperties
<1>6. /\ ms1 \in Seq(Msgs(kind)) /\ Len(ms1) = n + 1
      /\ \A i \in 1..n : ms1[i] = ms[i]
      /\ ms1[n + 1] = m
  BY <1>1, AppendProperties
<1>7a. /\ st1 \in Seq(Tokens) /\ Len(st1) = Len(st) + Len(tx)
       /\ \A j \in 1..Len(st) : st1[j] = st[j]
       /\ \A j \in 1..Len(tx) : st1[Len(st) + j] = tx[j]
  <2> HIDE DEF ms1, n
  <2>1. st \in Seq(Tokens) /\ tx \in Seq(Tokens)
    BY <1>1, <1>4
  <2>2. /\ st \o tx \in Seq(Tokens) /\ Len(st \o tx) = Len(st) + Len(tx)
        /\ \A j \in 1..Len(st) : (st \o tx)[j] = st[j]
        /\ \A j \in 1..Len(tx) : (st \o tx)[Len(st) + j] = tx[j]
    <3> HIDE DEF tx
    <3>1. st \o tx \in Seq(Tokens) /\ Len(st \o tx) = Len(st) + Len(tx)
      BY <2>1, Joined
    <3>2. \A j \in 1..Len(st) : (st \o tx)[j] = st[j]
      BY <2>1, Joined
    <3>3. \A j \in 1..Len(tx) : (st \o tx)[Len(st) + j] = tx[j]
      BY <2>1, Joined
    <3> QED
      BY <3>1, <3>2, <3>3
  <2> QED
    BY <2>2, Zenon
<1>7. /\ st1 \in Seq(Tokens) /\ Len(st1) = Len(st) + MsgLen(m)
      /\ \A j \in 1..Len(st) : st1[j] = st[j]
      /\ \A j \in 1..Len(tx) : st1[Len(st) + j] = tx[j]
  <2> HIDE DEF st1
  <2> QED
    BY <1>4, <1>7a
<1> HIDE DEF ms1, st1
<1> DEFINE b1 == [i \in 0..n + 1 |-> IF i = n + 1 THEN b[n] + MsgLen(m) ELSE b[i]]
<1>8. /\ b \in [0..n -> Nat] /\ b[0] = 0 /\ b[n] = Len(st) + c
      /\ \A i, j \in 0..n : i <= j => b[i] <= b[j]
      /\ \A i \in 1..n : b[i] = b[i - 1] + MsgLen(ms[i])
      /\ \A i \in 1..n : \A j \in 1..MsgLen(ms[i]) :
            b[i - 1] + j > c => st[b[i - 1] + j - c] = TokenAt(ms[i], j)
  BY <1>3 DEF Cut
<1>9. /\ \A i \in 0..n : b1[i] = b[i] /\ b[i] \in Nat
      /\ b1[n + 1] = b[n] + MsgLen(m) /\ n \in 0..n
      /\ b1 \in [0..n + 1 -> Nat]
  <2>1. \A i \in 0..n : b[i] \in Nat /\ i # n + 1 /\ i \in 0..n + 1
    <3>1. b \in [0..n -> Nat] /\ n \in Nat
      BY <1>5, <1>8
    <3> HIDE DEF n, b1
    <3>2. \A i \in 0..n : b[i] \in Nat
      BY <3>1
    <3>3. \A i \in 0..n : i # n + 1 /\ i \in 0..n + 1
      BY <3>1
    <3> QED
      BY <3>2, <3>3
  <2>2. n \in 0..n /\ n + 1 \in 0..n + 1 /\ b[n] + MsgLen(m) \in Nat
    BY <1>5, <2>1
  <2>3. \A i \in 0..n + 1 : i = n + 1 \/ i \in 0..n
    BY <1>5
  <2> QED
    BY <2>1, <2>2, <2>3
<1> HIDE DEF b1
<1>10. b1[0] = 0 /\ b1[Len(ms1)] = Len(st1) + c
  BY <1>5, <1>6, <1>7, <1>8, <1>9
<1>11. ASSUME NEW i \in 0..n + 1, NEW j \in 0..n + 1, i <= j PROVE b1[i] <= b1[j]
  <2>1. CASE j \in 0..n
    BY <1>5, <1>8, <1>9, <1>11, <2>1
  <2>2. CASE j = n + 1 /\ i \in 0..n
    <3>1. b[i] <= b[n]
      BY <1>5, <1>8, <2>2
    <3> QED
      BY <1>5, <1>9, <2>2, <3>1
  <2>3. CASE j = n + 1 /\ i = n + 1
    BY <1>5, <1>9, <2>3
  <2> QED
    BY <1>5, <2>1, <2>2, <2>3
<1>12. ASSUME NEW i \in 1..n + 1
       PROVE  /\ b1[i] = b1[i - 1] + MsgLen(ms1[i])
              /\ \A j \in 1..MsgLen(ms1[i]) :
                    b1[i - 1] + j > c => st1[b1[i - 1] + j - c] = TokenAt(ms1[i], j)
  <2>1. CASE i \in 1..n
    <3>1. i \in 0..n /\ i - 1 \in 0..n /\ ms1[i] = ms[i] /\ b1[i] = b[i] /\ b1[i - 1] = b[i - 1]
      <4>1. i \in 0..n /\ i - 1 \in 0..n
        BY <1>5, <2>1
      <4>2. ms1[i] = ms[i]
        BY <1>6, <2>1
      <4>3. b1[i] = b[i] /\ b1[i - 1] = b[i - 1]
        BY <1>9, <4>1
      <4> QED
        BY <4>1, <4>2, <4>3
    <3>2. b[i] = b[i - 1] + MsgLen(ms[i]) /\ b[i] <= b[n] /\ MsgLen(ms[i]) \in Nat
      BY <1>1, <1>5, <1>8, <1>9, <2>1, <3>1, EachMessage
    <3>2b. b[i] \in Nat /\ b[i - 1] \in Nat /\ b[n] \in Nat /\ b[n] = Len(st) + c
      BY <1>8, <1>9, <3>1
    <3>3. ASSUME NEW j \in 1..MsgLen(ms[i]), b[i - 1] + j > c
          PROVE  st1[b[i - 1] + j - c] = TokenAt(ms[i], j)
      <4>1. b[i - 1] + j - c \in 1..Len(st)
        <5>1. PICK k \in Nat, l \in Nat, x \in Nat, y \in Nat, z \in Nat :
                 k = MsgLen(ms[i]) /\ l = Len(st) /\ x = b[i - 1] /\ y = b[i] /\ z = b[n]
          BY <1>5, <3>2, <3>2b
        <5>2. y = x + k /\ y <= z /\ z = l + c /\ x + j > c /\ j \in 1..k
          BY <3>2, <3>2b, <3>3, <5>1
        <5>3. x + j - c \in 1..l
          BY <5>2
        <5> QED
          BY <5>1, <5>3
      <4> QED
        BY <1>7, <1>8, <2>1, <3>3, <4>1
    <3> QED
      BY <3>1, <3>2, <3>3
  <2>2. CASE i = n + 1
    <3>1. i - 1 = n /\ ms1[i] = m /\ b1[i - 1] = b[n] /\ b1[i] = b[n] + MsgLen(m)
      BY <1>5, <1>6, <1>9, <2>2
    <3>2. ASSUME NEW j \in 1..MsgLen(m)
          PROVE  st1[b[n] + j - c] = TokenAt(m, j)
      <4>1. b[n] + j - c = Len(st) + j
        BY <1>5, <1>8
      <4> QED
        BY <1>4, <1>7, <3>2, <4>1
    <3> QED
      BY <3>1, <3>2
  <2> QED
    BY <1>5, <2>1, <2>2
<1>13. Cut(ms1, st1, c, b1)
  BY <1>6, <1>9, <1>10, <1>11, <1>12 DEF Cut
<1>14. ms1 # <<>>
  BY <1>5, <1>6
<1>15. c <= HeadLen(ms1[1]) /\ p = Parsed(ms1[1], c)
  <2>1. CASE ms = <<>>
    <3>1. c = 0 /\ p = NewParser /\ n = 0
      BY <1>2, <2>1 DEF SpellsFrom
    <3>2. ms1[1] = m
      BY <1>6, <3>1
    <3>3. HeadLen(m) \in Nat
      BY MsgFields
    <3>4. Parsed(m, 0) = NewParser
      BY DEF Parsed, NewParser
    <3> QED
      BY <3>1, <3>2, <3>3, <3>4
  <2>2. CASE ms # <<>>
    <3>1. c <= HeadLen(ms[1]) /\ p = Parsed(ms[1], c)
      BY <1>2, <2>2 DEF SpellsFrom
    <3>2. 1 \in 1..n
      BY <1>1, <1>5, <2>2, EmptySeq
    <3> QED
      BY <1>6, <3>1, <3>2
  <2> QED
    BY <2>1, <2>2
<1>16. SpellsFrom(kind, p, st1, ms1, c)
  BY <1>13, <1>14, <1>15 DEF SpellsFrom
<1>17. Spells(kind, p, st1, ms1)
  BY <1>6, <1>7, <1>16 DEF Spells
<1> QED
  BY <1>17 DEF ms1, st1, tx

\* What is dropped from the front is dropped of the whole.
LEMMA DropJoined ==
  ASSUME NEW S, NEW u \in Seq(S), NEW v \in Seq(S), NEW d \in 0..Len(u)
  PROVE  Drop(u, d) \o v = Drop(u \o v, d) /\ d \in 0..Len(u \o v)
<1> DEFINE w == u \o v
           x == Drop(u, d)
           y == Drop(w, d)
           z == x \o v
<1>1. /\ w \in Seq(S) /\ Len(u) \in Nat /\ Len(v) \in Nat /\ Len(w) = Len(u) + Len(v)
  BY Joined
<1>2. \A j \in 1..Len(u) : w[j] = u[j]
  BY Joined
<1>3. \A j \in 1..Len(v) : w[Len(u) + j] = v[j]
  BY Joined
<1> HIDE DEF w
<1>4. d \in 0..Len(w) /\ d \in Nat
  BY <1>1
<1>5. x \in Seq(S) /\ Len(x) = Len(u) - d /\ \A i \in 1..Len(u) - d : x[i] = u[d + i]
  BY DropProperties
<1>6. y \in Seq(S) /\ Len(y) = Len(w) - d /\ \A i \in 1..Len(w) - d : y[i] = w[d + i]
  BY <1>1, <1>4, DropProperties
<1> HIDE DEF x, y
<1>7. z \in Seq(S) /\ Len(z) = Len(x) + Len(v)
  BY <1>5, Joined
<1>8. \A j \in 1..Len(x) : z[j] = x[j]
  BY <1>5, Joined
<1>9. \A j \in 1..Len(v) : z[Len(x) + j] = v[j]
  BY <1>5, Joined
<1> HIDE DEF z
<1>10. Len(z) = Len(y) /\ Len(z) \in Nat
  BY <1>1, <1>4, <1>5, <1>6, <1>7
<1>11. ASSUME NEW j \in 1..Len(z) PROVE z[j] = y[j]
  <2>1. CASE j \in 1..Len(x)
    <3>1. d + j \in 1..Len(u) /\ j \in 1..Len(u) - d /\ j \in 1..Len(w) - d
      BY <1>1, <1>4, <1>5, <2>1
    <3>2. z[j] = u[d + j] /\ y[j] = w[d + j]
      BY <1>5, <1>6, <1>8, <2>1, <3>1
    <3> QED
      BY <1>2, <3>1, <3>2
  <2>2. CASE ~(j \in 1..Len(x))
    <3>1. /\ j - Len(x) \in 1..Len(v) /\ Len(x) + (j - Len(x)) = j /\ j \in 1..Len(w) - d
          /\ Len(u) + (j - Len(x)) = d + j
      BY <1>1, <1>4, <1>5, <1>7, <2>2
    <3>2. z[j] = v[j - Len(x)] /\ y[j] = w[d + j] /\ w[d + j] = v[j - Len(x)]
      BY <1>3, <1>6, <1>9, <3>1
    <3> QED
      BY <3>2
  <2> QED
    BY <2>1, <2>2
<1>12. z = y
  BY <1>6, <1>7, <1>10, <1>11, SeqEqual
<1> QED
  BY <1>4, <1>12 DEF w, x, y, z

\* What follows a stream follows its last part.
LEMMA JoinedBehind ==
  ASSUME NEW S, NEW x \in Seq(S), NEW y \in Seq(S), NEW z \in Seq(S)
  PROVE  x \o (y \o z) = (x \o y) \o z /\ y \o z \in Seq(S)
<1>1. x \o (y \o z) = (x \o y) \o z
  BY ConcatAssociative, SMTT(20)
<1>2. y \o z \in Seq(S)
  BY ConcatProperties
<1> QED
  BY <1>1, <1>2

\* st is what was read, buf, and the rest.
IsRead(buf, rest, st) == buf \in Seq(Tokens) /\ rest \in Seq(Tokens) /\ buf \o rest = st

\* A stream read up to any place is the part read and the rest.
LEMMA ReadParts ==
  ASSUME NEW buf, buf \in Seq(Tokens), NEW nt, nt \in Seq(Tokens), NEW n, n \in 1..Len(nt)
  PROVE  IsRead(buf \o SubSeq(nt, 1, n), SubSeq(nt, n + 1, Len(nt)), buf \o nt)
<1>p. PICK S : S = Tokens
  OBVIOUS
<1>q. buf \in Seq(S) /\ nt \in Seq(S)
  BY <1>p
<1> DEFINE u == SubSeq(nt, 1, n)
           v == Drop(nt, n)
           w == u \o v
<1>1. Len(nt) \in Nat /\ n \in 0..Len(nt) /\ n \in Nat /\ 1 <= n
  BY <1>q, LenProperties
<1>2. u \in Seq(S) /\ Len(u) = n /\ \A i \in 1..n : u[i] = nt[i]
  <2>1. \A i \in 1..n : nt[i] \in S
    BY <1>q, <1>1, ElementOfSeq
  <2>2. /\ u \in Seq(S)
        /\ Len(u) = IF 1 <= n THEN n - 1 + 1 ELSE 0
        /\ \A i \in 1..n - 1 + 1 : u[i] = nt[1 + i - 1]
    BY <1>1, <2>1, SubSeqProperties
  <2> HIDE DEF u
  <2>3. n - 1 + 1 = n /\ \A i \in 1..n : 1 + i - 1 = i
    BY <1>1
  <2> QED
    BY <1>1, <2>2, <2>3
<1>3. v \in Seq(S) /\ Len(v) = Len(nt) - n /\ \A i \in 1..Len(nt) - n : v[i] = nt[n + i]
  BY <1>q, <1>1, DropProperties
<1> HIDE DEF u, v
<1>4. w \in Seq(S) /\ Len(w) = Len(u) + Len(v)
  BY <1>2, <1>3, Joined
<1>5. \A j \in 1..Len(u) : w[j] = u[j]
  BY <1>2, <1>3, Joined
<1>6. \A j \in 1..Len(v) : w[Len(u) + j] = v[j]
  BY <1>2, <1>3, Joined
<1> HIDE DEF w
<1>7. Len(w) = Len(nt)
  BY <1>1, <1>2, <1>3, <1>4
<1>8. ASSUME NEW j \in 1..Len(w) PROVE w[j] = nt[j]
  <2>1. CASE j <= n
    <3>1. j \in 1..Len(u) /\ j \in 1..n
      BY <1>1, <1>2, <2>1
    <3> QED
      BY <1>2, <1>5, <3>1
  <2>2. CASE j > n
    <3>1. j - n \in 1..Len(v) /\ j - n \in 1..Len(nt) - n /\ Len(u) + (j - n) = j /\ n + (j - n) = j
      BY <1>1, <1>2, <1>3, <1>7, <2>2
    <3> QED
      BY <1>3, <1>6, <3>1
  <2> QED
    BY <1>1, <2>1, <2>2
<1>9. w = nt
  BY <1>q, <1>4, <1>7, <1>8, SeqEqual
<1>10. (buf \o u) \o v = buf \o (u \o v)
  <2>1. u \in Seq(S) /\ v \in Seq(S) /\ buf \in Seq(S)
    BY <1>q, <1>2, <1>3
  <2> QED
    BY <2>1, ConcatAssociative, SMTT(40)
<1>11. buf \o u \in Seq(S)
  BY <1>q, <1>2, ConcatProperties
<1>12. u \in Seq(S) /\ v \in Seq(S) /\ buf \o u \in Seq(S) /\ (buf \o u) \o v = buf \o nt
  <2>1. (buf \o u) \o v = buf \o w
    BY <1>10, Zenon DEF w
  <2>2. (buf \o u) \o v = buf \o nt
    BY <1>9, <2>1
  <2> QED
    BY <1>2, <1>3, <1>11, <2>2
<1>13. IsRead(buf \o u, v, buf \o nt)
  BY <1>p, <1>12, Zenon DEF IsRead
<1> QED
  BY <1>13, Zenon DEF u, v, Drop

\* Where the messages end does not change when more of the first is taken.
LEMMA CutFurther ==
  ASSUME NEW kind \in Kinds, NEW ms \in Seq(Msgs(kind)), NEW st \in Seq(Tokens),
         NEW c \in Nat, NEW b, Cut(ms, st, c, b), NEW d \in 0..Len(st)
  PROVE  Cut(ms, Drop(st, d), c + d, b)
<1> DEFINE n == Len(ms)
           st1 == Drop(st, d)
<1>1. /\ b \in [0..n -> Nat] /\ b[0] = 0 /\ b[n] = Len(st) + c
      /\ \A i, j \in 0..n : i <= j => b[i] <= b[j]
      /\ \A i \in 1..n : b[i] = b[i - 1] + MsgLen(ms[i])
      /\ \A i \in 1..n : \A j \in 1..MsgLen(ms[i]) :
            b[i - 1] + j > c => st[b[i - 1] + j - c] = TokenAt(ms[i], j)
  BY DEF Cut
<1>2. n \in Nat /\ Len(st) \in Nat /\ \A i \in 1..n : MsgLen(ms[i]) \in Nat
  BY EachMessage, LenProperties
<1>3. st1 \in Seq(Tokens) /\ Len(st1) = Len(st) - d /\ \A i \in 1..Len(st) - d : st1[i] = st[d + i]
  BY DropProperties
<1> HIDE DEF n, st1
<1>4. b[n] = Len(st1) + (c + d)
  BY <1>1, <1>2, <1>3
<1>5. ASSUME NEW i \in 1..n, NEW j \in 1..MsgLen(ms[i]), b[i - 1] + j > c + d
      PROVE  st1[b[i - 1] + j - (c + d)] = TokenAt(ms[i], j)
  <2>1. i \in 0..n /\ i - 1 \in 0..n /\ n \in 0..n
    BY <1>2
  <2>2. PICK k \in Nat, l \in Nat, x \in Nat, y \in Nat, z \in Nat :
           k = MsgLen(ms[i]) /\ l = Len(st) /\ x = b[i - 1] /\ y = b[i] /\ z = b[n]
    BY <1>1, <1>2, <2>1
  <2>3. y = x + k /\ y <= z /\ z = l + c
    BY <1>1, <1>2, <2>1, <2>2
  <2>4. x + j > c + d /\ j \in 1..k /\ d \in 0..l
    BY <1>5, <2>2
  <2>5. x + j - (c + d) \in 1..l - d /\ d + (x + j - (c + d)) = x + j - c /\ x + j > c
    BY <2>3, <2>4
  <2>6. st1[x + j - (c + d)] = st[x + j - c]
    BY <1>3, <2>2, <2>5
  <2>7. st[x + j - c] = TokenAt(ms[i], j)
    BY <1>1, <2>2, <2>5
  <2> QED
    BY <2>2, <2>6, <2>7
<1> QED
  BY <1>1, <1>4, <1>5 DEF Cut, n, st1

\* The messages behind the first end where they did, counted from the second.
LEMMA CutTail ==
  ASSUME NEW kind \in Kinds, NEW ms \in Seq(Msgs(kind)), NEW st \in Seq(Tokens),
         NEW c \in Nat, NEW b, Cut(ms, st, c, b), ms # <<>>, c <= HeadLen(ms[1])
  PROVE  /\ MsgLen(ms[1]) - c \in 0..Len(st)
         /\ \E b1 : Cut(Tail(ms), Drop(st, MsgLen(ms[1]) - c), 0, b1)
<1> DEFINE n == Len(ms)
           e == MsgLen(ms[1]) - c
           st1 == Drop(st, e)
           ms1 == Tail(ms)
           b1 == [i \in 0..n - 1 |-> b[i + 1] - b[1]]
<1>1. /\ b \in [0..n -> Nat] /\ b[0] = 0 /\ b[n] = Len(st) + c
      /\ \A i, j \in 0..n : i <= j => b[i] <= b[j]
      /\ \A i \in 1..n : b[i] = b[i - 1] + MsgLen(ms[i])
      /\ \A i \in 1..n : \A j \in 1..MsgLen(ms[i]) :
            b[i - 1] + j > c => st[b[i - 1] + j - c] = TokenAt(ms[i], j)
  BY DEF Cut
<1>2. n \in Nat /\ Len(st) \in Nat /\ n >= 1
  BY EachMessage, LenProperties, EmptySeq
<1>2b. \A i \in 1..n : MsgLen(ms[i]) \in Nat /\ HeadLen(ms[i]) \in Nat /\ HeadLen(ms[i]) <= MsgLen(ms[i])
  BY EachMessage
<1>3. /\ ms1 \in Seq(Msgs(kind)) /\ Len(ms1) = n - 1
      /\ \A i \in 1..n - 1 : ms1[i] = ms[i + 1]
  BY HeadTailProperties
<1>4. b[1] = MsgLen(ms[1]) /\ MsgLen(ms[1]) \in Nat /\ c <= MsgLen(ms[1]) /\ b[1] <= b[n] /\ b[n] \in Nat
  <2>1. 1 \in 1..n /\ 1 \in 0..n /\ n \in 0..n /\ 1 - 1 = 0
    BY <1>2
  <2>2. b[1] = b[0] + MsgLen(ms[1]) /\ b[n] \in Nat /\ b[1] <= b[n]
    BY <1>1, <1>2, <2>1
  <2>3. MsgLen(ms[1]) \in Nat /\ HeadLen(ms[1]) \in Nat /\ HeadLen(ms[1]) <= MsgLen(ms[1])
    BY <1>2b, <2>1
  <2> QED
    BY <1>1, <2>2, <2>3
<1>5. e \in 0..Len(st) /\ e = b[1] - c
  BY <1>1, <1>2, <1>4
<1> HIDE DEF e
<1>6. st1 \in Seq(Tokens) /\ Len(st1) = Len(st) - e /\ \A i \in 1..Len(st) - e : st1[i] = st[e + i]
  BY <1>5, DropProperties
<1> HIDE DEF n, st1, ms1
<1>7. \A i \in 0..n - 1 : b[i + 1] \in Nat /\ b[1] <= b[i + 1] /\ b1[i] = b[i + 1] - b[1] /\ b1[i] \in Nat
  <2> TAKE i \in 0..n - 1
  <2>1. i + 1 \in 0..n /\ 1 \in 0..n /\ 1 <= i + 1
    BY <1>2
  <2>2. b[i + 1] \in Nat /\ b[1] <= b[i + 1]
    BY <1>1, <2>1
  <2>3. b1[i] = b[i + 1] - b[1]
    OBVIOUS
  <2> HIDE DEF b1
  <2> QED
    BY <1>4, <2>2, <2>3
<1>8. b1 \in [0..n - 1 -> Nat]
  BY <1>7
<1> HIDE DEF b1
<1>9. b1[0] = 0
  BY <1>2, <1>4, <1>7
<1>10. b1[n - 1] = Len(st1) + 0
  <2>1. n - 1 \in 0..n - 1 /\ (n - 1) + 1 = n
    BY <1>2
  <2> QED
    BY <1>1, <1>2, <1>4, <1>5, <1>6, <1>7, <2>1
<1>11. ASSUME NEW i \in 0..n - 1, NEW j \in 0..n - 1, i <= j PROVE b1[i] <= b1[j]
  <2>1. b[i + 1] <= b[j + 1]
    BY <1>1, <1>2, <1>11
  <2> QED
    BY <1>4, <1>7, <2>1
<1>12. ASSUME NEW i \in 1..n - 1 PROVE b1[i] = b1[i - 1] + MsgLen(ms1[i])
  <2>1. /\ i \in 0..n - 1 /\ i - 1 \in 0..n - 1 /\ (i - 1) + 1 = i
        /\ i + 1 \in 1..n /\ (i + 1) - 1 = i
    BY <1>2
  <2>2. b1[i] = b[i + 1] - b[1] /\ b1[i - 1] = b[i] - b[1] /\ b[i] \in Nat /\ b[i + 1] \in Nat
    BY <1>7, <2>1
  <2>3. b[i + 1] = b[i] + MsgLen(ms[i + 1]) /\ MsgLen(ms[i + 1]) \in Nat /\ ms1[i] = ms[i + 1]
    BY <1>1, <1>2b, <1>3, <2>1
  <2> QED
    BY <1>4, <2>2, <2>3
<1>13. ASSUME NEW i \in 1..n - 1, NEW j \in 1..MsgLen(ms1[i])
       PROVE  st1[b1[i - 1] + j - 0] = TokenAt(ms1[i], j)
  <2>1. /\ i \in 0..n - 1 /\ i - 1 \in 0..n - 1 /\ (i - 1) + 1 = i
        /\ i + 1 \in 1..n /\ (i + 1) - 1 = i /\ i + 1 \in 0..n /\ n \in 0..n /\ i + 1 <= n
    BY <1>2
  <2>2. b1[i - 1] = b[i] - b[1] /\ b[i] \in Nat /\ b[i + 1] \in Nat /\ b[1] <= b[i]
    BY <1>7, <2>1
  <2>3. ms1[i] = ms[i + 1] /\ MsgLen(ms[i + 1]) \in Nat /\ b[i + 1] = b[i] + MsgLen(ms[i + 1])
    BY <1>1, <1>2b, <1>3, <2>1
  <2>4. b[i + 1] <= b[n]
    BY <1>1, <2>1
  <2>5. PICK k \in Nat, l \in Nat, x \in Nat, y \in Nat, z \in Nat, f \in Nat :
           /\ k = MsgLen(ms[i + 1]) /\ l = Len(st) /\ x = b[i] /\ y = b[i + 1] /\ z = b[n]
           /\ f = b[1]
    BY <1>2, <1>4, <2>2, <2>3
  <2>6. /\ y = x + k /\ y <= z /\ z = l + c /\ f <= x /\ c <= f /\ e = f - c /\ j \in 1..k
        /\ b1[i - 1] = x - f /\ e \in 0..l
    BY <1>1, <1>4, <1>5, <1>13, <2>2, <2>3, <2>4, <2>5
  <2>7. /\ x - f + j \in 1..l - e /\ e + (x - f + j) = x + j - c /\ x + j > c
        /\ x - f + j - 0 = x - f + j
    BY <2>6
  <2>8. st1[x - f + j] = st[x + j - c]
    BY <1>6, <2>5, <2>7
  <2>9. b[(i + 1) - 1] + j > c /\ j \in 1..MsgLen(ms[i + 1])
    BY <2>1, <2>5, <2>6, <2>7
  <2>10. st[b[(i + 1) - 1] + j - c] = TokenAt(ms[i + 1], j)
    BY <1>1, <2>1, <2>9
  <2>11. st[x + j - c] = TokenAt(ms[i + 1], j)
    BY <2>1, <2>5, <2>10
  <2>12. b1[i - 1] + j - 0 = x - f + j
    BY <2>6, <2>7
  <2> QED
    BY <2>3, <2>8, <2>11, <2>12
<1>14. Cut(ms1, st1, 0, b1)
  BY <1>3, <1>8, <1>9, <1>10, <1>11, <1>12, <1>13 DEF Cut
<1> QED
  BY <1>5, <1>14 DEF ms1, st1, e

\* r, of a ParseBuffer with rest behind what it was given, left ms or took the first.
TookOf(kind, r, rest, ms) ==
    /\ ~Running(r) /\ r.buf \in Seq(Tokens) /\ ms \in Seq(Msgs(kind)) /\ ms[1] \in Msgs(kind)
    /\ \/ /\ ~FinishParse(r.p) /\ (~r.ok => r.p.msg = ms[1])
          /\ Spells(kind, r.p, r.buf \o rest, ms)
       \/ /\ FinishParse(r.p) /\ r.ok /\ r.p.msg = ms[1]
          /\ Spells(kind, NewParser, r.buf \o rest, Tail(ms))

\* One ParseBuffer on what has been read of a stream: it ends; it leaves the messages
\* as they are before it, or takes the first one; what it refuses it knows the id of.
LEMMA SpellsParse ==
  ASSUME NEW kind \in Kinds, NEW p, NEW buf \in Seq(Tokens), NEW rest \in Seq(Tokens), NEW ms,
         Spells(kind, p, buf \o rest, ms), ms # <<>>,
         NEW r, r = ParseBuffer(kind, p, buf)
  PROVE  TookOf(kind, r, rest, ms)
<1> DEFINE st == buf \o rest
           m == ms[1]
<1>1. ms \in Seq(Msgs(kind)) /\ st \in Seq(Tokens)
  BY DEF Spells
<1>2. PICK c \in Nat : SpellsFrom(kind, p, st, ms, c)
  BY DEF Spells
<1>3. PICK b : Cut(ms, st, c, b)
  BY <1>2 DEF SpellsFrom
<1>4. c <= HeadLen(m) /\ p = Parsed(m, c)
  BY <1>2 DEF SpellsFrom
<1>5. Len(ms) \in Nat /\ 1 \in 1..Len(ms) /\ 0 \in 0..Len(ms)
  BY <1>1, EmptySeq, LenProperties
<1>6. m \in Msgs(kind) /\ HeadLen(m) \in Nat /\ MsgLen(m) \in Nat /\ HeadLen(m) <= MsgLen(m)
  BY <1>1, <1>5, EachMessage
<1>7. Len(buf) \in Nat /\ \A j \in 1..Len(buf) : st[j] = buf[j]
  BY Joined
<1>8. b[0] = 0 /\ \A j \in 1..MsgLen(m) : b[1 - 1] + j > c => st[b[1 - 1] + j - c] = TokenAt(m, j)
  BY <1>3, <1>5 DEF Cut
<1> HIDE DEF st, m
<1>9. Continues(m, c, buf)
  <2> SUFFICES ASSUME NEW i \in 1..Len(buf), c + i <= MsgLen(m)
               PROVE  buf[i] = TokenAt(m, c + i)
    BY DEF Continues
  <2>1. c + i \in 1..MsgLen(m) /\ 1 - 1 = 0 /\ 0 + (c + i) - c = i /\ 0 + (c + i) > c
    BY <1>6
  <2>2. st[0 + (c + i) - c] = TokenAt(m, c + i)
    BY <1>8, <2>1
  <2> QED
    BY <1>7, <2>1, <2>2
<1>10. c \in 0..HeadLen(m)
  BY <1>4, <1>6
<1>11. Ended(m, c, buf, ParseBuffer(kind, Parsed(m, c), buf))
  BY <1>6, <1>9, <1>10, ParseEnds
<1>12. Ended(m, c, buf, r)
  BY <1>4, <1>11
<1>13. ASSUME NEW d \in 0..Len(buf), c + d <= HeadLen(m), StoppedIn(m, c + d, Drop(buf, d), r)
       PROVE  /\ ~Running(r) /\ r.buf \in Seq(Tokens)
              /\ ~FinishParse(r.p) /\ (~r.ok => r.p.msg = m)
              /\ Spells(kind, r.p, r.buf \o rest, ms)
  <2>1. ~Running(r) /\ r.p = Parsed(m, c + d) /\ r.buf = Drop(buf, d) /\ (~r.ok => c + d > 0)
    BY <1>13 DEF StoppedIn
  <2>2. r.buf \in Seq(Tokens)
    BY <2>1, DropProperties
  <2>3. Drop(buf, d) \o rest = Drop(st, d) /\ d \in 0..Len(st)
    BY DropJoined DEF st
  <2>4. Cut(ms, Drop(st, d), c + d, b)
    BY <1>1, <1>3, <2>3, CutFurther
  <2>5. Drop(st, d) \in Seq(Tokens)
    BY <1>1, <2>3, DropProperties
  <2>6. c + d \in Nat
    BY <1>7
  <2>7. SpellsFrom(kind, r.p, Drop(st, d), ms, c + d)
    BY <1>13, <2>1, <2>4 DEF SpellsFrom, m
  <2>8. Spells(kind, r.p, Drop(st, d), ms)
    BY <1>1, <2>5, <2>6, <2>7 DEF Spells
  <2>9. Spells(kind, r.p, r.buf \o rest, ms)
    BY <2>1, <2>3, <2>8
  <2>10. ~FinishParse(r.p)
    <3>1. r.p.state = IF c + d = 0 THEN "kLine" ELSE IF c + d < HeadLen(m) THEN "kHeaders" ELSE "kBody"
      BY <2>1 DEF Parsed
    <3> QED
      BY <3>1 DEF FinishParse
  <2>11. ~r.ok => r.p.msg = m
    <3>1. r.p.msg = IF c + d = 0 THEN NoMessage ELSE m
      BY <2>1 DEF Parsed
    <3> QED
      BY <2>1, <2>6, <3>1
  <2> QED
    BY <2>1, <2>2, <2>9, <2>10, <2>11
<1>14. ASSUME StoppedBehind(m, c, buf, r)
       PROVE  /\ ~Running(r) /\ r.buf \in Seq(Tokens)
              /\ FinishParse(r.p) /\ r.ok /\ r.p.msg = m
              /\ Spells(kind, NewParser, r.buf \o rest, Tail(ms))
  <2> DEFINE e == MsgLen(m) - c
  <2>1. /\ ~Running(r) /\ r.ok /\ r.p.state = "kEnd" /\ r.p.msg = m
        /\ e \in 0..Len(buf) /\ r.buf = Drop(buf, e)
    BY <1>14 DEF StoppedBehind, Drop
  <2>2. \E b1 : Cut(Tail(ms), Drop(st, e), 0, b1)
    BY <1>1, <1>3, <1>4, CutTail DEF m
  <2> HIDE DEF e
  <2>3. r.buf \in Seq(Tokens)
    BY <2>1, DropProperties
  <2>4. Drop(buf, e) \o rest = Drop(st, e) /\ e \in 0..Len(st)
    BY <2>1, DropJoined DEF st
  <2>5. Drop(st, e) \in Seq(Tokens)
    BY <1>1, <2>4, DropProperties
  <2>6. Tail(ms) \in Seq(Msgs(kind))
    BY <1>1, HeadTailProperties
  <2>7. SpellsFrom(kind, NewParser, Drop(st, e), Tail(ms), 0)
    <3>1. CASE Tail(ms) = <<>>
      BY <2>2, <3>1 DEF SpellsFrom
    <3>2. CASE Tail(ms) # <<>>
      <4>1. 1 \in 1..Len(Tail(ms))
        BY <2>6, <3>2, EmptySeq, LenProperties
      <4>2. HeadLen(Tail(ms)[1]) \in Nat
        BY <2>6, <4>1, EachMessage
      <4>3. NewParser = Parsed(Tail(ms)[1], 0)
        BY DEF NewParser, Parsed
      <4> QED
        BY <2>2, <3>2, <4>2, <4>3 DEF SpellsFrom
    <3> QED
      BY <3>1, <3>2
  <2>8. Spells(kind, NewParser, Drop(st, e), Tail(ms))
    BY <2>5, <2>6, <2>7 DEF Spells
  <2>9. Spells(kind, NewParser, r.buf \o rest, Tail(ms))
    BY <2>1, <2>4, <2>8
  <2> QED
    BY <2>1, <2>3, <2>9 DEF FinishParse
<1> QED
  BY <1>1, <1>6, <1>12, <1>13, <1>14 DEF Ended, m, TookOf

-----------------------------------------------------------------------------
(* The invariant.                                                          *)

Scalars ==
    /\ made \in 0..MaxRequests
    /\ timer_ \in BOOLEAN /\ stale \in Nat
    /\ conn \in {"none", "connecting", "kConnected", "kDisconnecting"}
    /\ server \in {"none", "open", "half"}
    /\ spin \in BOOLEAN /\ takenBack \in BOOLEAN
    /\ broken \in BOOLEAN /\ serial \in BOOLEAN /\ framed \in BOOLEAN
    /\ DOMAIN told = Requests

\* Who waits in the queue q, of n requests made, was never told; they wait in the
\* order in which they were made.
QueueOf(q, n, t) ==
    /\ q \in Seq(Requested)
    /\ \A i \in 1..Len(q) : q[i].id <= n /\ t[q[i].id] = <<>>
    /\ \A i, j \in 1..Len(q) : i < j => q[i].id < q[j].id
    /\ \A r \in Requests : r > n => t[r] = <<>>

ToldOf(t, s) ==
    \A r \in Requests : Len(t[r]) <= 1 /\ (s /\ t[r] # <<>> => t[r][1] \in {r, NetworkError})

\* The two connections are there together; the attempt under way is the last request's;
\* the server's parser is done, on a connection that goes on, only if a close was taken back.
Ends ==
    /\ DOMAIN net = {"request", "response"} /\ net["request"] \in Seq(Tokens)
    /\ reqBuf \in Seq(Tokens) /\ IsParser(reqParser)
    /\ server = "open" /\ FinishParse(reqParser) => takenBack
    /\ Guarded <=> server # "none"
    /\ conn = "connecting" => queue_cb_ # <<>> /\ attempt = queue_cb_[Len(queue_cb_)]

\* The messages before both parsers, the server's while it still answers: no more of
\* them than callbacks waiting, and the first one's when requests are made one by one.
Answering == server = "open" /\ ~FinishParse(reqParser)
OfFirst(ms) == \A i \in 1..Len(ms) : ms[i].id = queue_cb_[1].id
Pending(rs, ms) ==
    /\ readbuf \in Seq(Tokens) /\ Spells("response", parser, readbuf \o net["response"], rs)
    /\ IF Answering THEN Spells("request", reqParser, reqBuf \o net["request"], ms) ELSE ms = <<>>
    /\ Len(rs) + Len(ms) <= Len(queue_cb_)
    /\ serial => OfFirst(rs) /\ OfFirst(ms)
Streams == \E rs, ms : Pending(rs, ms)

\* What holds as long as every body is announced as it is.
Clean ==
    /\ ~broken
    /\ queue_cb_ \in Seq(RequestMsgs)
    /\ net \in [{"request", "response"} -> Seq(Tokens)]
    /\ Guarded => Streams

HInv ==
    /\ Scalars
    /\ QueueOf(queue_cb_, made, told)
    /\ ToldOf(told, framed /\ serial)
    /\ serial => Len(queue_cb_) <= 1
    /\ Ends
    /\ framed => Clean

\* The id of a request.
LEMMA RequestedId ==
  ASSUME NEW m \in Requested
  PROVE  m.id \in Requests
<1>1. "request" \in Kinds /\ m \in Written("request")
  BY DEF Kinds, Written
<1> QED
  BY <1>1, WrittenFields, Zenon

\* A request that was just made waits behind the others.
LEMMA QueueOfAppend ==
  ASSUME NEW q, NEW n \in Nat, NEW t, QueueOf(q, n, t), NEW m \in Requested, m.id = n + 1
  PROVE  QueueOf(Append(q, m), n + 1, t)
<1> DEFINE l == Len(q)
           q1 == Append(q, m)
<1>1. q \in Seq(Requested) /\ l \in Nat
  BY LenProperties DEF QueueOf
<1>2. q1 \in Seq(Requested) /\ Len(q1) = l + 1 /\ (\A i \in 1..l : q1[i] = q[i]) /\ q1[l + 1] = m
  BY <1>1, AppendProperties
<1>3. \A i \in 1..l : q[i].id \in Nat /\ q[i] \in Requested
  <2> TAKE i \in 1..l
  <2>1. q[i] \in Requested
    BY <1>1, ElementOfSeq
  <2>2. q[i].id \in Requests
    BY <2>1, RequestedId, Zenon
  <2> QED
    BY <2>1, <2>2 DEF Requests
<1>4. m.id \in Requests /\ n + 1 \in Requests
  <2>1. m.id \in Requests
    BY RequestedId, Zenon
  <2> QED
    BY <2>1
<1>5. t[n + 1] = <<>>
  BY <1>4 DEF QueueOf
<1> HIDE DEF q1
<1>6. ASSUME NEW i \in 1..Len(q1) PROVE q1[i].id <= n + 1 /\ t[q1[i].id] = <<>>
  <2>1. CASE i \in 1..l
    <3>1. q1[i] = q[i] /\ q[i].id <= n /\ t[q[i].id] = <<>> /\ q[i].id \in Nat
      BY <1>2, <1>3, <2>1 DEF QueueOf
    <3>2. q[i].id <= n + 1
      BY <3>1
    <3> QED
      BY <3>1, <3>2
  <2>2. CASE i = l + 1
    <3>1. q1[i] = m
      BY <1>2, <2>2
    <3> QED
      BY <1>5, <3>1
  <2> QED
    BY <1>1, <1>2, <2>1, <2>2
<1>7. ASSUME NEW i \in 1..Len(q1), NEW j \in 1..Len(q1), i < j PROVE q1[i].id < q1[j].id
  <2>1. i \in 1..l /\ q1[i] = q[i] /\ q[i].id <= n /\ q[i].id \in Nat
    BY <1>1, <1>2, <1>3, <1>7 DEF QueueOf
  <2>2. CASE j \in 1..l
    <3>1. q1[j] = q[j] /\ q[i].id < q[j].id
      BY <1>2, <1>7, <2>1, <2>2 DEF QueueOf
    <3> QED
      BY <2>1, <3>1
  <2>3. CASE j = l + 1
    <3>1. q1[j] = m
      BY <1>2, <2>3
    <3> QED
      BY <2>1, <3>1
  <2> QED
    BY <1>1, <1>2, <2>2, <2>3
<1>8. ASSUME NEW r \in Requests, r > n + 1 PROVE t[r] = <<>>
  <2>1. r > n
    BY <1>8 DEF Requests
  <2> QED
    BY <2>1 DEF QueueOf
<1>9. QueueOf(q1, n + 1, t)
  BY <1>2, <1>6, <1>7, <1>8 DEF QueueOf
<1> QED
  BY <1>9 DEF q1

\* t1 is t with the first of the queue told o; it waits no more.
TellsFirst(q, n, t, t1, o) ==
    /\ DOMAIN t1 = Requests
    /\ QueueOf(Tail(q), n, t1)
    /\ Head(q).id \in Requests /\ t1[Head(q).id] = <<o>>
    /\ \A r \in Requests : r # Head(q).id => t1[r] = t[r]
    /\ Head(q) = q[1] /\ Len(q) \in Nat /\ Len(q) >= 1 /\ Len(Tail(q)) = Len(q) - 1

\* That is what telling the first of the queue does.
LEMMA QueueOfTail ==
  ASSUME NEW q, NEW n \in Nat, NEW t, DOMAIN t = Requests, QueueOf(q, n, t),
         q # <<>>, NEW o
  PROVE  TellsFirst(q, n, t, [t EXCEPT ![Head(q).id] = Append(@, o)], o)
<1> DEFINE l == Len(q)
           h == Head(q)
           q1 == Tail(q)
           t1 == [t EXCEPT ![h.id] = Append(@, o)]
<1>1. q \in Seq(Requested) /\ l \in Nat /\ l >= 1
  BY LenProperties, EmptySeq DEF QueueOf
<1>2. /\ h \in Requested /\ h = q[1] /\ q1 \in Seq(Requested) /\ Len(q1) = l - 1
      /\ \A i \in 1..l - 1 : q1[i] = q[i + 1]
  BY <1>1, HeadTailProperties
<1> HIDE DEF h, q1
<1>3. h.id \in Requests
  BY <1>2, RequestedId, Zenon
<1>4. t[h.id] = <<>> /\ h.id <= n
  BY <1>1, <1>2 DEF QueueOf
<1>5. \A i \in 1..l : q[i] \in Requested
  BY <1>1, ElementOfSeq
<1>6. \A i \in 1..l : q[i].id \in Requests
  BY <1>5, RequestedId, Zenon
<1>7. Append(t[h.id], o) = <<o>>
  BY <1>4
<1>8. /\ DOMAIN t1 = Requests /\ t1[h.id] = <<o>>
      /\ \A r \in Requests : r # h.id => t1[r] = t[r]
  BY <1>3, <1>7
<1> HIDE DEF t1
<1>9. ASSUME NEW i \in 1..Len(q1) PROVE q1[i].id <= n /\ t1[q1[i].id] = <<>>
  <2>1. i + 1 \in 1..l /\ 1 \in 1..l /\ 1 < i + 1 /\ i \in 1..l - 1
    BY <1>1, <1>2
  <2>2. q1[i] = q[i + 1] /\ q[i + 1].id <= n /\ t[q[i + 1].id] = <<>> /\ q[1].id < q[i + 1].id
    BY <1>2, <2>1 DEF QueueOf
  <2>3. q[i + 1].id \in Requests /\ q[i + 1].id # h.id
    BY <1>2, <1>3, <1>6, <2>1, <2>2 DEF Requests
  <2> QED
    BY <1>8, <2>2, <2>3
<1>10. ASSUME NEW i \in 1..Len(q1), NEW j \in 1..Len(q1), i < j PROVE q1[i].id < q1[j].id
  <2>1. i + 1 \in 1..l /\ j + 1 \in 1..l /\ i + 1 < j + 1 /\ i \in 1..l - 1 /\ j \in 1..l - 1
    BY <1>1, <1>2, <1>10
  <2>2. q[i + 1].id < q[j + 1].id
    BY <2>1 DEF QueueOf
  <2> QED
    BY <1>2, <2>1, <2>2
<1>11. ASSUME NEW r \in Requests, r > n PROVE t1[r] = <<>>
  <2>1. r # h.id
    BY <1>3, <1>4, <1>11 DEF Requests
  <2>2. t[r] = <<>>
    BY <1>11 DEF QueueOf
  <2> QED
    BY <1>8, <2>1, <2>2
<1>12. QueueOf(q1, n, t1)
  BY <1>2, <1>9, <1>10, <1>11 DEF QueueOf
<1>13. TellsFirst(q, n, t, t1, o)
  BY <1>1, <1>2, <1>3, <1>8, <1>12, Zenon DEF h, q1, TellsFirst
<1> QED
  BY <1>13, Zenon DEF t1, h

\* One more callback is called, with an error or with the response to its own request.
LEMMA ToldOfOne ==
  ASSUME NEW t, NEW s, ToldOf(t, s), NEW t1, NEW x \in Requests, NEW o, t1[x] = <<o>>,
         \A r \in Requests : r # x => t1[r] = t[r],
         s => o \in {x, NetworkError}
  PROVE  ToldOf(t1, s)
<1> SUFFICES ASSUME NEW r \in Requests
             PROVE  Len(t1[r]) <= 1 /\ (s /\ t1[r] # <<>> => t1[r][1] \in {r, NetworkError})
  BY DEF ToldOf
<1>1. CASE r = x
  <2>1. Len(<<o>>) <= 1 /\ <<o>>[1] = o
    OBVIOUS
  <2> QED
    BY <1>1, <2>1
<1>2. CASE r # x
  <2>1. t1[r] = t[r]
    BY <1>2
  <2> QED
    BY <2>1 DEF ToldOf
<1> QED
  BY <1>1, <1>2

\* What the invariant says of the runs' properties.
LEMMA HInvTypes ==
  ASSUME HInv
  PROVE  TypeOK
<1>1. queue_cb_ \in Seq(Requested) /\ Scalars
  BY Zenon DEF HInv, QueueOf
<1>2. queue_cb_ \in Seq({Request(r, k) : r \in Requests, k \in RequestKinds})
  BY <1>1 DEF Requested
<1>3. /\ made \in 0..MaxRequests /\ stale \in Nat
      /\ conn \in {"none", "connecting", "kConnected", "kDisconnecting"}
      /\ server \in {"none", "open", "half"} /\ DOMAIN told = Requests
  BY <1>1, Zenon DEF Scalars
<1>4. /\ timer_ \in BOOLEAN /\ spin \in BOOLEAN /\ takenBack \in BOOLEAN
      /\ broken \in BOOLEAN /\ serial \in BOOLEAN /\ framed \in BOOLEAN
  BY <1>1, Zenon DEF Scalars
<1> HIDE DEF HInv
<1> QED
  BY <1>2, <1>3, <1>4, SMT DEF TypeOK

\* A response under way has a callback waiting.
LEMMA HInvAsked ==
  ASSUME HInv
  PROVE  AlwaysAsked
<1> SUFFICES ASSUME framed, Guarded, net["response"] # <<>> PROVE queue_cb_ # <<>>
  BY Zenon DEF AlwaysAsked, ToClient
<1>1. Streams /\ queue_cb_ \in Seq(RequestMsgs) /\ net \in [{"request", "response"} -> Seq(Tokens)]
  BY Zenon DEF HInv, Clean
<1>2. PICK rs, ms : Pending(rs, ms)
  BY <1>1 DEF Streams
<1>3. /\ readbuf \in Seq(Tokens) /\ Spells("response", parser, readbuf \o net["response"], rs)
      /\ Len(rs) + Len(ms) <= Len(queue_cb_)
  BY <1>2 DEF Pending
<1>4. net["response"] \in Seq(Tokens)
  BY <1>1
<1>5. readbuf \o net["response"] # <<>>
  <2>1. Len(readbuf \o net["response"]) = Len(readbuf) + Len(net["response"])
    BY <1>3, <1>4, ConcatProperties
  <2>2. Len(readbuf) \in Nat /\ Len(net["response"]) \in Nat /\ Len(net["response"]) # 0
    BY <1>3, <1>4, EmptySeq, LenProperties
  <2> QED
    BY <2>1, <2>2
<1>6. Len(rs) >= 1 /\ rs \in Seq(Msgs("response"))
  BY <1>3, <1>5, SpellsSome DEF Kinds, Spells
<1>7. Len(ms) \in Nat
  <2>1. CASE Answering
    <3>1. ms \in Seq(Msgs("request"))
      BY <1>2, <2>1, Zenon DEF Pending, Spells
    <3> QED
      BY <3>1, LenProperties
  <2>2. CASE ~Answering
    <3>1. ms = <<>>
      BY <1>2, <2>2, Zenon DEF Pending
    <3> QED
      BY <3>1
  <2> QED
    BY <2>1, <2>2
<1>8. Len(rs) \in Nat /\ Len(queue_cb_) \in Nat
  BY <1>1, <1>6, LenProperties
<1>9. Len(queue_cb_) # 0
  BY <1>3, <1>6, <1>7, <1>8
<1> QED
  BY <1>9

\* OwnResponse, the second part of it for bodies that are announced.
OwnAnnounced ==
    /\ TypeOK
    /\ \A r \in Requests :
          /\ Len(told[r]) <= 1
          /\ framed /\ serial /\ told[r] # <<>> => told[r][1] \in {r, NetworkError}

\* What the callbacks were called with.
LEMMA HInvOwn ==
  ASSUME HInv
  PROVE  OwnAnnounced
<1>1. TypeOK
  BY HInvTypes
<1>2. ToldOf(told, framed /\ serial)
  BY Zenon DEF HInv
<1> QED
  BY <1>1, <1>2, Zenon DEF OwnAnnounced, ToldOf

\* A new parser.
LEMMA NewIsParser == IsParser(NewParser) /\ ~FinishParse(NewParser)
<1>1. NewParser = Fields("kLine", NoMessage, NoLength) /\ "kLine" \in ParserStates
  BY DEF NewParser, Fields, ParserStates
<1>2. IsParser(NewParser)
  BY <1>1, FieldsParser
<1> QED
  BY <1>2 DEF NewParser, FinishParse

\* The invariant holds at first.
LEMMA HInvInit ==
  ASSUME Init
  PROVE  HInv
<1>1. Scalars
  <2>1. made \in 0..MaxRequests /\ stale \in Nat
    BY BoundsAssumption DEF Init
  <2>2. /\ timer_ \in BOOLEAN /\ spin \in BOOLEAN /\ serial \in BOOLEAN
        /\ takenBack \in BOOLEAN /\ broken \in BOOLEAN /\ framed \in BOOLEAN
    BY Zenon DEF Init
  <2>3. /\ conn \in {"none", "connecting", "kConnected", "kDisconnecting"}
        /\ server \in {"none", "open", "half"}
    BY DEF Init
  <2>4. DOMAIN told = Requests
    BY DEF Init
  <2> QED
    BY <2>1, <2>2, <2>3, <2>4, Zenon DEF Scalars
<1>2. queue_cb_ = <<>> /\ made = 0 /\ told = [r \in Requests |-> <<>>] /\ conn = "none" /\ server = "none"
  BY DEF Init
<1>3. Len(<<>>) = 0 /\ 1..0 = {} /\ <<>> \in Seq(Requested) /\ <<>> \in Seq(RequestMsgs)
  OBVIOUS
<1>4. \A r \in Requests : told[r] = <<>>
  BY <1>2
<1>5. QueueOf(queue_cb_, made, told)
  BY <1>2, <1>3, <1>4 DEF QueueOf
<1>6. ToldOf(told, framed /\ serial)
  <2>1. \A r \in Requests : Len(told[r]) <= 1
    BY <1>4
  <2> QED
    BY <1>4, <2>1, Zenon DEF ToldOf
<1>7. Len(queue_cb_) <= 1
  BY <1>2
<1>8. ~Guarded /\ conn # "connecting"
  BY <1>2 DEF Guarded
<1>9. net \in [{"request", "response"} -> Seq(Tokens)] /\ reqBuf \in Seq(Tokens)
  BY DEF Init, Quiet, ToServer, ToClient
<1>10. Ends
  <2>1. DOMAIN net = {"request", "response"} /\ net["request"] \in Seq(Tokens)
    BY <1>9
  <2>2. IsParser(reqParser)
    BY NewIsParser DEF Init
  <2>3. server # "open"
    BY <1>2
  <2> QED
    BY <1>2, <1>8, <1>9, <2>1, <2>2, <2>3, Zenon DEF Ends
<1>11. Clean
  <2>1. ~broken
    BY Zenon DEF Init
  <2> QED
    BY <1>2, <1>3, <1>8, <1>9, <2>1, Zenon DEF Clean
<1> QED
  BY <1>1, <1>5, <1>6, <1>7, <1>10, <1>11, Zenon DEF HInv

\* A request, once it is made, is a message of the client's.
LEMMA MadeMessage ==
  ASSUME NEW n \in Nat, n < MaxRequests, NEW k \in RequestKinds
  PROVE  LET m == Request(n + 1, k)
         IN  m \in Requested /\ m.id = n + 1 /\ (FramedRequest(k) => m \in RequestMsgs)
<1>p. PICK m : m = Request(n + 1, k)
  OBVIOUS
<1>1. n + 1 \in Requests
  BY BoundsAssumption DEF Requests
<1>2. m \in Requested
  BY <1>p, <1>1 DEF Requested
<1>3. m.id = n + 1 /\ (m.post = k.post) /\ m.body = k.body /\ m.length = k.length
  BY <1>p, Zenon DEF Request
<1>4. FramedRequest(k) => FramedRequest(m)
  BY <1>3, Zenon DEF FramedRequest, Framed
<1>5. FramedRequest(k) => m \in RequestMsgs
  BY <1>2, <1>4, Zenon DEF RequestMsgs
<1> QED
  BY <1>p, <1>2, <1>3, <1>5, Zenon

\* The messages before the parsers, as sequences.
LEMMA PendingTypes ==
  ASSUME NEW rs, NEW ms, Pending(rs, ms)
  PROVE  /\ rs \in Seq(ResponseMsgs) /\ Len(rs) \in Nat
         /\ ms \in Seq(RequestMsgs) /\ Len(ms) \in Nat
<1>1. rs \in Seq(Msgs("response"))
  BY DEF Pending, Spells
<1>2. ms \in Seq(Msgs("request"))
  <2>1. CASE Answering
    BY <2>1, Zenon DEF Pending, Spells
  <2>2. CASE ~Answering
    <3>1. ms = <<>>
      BY <2>2, Zenon DEF Pending
    <3> QED
      BY <3>1
  <2> QED
    BY <2>1, <2>2
<1>3. Msgs("response") = ResponseMsgs /\ Msgs("request") = RequestMsgs
  BY DEF Msgs
<1> QED
  BY <1>1, <1>2, <1>3, LenProperties

\* DoHttpRequest: the request joins the queue and, on a connection, the stream.
LEMMA RequestStep ==
  ASSUME HInv, NEW k \in RequestKinds, DoHttpRequest(k)
  PROVE  HInv'
<1>p. PICK m : m = Request(made + 1, k)
  BY Zenon
<1>1. /\ Scalars /\ QueueOf(queue_cb_, made, told) /\ ToldOf(told, framed /\ serial)
      /\ (serial => Len(queue_cb_) <= 1) /\ Ends /\ (framed => Clean)
  BY Zenon DEF HInv
<1>2. /\ made < MaxRequests /\ ~broken /\ made' = made + 1
      /\ queue_cb_' = Append(queue_cb_, m)
      /\ (IF Guarded
          THEN net' = ClientSends(m) /\ UNCHANGED <<attempt, conn, timer_, stale>>
          ELSE FirstRequest(m))
      /\ serial' = (serial /\ queue_cb_ = <<>>)
      /\ framed' = (framed /\ FramedRequest(k))
      /\ UNCHANGED <<parser, readbuf, broken, serverVars, told>>
  BY <1>p, Zenon DEF DoHttpRequest
<1>3. /\ parser' = parser /\ readbuf' = readbuf /\ told' = told /\ server' = server
      /\ reqParser' = reqParser /\ reqBuf' = reqBuf /\ (spin' = spin)
      /\ (takenBack' = takenBack) /\ (broken' = broken)
  BY <1>2, Zenon DEF serverVars
<1>4. made \in Nat /\ MaxRequests \in Nat
  BY <1>1, BoundsAssumption DEF Scalars
<1>5. m \in Requested /\ m.id = made + 1 /\ (framed' => framed /\ m \in RequestMsgs)
  BY <1>p, <1>2, <1>4, MadeMessage, Zenon
<1>6. QueueOf(queue_cb_', made', told')
  BY <1>1, <1>2, <1>3, <1>4, <1>5, QueueOfAppend
<1>7. queue_cb_ \in Seq(Requested)
  BY <1>1 DEF QueueOf
<1>8. /\ Len(queue_cb_) \in Nat /\ Len(queue_cb_') = Len(queue_cb_) + 1 /\ queue_cb_' # <<>>
      /\ queue_cb_'[Len(queue_cb_')] = m
      /\ \A i \in 1..Len(queue_cb_) : queue_cb_'[i] = queue_cb_[i]
  <2>1. /\ Append(queue_cb_, m) \in Seq(Requested)
        /\ Len(Append(queue_cb_, m)) = Len(queue_cb_) + 1
        /\ \A i \in 1..Len(queue_cb_) : Append(queue_cb_, m)[i] = queue_cb_[i]
        /\ Append(queue_cb_, m)[Len(queue_cb_) + 1] = m
    BY <1>5, <1>7, AppendProperties
  <2>2. Len(queue_cb_) \in Nat
    BY <1>7, LenProperties
  <2>3. queue_cb_' # <<>>
    BY <1>2, <2>1, <2>2
  <2> QED
    BY <1>2, <2>1, <2>2, <2>3
<1>9. serial' => serial /\ queue_cb_ = <<>> /\ Len(queue_cb_) = 0
  <2>1. serial' => serial /\ queue_cb_ = <<>>
    BY <1>2, Zenon
  <2>2. queue_cb_ = <<>> => Len(queue_cb_) = 0
    OBVIOUS
  <2> QED
    BY <2>1, <2>2, Zenon
<1>10. ToldOf(told', framed' /\ serial')
  BY <1>1, <1>3, <1>5, <1>9, Zenon DEF ToldOf
<1>11. serial' => Len(queue_cb_') <= 1
  <2>1. Len(queue_cb_) = 0 => Len(queue_cb_') <= 1
    BY <1>8
  <2> QED
    BY <1>9, <2>1, Zenon
<1>12. /\ timer_' \in BOOLEAN /\ stale' \in Nat
       /\ conn' \in {"none", "connecting", "kConnected", "kDisconnecting"}
  <2>1. timer_ \in BOOLEAN /\ stale \in Nat /\ conn \in {"none", "connecting", "kConnected", "kDisconnecting"}
    BY <1>1, Zenon DEF Scalars
  <2>2. CASE Guarded
    <3>1. (timer_' = timer_) /\ stale' = stale /\ conn' = conn
      BY <1>2, <2>2, Zenon
    <3> QED
      BY <2>1, <3>1, Zenon
  <2>3. CASE ~Guarded
    <3>1. (timer_' = TRUE) /\ stale' = stale + (IF timer_ THEN 1 ELSE 0) /\ conn' = "connecting"
      BY <1>2, <2>3, Zenon DEF FirstRequest
    <3>2. timer_' \in BOOLEAN
      BY <3>1, Zenon
    <3>3. stale' \in Nat
      BY <2>1, <3>1
    <3>4. conn' \in {"none", "connecting", "kConnected", "kDisconnecting"}
      BY <3>1
    <3> QED
      BY <3>2, <3>3, <3>4
  <2> QED
    BY <2>2, <2>3
<1>13. Scalars'
  <2>1. made' \in 0..MaxRequests
    BY <1>2, <1>4
  <2>2. serial' \in BOOLEAN /\ framed' \in BOOLEAN
    BY <1>2, Zenon
  <2>3. /\ spin' \in BOOLEAN /\ takenBack' \in BOOLEAN /\ broken' \in BOOLEAN
        /\ server' \in {"none", "open", "half"} /\ DOMAIN told' = Requests
    BY <1>1, <1>3, Zenon DEF Scalars
  <2> QED
    BY <1>12, <2>1, <2>2, <2>3, Zenon DEF Scalars
<1>r. reqBuf' \in Seq(Tokens) /\ IsParser(reqParser') /\ (server' = "open" /\ FinishParse(reqParser') => takenBack')
  BY <1>1, <1>3, Zenon DEF Ends
<1>c. ASSUME framed' PROVE /\ ~broken' /\ queue_cb_' \in Seq(RequestMsgs) /\ m \in RequestMsgs
                           /\ net \in [{"request", "response"} -> Seq(Tokens)] /\ (Guarded => Streams)
  <2>1. m \in RequestMsgs /\ Clean
    BY <1>1, <1>5, <1>c, Zenon
  <2>2. queue_cb_ \in Seq(RequestMsgs)
    BY <2>1, Zenon DEF Clean
  <2>3. queue_cb_' \in Seq(RequestMsgs)
    BY <1>2, <2>1, <2>2, AppendProperties
  <2>4. ~broken'
    <3>1. ~broken /\ (broken' = broken)
      BY <1>2, <1>3, Zenon
    <3> QED
      BY <3>1, Zenon
  <2>5. net \in [{"request", "response"} -> Seq(Tokens)] /\ (Guarded => Streams)
    BY <2>1, Zenon DEF Clean
  <2> QED
    BY <2>1, <2>3, <2>4, <2>5
<1>14. CASE ~Guarded
  <2>1. net' = net /\ conn' = "connecting" /\ attempt' = m
    BY <1>2, <1>14, Zenon DEF FirstRequest
  <2>2. ~Guarded'
    BY <2>1 DEF Guarded
  <2>3. DOMAIN net' = {"request", "response"} /\ net'["request"] \in Seq(Tokens) /\ ~(server' # "none")
    BY <1>1, <1>3, <1>14, <2>1, Zenon DEF Ends
  <2>4. Ends'
    BY <1>8, <1>r, <2>1, <2>2, <2>3, Zenon DEF Ends
  <2>5. framed' => Clean'
    BY <1>c, <2>1, <2>2, Zenon DEF Clean
  <2> QED
    BY <1>6, <1>10, <1>11, <1>13, <2>4, <2>5, Zenon DEF HInv
<1>15. CASE Guarded
  <2>1. net' = ClientSends(m) /\ conn' = conn
    BY <1>2, <1>15, Zenon
  <2>2. conn # "connecting" /\ server # "none" /\ Guarded'
    BY <1>1, <1>15, <2>1 DEF Guarded, Ends
  <2>e. Ends'
    <3>1. DOMAIN net = {"request", "response"} /\ net["request"] \in Seq(Tokens)
      BY <1>1, Zenon DEF Ends
    <3>2. Message(m) \in Seq(Tokens)
      BY <1>5, MessageShape DEF Kinds, Written
    <3>3. net["request"] \o Message(m) \in Seq(Tokens)
      BY <3>1, <3>2, ConcatProperties
    <3>4. DOMAIN net' = {"request", "response"} /\ net'["request"] \in Seq(Tokens)
      BY <2>1, <3>1, <3>3 DEF ClientSends, ToServer
    <3>5. conn' # "connecting" /\ server' # "none"
      BY <1>3, <2>1, <2>2
    <3> QED
      BY <1>r, <2>2, <3>4, <3>5, Zenon DEF Ends
  <2>c. ASSUME framed' PROVE Streams' /\ net' \in [{"request", "response"} -> Seq(Tokens)]
    <3>5. m \in RequestMsgs /\ net \in [{"request", "response"} -> Seq(Tokens)] /\ Streams
      BY <1>c, <1>15, <2>c
    <3>3. PICK rs, ms : Pending(rs, ms)
      BY <3>5 DEF Streams
    <3>4. /\ rs \in Seq(ResponseMsgs) /\ Len(rs) \in Nat
          /\ ms \in Seq(RequestMsgs) /\ Len(ms) \in Nat /\ Len(rs) + Len(ms) <= Len(queue_cb_)
      BY <3>3, PendingTypes DEF Pending
    <3>6. Message(m) \in Seq(Tokens)
      BY <1>5, MessageShape DEF Kinds, Written
    <3>7. serial' => rs = <<>> /\ ms = <<>>
      <4>1. Len(queue_cb_) = 0 => Len(rs) = 0 /\ Len(ms) = 0
        BY <3>4
      <4>2. (Len(rs) = 0 => rs = <<>>) /\ (Len(ms) = 0 => ms = <<>>)
        BY <3>4, EmptySeq
      <4> QED
        BY <1>9, <4>1, <4>2, Zenon
    <3>r. reqBuf \in Seq(Tokens) /\ (Answering' <=> Answering)
      BY <1>1, <1>3, Zenon DEF Ends, Answering
    <3>s. (rs = <<>> => OfFirst(rs)') /\ (ms = <<>> => OfFirst(ms)')
      BY DEF OfFirst
    <3>8. ASSUME net' = net PROVE Streams'
      <4>1. /\ readbuf' \in Seq(Tokens) /\ Spells("response", parser', readbuf' \o net'["response"], rs)
            /\ IF Answering' THEN Spells("request", reqParser', reqBuf' \o net'["request"], ms)
               ELSE ms = <<>>
        BY <1>3, <3>3, <3>8, <3>r, Zenon DEF Pending
      <4>2. Len(rs) + Len(ms) <= Len(queue_cb_')
        BY <1>8, <3>4
      <4>4. serial' => OfFirst(rs)' /\ OfFirst(ms)'
        BY <3>7, <3>s, Zenon
      <4>5. Pending(rs, ms)'
        BY <4>1, <4>2, <4>4, Zenon DEF Pending
      <4> QED
        BY <4>5 DEF Streams
    <3>9. CASE conn = "kConnected"
      <4>1. net' = [net EXCEPT !["request"] = @ \o Message(m)]
        BY <2>1, <3>9 DEF ClientSends, ToServer
      <4>2. net'["response"] = net["response"] /\ net'["request"] = net["request"] \o Message(m)
        BY <3>5, <4>1
      <4>3. /\ reqBuf \o (net["request"] \o Message(m)) = (reqBuf \o net["request"]) \o Message(m)
            /\ net["request"] \o Message(m) \in Seq(Tokens)
        <5>1. PICK x, y, z : x = reqBuf /\ y = net["request"] /\ z = Message(m)
          OBVIOUS
        <5>2. x \in Seq(Tokens) /\ y \in Seq(Tokens) /\ z \in Seq(Tokens)
          BY <3>5, <3>6, <3>r, <5>1
        <5>3. x \o (y \o z) = (x \o y) \o z /\ y \o z \in Seq(Tokens)
          BY <5>2, JoinedBehind
        <5> QED
          BY <5>1, <5>3, Zenon
      <4>4. net' \in [{"request", "response"} -> Seq(Tokens)]
        BY <3>5, <4>1, <4>3
      <4>5. readbuf' \in Seq(Tokens) /\ Spells("response", parser', readbuf' \o net'["response"], rs)
        BY <1>3, <3>3, <4>2, Zenon DEF Pending
      <4>6. CASE Answering
        <5>1. Spells("request", reqParser, reqBuf \o net["request"], ms)
          BY <3>3, <4>6, Zenon DEF Pending
        <5>2. Spells("request", reqParser, (reqBuf \o net["request"]) \o Message(m), Append(ms, m))
          BY <3>5, <5>1, SpellsAppend DEF Kinds, Msgs
        <5>3. Spells("request", reqParser', reqBuf' \o net'["request"], Append(ms, m))
          BY <1>3, <4>2, <4>3, <5>2
        <5>4. Len(Append(ms, m)) = Len(ms) + 1 /\ Append(ms, m) \in Seq(RequestMsgs)
          BY <3>4, <3>5, AppendProperties
        <5>5. Len(rs) + Len(Append(ms, m)) <= Len(queue_cb_')
          BY <1>8, <3>4, <5>4
        <5>6. queue_cb_ = <<>> /\ ms = <<>> => OfFirst(Append(ms, m))'
          <6> SUFFICES ASSUME queue_cb_ = <<>>, ms = <<>> PROVE OfFirst(<<m>>)'
            OBVIOUS
          <6>1. queue_cb_'[1] = m
            BY <1>8
          <6> QED
            BY <6>1 DEF OfFirst
        <5>7. serial' => OfFirst(rs)' /\ OfFirst(Append(ms, m))'
          BY <1>9, <3>7, <3>s, <5>6, Zenon
        <5>8. Pending(rs, Append(ms, m))'
          BY <3>r, <4>5, <4>6, <5>3, <5>5, <5>7, Zenon DEF Pending
        <5> QED
          BY <4>4, <5>8 DEF Streams
      <4>7. CASE ~Answering
        <5>1. ms = <<>>
          BY <3>3, <4>7, Zenon DEF Pending
        <5>2. Len(rs) + Len(ms) <= Len(queue_cb_')
          BY <1>8, <3>4
        <5>3. serial' => OfFirst(rs)' /\ OfFirst(ms)'
          BY <3>7, <3>s, Zenon
        <5>4. Pending(rs, ms)'
          BY <3>r, <4>5, <4>7, <5>1, <5>2, <5>3, Zenon DEF Pending
        <5> QED
          BY <4>4, <5>4 DEF Streams
      <4> QED
        BY <4>6, <4>7, Zenon
    <3>10. CASE conn # "kConnected"
      <4>1. net' = net
        BY <2>1, <3>10 DEF ClientSends
      <4> QED
        BY <3>5, <3>8, <4>1
    <3> QED
      BY <3>9, <3>10
  <2>3. framed' => Clean'
    BY <1>c, <2>c, Zenon DEF Clean
  <2> QED
    BY <1>6, <1>10, <1>11, <1>13, <2>3, <2>e, Zenon DEF HInv
<1> QED
  BY <1>14, <1>15

\* The connection callback sends the last request; the earlier ones stay queued.
LEMMA ConnectedStep ==
  ASSUME HInv, Connected
  PROVE  HInv'
<1>1. /\ Scalars /\ QueueOf(queue_cb_, made, told) /\ ToldOf(told, framed /\ serial)
      /\ (serial => Len(queue_cb_) <= 1) /\ Ends /\ (framed => Clean)
  BY Zenon DEF HInv
<1>2. /\ conn = "connecting" /\ conn' = "kConnected" /\ (timer_' = FALSE)
      /\ parser' = NewParser /\ readbuf' = <<>>
      /\ net' = [Quiet EXCEPT !["request"] = Message(attempt)]
      /\ server' = "open" /\ reqParser' = NewParser /\ reqBuf' = <<>> /\ (takenBack' = FALSE)
      /\ made' = made /\ queue_cb_' = queue_cb_ /\ stale' = stale /\ (broken' = broken)
      /\ (spin' = spin) /\ (serial' = serial) /\ (framed' = framed) /\ told' = told
  BY Zenon DEF Connected, ToServer
<1>3. queue_cb_ \in Seq(Requested) /\ queue_cb_ # <<>> /\ attempt = queue_cb_[Len(queue_cb_)]
  BY <1>1, <1>2 DEF QueueOf, Ends
<1>p. PICK m : m = attempt
  OBVIOUS
<1>4. Len(queue_cb_) \in Nat /\ Len(queue_cb_) >= 1 /\ m \in Requested /\ m = queue_cb_[Len(queue_cb_)]
  <2>1. Len(queue_cb_) \in Nat /\ Len(queue_cb_) >= 1
    BY <1>3, EmptySeq, LenProperties
  <2> QED
    BY <1>p, <1>3, <2>1, ElementOfSeq
<1>5. Message(m) \in Seq(Tokens)
  BY <1>4, MessageShape DEF Kinds, Written
<1>6. /\ net' \in [{"request", "response"} -> Seq(Tokens)]
      /\ net'["request"] = Message(m) /\ net'["response"] = <<>>
  <2>1. Quiet \in [{"request", "response"} -> Seq(Tokens)] /\ Quiet["response"] = <<>>
    BY DEF Quiet, ToServer, ToClient
  <2> QED
    BY <1>p, <1>2, <1>5, <2>1
<1>7. Spells("response", parser', readbuf' \o net'["response"], <<>>)
  <2>1. readbuf' \o net'["response"] = <<>>
    BY <1>2, <1>6
  <2>2. Spells("response", NewParser, <<>>, <<>>)
    BY SpellsNothing DEF Kinds
  <2> QED
    BY <1>2, <2>1, <2>2
<1>8. ASSUME m \in RequestMsgs
      PROVE  Spells("request", reqParser', reqBuf' \o net'["request"], Append(<<>>, m))
  <2>1. Spells("request", NewParser, <<>>, <<>>)
    BY SpellsNothing DEF Kinds
  <2>2. Spells("request", NewParser, <<>> \o Message(m), Append(<<>>, m))
    BY <1>8, <2>1, SpellsAppend DEF Kinds, Msgs
  <2> QED
    BY <1>2, <1>6, <2>2, Zenon
<1>9. Len(<<>>) + Len(Append(<<>>, m)) <= Len(queue_cb_')
  BY <1>2, <1>4
<1>10. OfFirst(<<>>)'
  BY DEF OfFirst
<1>11. serial' => OfFirst(Append(<<>>, m))'
  <2>1. Len(queue_cb_) <= 1 => queue_cb_'[1] = m
    BY <1>p, <1>2, <1>3, <1>4
  <2>2. queue_cb_'[1] = m => OfFirst(Append(<<>>, m))'
    BY DEF OfFirst
  <2> QED
    BY <1>1, <1>2, <2>1, <2>2, Zenon
<1>12. readbuf' \in Seq(Tokens) /\ reqBuf' \in Seq(Tokens)
  BY <1>2
<1>n. IsParser(reqParser') /\ ~FinishParse(reqParser') /\ Answering'
  BY <1>2, NewIsParser DEF Answering
<1>c. ASSUME framed' PROVE Clean'
  <2>1. ~broken /\ queue_cb_ \in Seq(RequestMsgs)
    BY <1>1, <1>2, <1>c, Zenon DEF Clean
  <2>2. m \in RequestMsgs
    BY <1>4, <2>1, ElementOfSeq
  <2>3. Pending(<<>>, Append(<<>>, m))'
    BY <1>n, <1>7, <1>8, <1>9, <1>10, <1>11, <1>12, <2>2, Zenon DEF Pending
  <2>4. Streams'
    BY <2>3 DEF Streams
  <2> QED
    BY <1>2, <1>6, <2>1, <2>4, Zenon DEF Clean
<1>15. Ends'
  <2>1. DOMAIN net' = {"request", "response"} /\ net'["request"] \in Seq(Tokens)
    BY <1>6
  <2>2. Guarded' /\ server' # "none" /\ conn' # "connecting"
    BY <1>2 DEF Guarded
  <2> QED
    BY <1>n, <1>12, <2>1, <2>2, Zenon DEF Ends
<1>16. Scalars'
  <2>1. conn' \in {"none", "connecting", "kConnected", "kDisconnecting"} /\ server' \in {"none", "open", "half"}
    BY <1>2
  <2>2. timer_' \in BOOLEAN /\ takenBack' \in BOOLEAN
    BY <1>2, Zenon
  <2>3. /\ made' \in 0..MaxRequests /\ stale' \in Nat /\ DOMAIN told' = Requests
        /\ spin' \in BOOLEAN /\ serial' \in BOOLEAN /\ broken' \in BOOLEAN /\ framed' \in BOOLEAN
    BY <1>1, <1>2, Zenon DEF Scalars
  <2> QED
    BY <2>1, <2>2, <2>3, Zenon DEF Scalars
<1>17. QueueOf(queue_cb_', made', told') /\ ToldOf(told', framed' /\ serial') /\ (serial' => Len(queue_cb_') <= 1)
  BY <1>1, <1>2, Zenon
<1> QED
  BY <1>c, <1>15, <1>16, <1>17, Zenon DEF HInv

\* HandleClose tells whoever still waits, once.
LEMMA ResetStep ==
  ASSUME HInv, HandleReset
  PROVE  HInv'
<1>1. /\ Scalars /\ QueueOf(queue_cb_, made, told) /\ ToldOf(told, framed /\ serial) /\ Ends
      /\ (framed => Clean)
  BY Zenon DEF HInv
<1>2. /\ told' = [r \in Requests |-> IF Waiting(r) THEN Append(told[r], NetworkError) ELSE told[r]]
      /\ queue_cb_' = <<>> /\ conn' = "none" /\ server' = "none" /\ net' = Quiet
      /\ made' = made /\ (timer_' = timer_) /\ stale' = stale /\ (spin' = spin) /\ (serial' = serial)
      /\ (broken' = broken) /\ reqParser' = reqParser /\ reqBuf' = reqBuf
      /\ (takenBack' = takenBack) /\ (framed' = framed)
  BY Zenon DEF HandleReset, Left
<1>3. ASSUME NEW r \in Requests
      PROVE  /\ Len(told'[r]) <= 1
             /\ told'[r] = told[r] \/ (told'[r] = <<NetworkError>> /\ r <= made)
  <2>1. Len(told[r]) <= 1
    BY <1>1 DEF ToldOf
  <2>2. CASE ~Waiting(r)
    <3>1. told'[r] = told[r]
      BY <1>2, <2>2
    <3> QED
      BY <2>1, <3>1
  <2>3. CASE Waiting(r)
    <3>1. PICK i \in 1..Len(queue_cb_) : queue_cb_[i].id = r
      BY <2>3 DEF Waiting
    <3>2. told[r] = <<>> /\ r <= made
      BY <1>1, <3>1 DEF QueueOf
    <3>3. told'[r] = Append(told[r], NetworkError)
      BY <1>2, <2>3
    <3>4. told'[r] = <<NetworkError>>
      BY <3>2, <3>3
    <3> QED
      BY <3>2, <3>4
  <2> QED
    BY <2>2, <2>3
<1>4. DOMAIN told' = Requests
  BY <1>2
<1>5. ToldOf(told', framed' /\ serial')
  <2> SUFFICES ASSUME NEW r \in Requests
               PROVE  Len(told'[r]) <= 1 /\ (framed /\ serial /\ told'[r] # <<>> => told'[r][1] \in {r, NetworkError})
    BY <1>2, Zenon DEF ToldOf
  <2>1. CASE told'[r] = told[r]
    BY <1>1, <2>1, Zenon DEF ToldOf
  <2>2. CASE told'[r] = <<NetworkError>>
    <3>1. <<NetworkError>>[1] \in {r, NetworkError} /\ Len(<<NetworkError>>) <= 1
      OBVIOUS
    <3> QED
      BY <2>2, <3>1, Zenon
  <2> QED
    BY <1>3, <2>1, <2>2
<1>6. QueueOf(queue_cb_', made', told')
  <2>1. Len(<<>>) = 0 /\ 1..0 = {} /\ <<>> \in Seq(Requested)
    OBVIOUS
  <2>2. ASSUME NEW r \in Requests, r > made PROVE told'[r] = <<>>
    <3>1. told[r] = <<>>
      BY <1>1, <2>2 DEF QueueOf
    <3>2. ~(r <= made)
      BY <1>1, <2>2 DEF Requests, Scalars
    <3> QED
      BY <1>3, <3>1, <3>2
  <2> QED
    BY <1>2, <2>1, <2>2 DEF QueueOf
<1>7. Scalars'
  <2>1. conn' \in {"none", "connecting", "kConnected", "kDisconnecting"} /\ server' \in {"none", "open", "half"}
    BY <1>2
  <2>2. /\ made' \in 0..MaxRequests /\ stale' \in Nat /\ timer_' \in BOOLEAN
        /\ spin' \in BOOLEAN /\ serial' \in BOOLEAN
        /\ takenBack' \in BOOLEAN /\ broken' \in BOOLEAN /\ framed' \in BOOLEAN
    BY <1>1, <1>2, Zenon DEF Scalars
  <2> QED
    BY <1>4, <2>1, <2>2, Zenon DEF Scalars
<1>8. ~Guarded' /\ conn' # "connecting" /\ server' # "open" /\ server' = "none"
  BY <1>2 DEF Guarded
<1>q. net' \in [{"request", "response"} -> Seq(Tokens)]
  <2>1. Quiet \in [{"request", "response"} -> Seq(Tokens)]
    BY DEF Quiet, ToServer, ToClient
  <2> QED
    BY <1>2, <2>1
<1>9. Ends'
  <2>1. DOMAIN net' = {"request", "response"} /\ net'["request"] \in Seq(Tokens)
    BY <1>q
  <2>2. reqBuf' \in Seq(Tokens) /\ IsParser(reqParser')
    BY <1>1, <1>2, Zenon DEF Ends
  <2> QED
    BY <1>8, <2>1, <2>2, Zenon DEF Ends
<1>10. Len(queue_cb_') <= 1 /\ queue_cb_' \in Seq(RequestMsgs)
  BY <1>2
<1>11. framed' => ~broken'
  BY <1>1, <1>2, Zenon DEF Clean
<1>12. framed' => Clean'
  BY <1>8, <1>10, <1>11, <1>q, Zenon DEF Clean
<1> QED
  BY <1>5, <1>6, <1>7, <1>9, <1>10, <1>12, Zenon DEF HInv

\* HandleTimeout, whichever timer it is, tells the first and abandons the attempt.
LEMMA TimeoutStep ==
  ASSUME HInv, HandleTimeout
  PROVE  HInv'
<1>1. /\ Scalars /\ QueueOf(queue_cb_, made, told) /\ ToldOf(told, framed /\ serial)
      /\ (serial => Len(queue_cb_) <= 1) /\ Ends /\ (framed => Clean)
  BY Zenon DEF HInv
<1>2. /\ made' = made /\ attempt' = attempt /\ parser' = parser /\ readbuf' = readbuf /\ net' = net
      /\ server' = server /\ reqParser' = reqParser /\ reqBuf' = reqBuf /\ (spin' = spin)
      /\ (serial' = serial) /\ (takenBack' = takenBack) /\ (broken' = broken) /\ (framed' = framed)
  BY Zenon DEF HandleTimeout, serverVars
<1>3. timer_' \in BOOLEAN /\ stale' \in Nat
  <2>1. timer_ \in BOOLEAN /\ stale \in Nat
    BY <1>1, Zenon DEF Scalars
  <2>2. CASE timer_ /\ timer_' = FALSE /\ UNCHANGED stale
    <3>1. timer_' \in BOOLEAN
      BY <2>2, Zenon
    <3>2. stale' \in Nat
      BY <2>1, <2>2, Zenon
    <3> QED
      BY <3>1, <3>2
  <2>3. CASE stale > 0 /\ stale' = stale - 1 /\ UNCHANGED timer_
    <3>1. timer_' \in BOOLEAN
      BY <2>1, <2>3, Zenon
    <3>2. stale > 0 /\ stale' = stale - 1
      BY <2>3, Zenon
    <3>3. stale' \in Nat
      BY <2>1, <3>2
    <3> QED
      BY <3>1, <3>3
  <2> QED
    BY <2>2, <2>3, Zenon DEF HandleTimeout
<1>4. CASE ~(~Guarded /\ queue_cb_ # <<>>)
  <2>1. conn' = conn /\ queue_cb_' = queue_cb_ /\ told' = told
    BY <1>4, Zenon DEF HandleTimeout
  <2>2. Scalars'
    BY <1>1, <1>2, <1>3, <2>1, Zenon DEF Scalars
  <2>3. Guarded' = Guarded
    BY <2>1 DEF Guarded
  <2>4. Ends'
    BY <1>1, <1>2, <2>1, <2>3, Zenon DEF Ends
  <2>5. ASSUME NEW rs, NEW ms, Pending(rs, ms) PROVE Pending(rs, ms)'
    BY <1>2, <2>1, <2>5, Zenon DEF Pending, OfFirst, Answering
  <2>6. framed' => Clean'
    <3>1. Streams => Streams'
      BY <2>5, Zenon DEF Streams
    <3> QED
      BY <1>1, <1>2, <2>1, <2>3, <3>1, Zenon DEF Clean
  <2>7. QueueOf(queue_cb_', made', told') /\ ToldOf(told', framed' /\ serial') /\ (serial' => Len(queue_cb_') <= 1)
    BY <1>1, <1>2, <2>1, Zenon
  <2> QED
    BY <2>2, <2>4, <2>6, <2>7, Zenon DEF HInv
<1>5. CASE ~Guarded /\ queue_cb_ # <<>>
  <2>1. /\ conn' = "none" /\ queue_cb_' = Tail(queue_cb_)
        /\ told' = [told EXCEPT ![Head(queue_cb_).id] = Append(@, NetworkError)]
    BY <1>5, Zenon DEF HandleTimeout, Tell
  <2>2. DOMAIN told = Requests /\ made \in Nat
    BY <1>1 DEF Scalars
  <2>4. /\ DOMAIN told' = Requests
        /\ QueueOf(queue_cb_', made, told')
        /\ Head(queue_cb_).id \in Requests /\ told'[Head(queue_cb_).id] = <<NetworkError>>
        /\ \A r \in Requests : r # Head(queue_cb_).id => told'[r] = told[r]
        /\ Len(queue_cb_) \in Nat /\ Len(queue_cb_') = Len(queue_cb_) - 1
    <3>p. PICK q, t, t1, o : /\ q = queue_cb_ /\ t = told /\ o = NetworkError
                             /\ t1 = [t EXCEPT ![Head(q).id] = Append(@, o)]
      BY Zenon
    <3>1. QueueOf(q, made, t) /\ q # <<>> /\ DOMAIN t = Requests /\ made \in Nat
      BY <1>1, <1>5, <2>2, <3>p, Zenon
    <3>2. /\ DOMAIN t1 = Requests /\ QueueOf(Tail(q), made, t1)
          /\ Head(q).id \in Requests /\ t1[Head(q).id] = <<o>>
          /\ \A r \in Requests : r # Head(q).id => t1[r] = t[r]
          /\ Len(q) \in Nat /\ Len(Tail(q)) = Len(q) - 1
      <4>1. TellsFirst(q, made, t, t1, o)
        BY <3>1, <3>p, QueueOfTail, Zenon
      <4> QED
        BY <4>1, Zenon DEF TellsFirst
    <3>3. told' = t1 /\ queue_cb_' = Tail(q)
      BY <2>1, <3>p, Zenon
    <3> QED
      BY <3>2, <3>3, <3>p, Zenon
  <2>p. PICK x \in Requests : x = Head(queue_cb_).id
    BY <2>4
  <2>5. ToldOf(told', framed' /\ serial')
    <3>1. told'[x] = <<NetworkError>> /\ \A r \in Requests : r # x => told'[r] = told[r]
      BY <2>4, <2>p
    <3>2. NetworkError \in {x, NetworkError}
      OBVIOUS
    <3> QED
      BY <1>1, <1>2, <3>1, <3>2, ToldOfOne, Zenon
  <2>6. serial' => Len(queue_cb_') <= 1
    <3>1. Len(queue_cb_) <= 1 => Len(queue_cb_') <= 1
      BY <2>4
    <3> QED
      BY <1>1, <1>2, <3>1, Zenon
  <2>7. ~Guarded' /\ conn' # "connecting"
    BY <2>1 DEF Guarded
  <2>8. Ends'
    <3>1. /\ DOMAIN net' = {"request", "response"} /\ net'["request"] \in Seq(Tokens)
          /\ reqBuf' \in Seq(Tokens) /\ IsParser(reqParser')
      BY <1>1, <1>2, Zenon DEF Ends
    <3>2. server' = "none" /\ server' # "open"
      BY <1>1, <1>2, <1>5 DEF Ends
    <3> QED
      BY <2>7, <3>1, <3>2, Zenon DEF Ends
  <2>9. conn' \in {"none", "connecting", "kConnected", "kDisconnecting"}
    BY <2>1
  <2>10. Scalars'
    BY <1>1, <1>2, <1>3, <2>4, <2>9, Zenon DEF Scalars
  <2>11. QueueOf(queue_cb_', made', told')
    BY <1>2, <2>4, Zenon
  <2>12. ASSUME framed' PROVE Clean'
    <3>1. ~broken' /\ queue_cb_ \in Seq(RequestMsgs) /\ net' \in [{"request", "response"} -> Seq(Tokens)]
      <4>1. Clean
        BY <1>1, <1>2, <2>12, Zenon
      <4>2. ~broken /\ queue_cb_ \in Seq(RequestMsgs) /\ net \in [{"request", "response"} -> Seq(Tokens)]
        BY <4>1, Zenon DEF Clean
      <4> QED
        BY <1>2, <4>2, Zenon
    <3>2. queue_cb_' \in Seq(RequestMsgs)
      BY <1>5, <2>1, <3>1, HeadTailProperties
    <3> QED
      BY <2>7, <3>1, <3>2, Zenon DEF Clean
  <2> QED
    BY <2>5, <2>6, <2>8, <2>10, <2>11, <2>12, Zenon DEF HInv
<1> QED
  BY <1>4, <1>5

\* What the client's ParseBuffer does with what it has read of announced responses.
LEMMA ClientParses ==
  ASSUME HInv, framed, Guarded, NEW n \in 1..Len(net["response"]),
         NEW s, s = ParseBuffer("response", parser, readbuf \o SubSeq(net["response"], 1, n)),
         NEW rest, rest = SubSeq(net["response"], n + 1, Len(net["response"]))
  PROVE  \E rs, ms : Pending(rs, ms) /\ rs # <<>> /\ TookOf("response", s, rest, rs)
<1>p. PICK buf : buf = readbuf \o SubSeq(net["response"], 1, n)
  OBVIOUS
<1>c. Clean
  BY Zenon DEF HInv
<1>1. net["response"] \in Seq(Tokens) /\ Streams
  BY <1>c DEF Clean
<1>r. PICK rs, ms : Pending(rs, ms)
  BY <1>1 DEF Streams
<1>2. readbuf \in Seq(Tokens) /\ Spells("response", parser, readbuf \o net["response"], rs)
  BY <1>r DEF Pending
<1>3. /\ buf \in Seq(Tokens) /\ rest \in Seq(Tokens)
      /\ buf \o rest = readbuf \o net["response"]
  <2>1. PICK nt : nt = net["response"]
    OBVIOUS
  <2>2. nt \in Seq(Tokens) /\ readbuf \in Seq(Tokens) /\ n \in 1..Len(nt)
    BY <1>1, <1>2, <2>1
  <2>3. buf = readbuf \o SubSeq(nt, 1, n) /\ rest = SubSeq(nt, n + 1, Len(nt))
    BY <1>p, <2>1, Zenon
  <2>4. IsRead(buf, rest, readbuf \o nt)
    BY <2>2, <2>3, ReadParts, Zenon
  <2> QED
    BY <2>1, <2>4, Zenon DEF IsRead
<1>4. rs # <<>>
  <2>1. Len(readbuf \o net["response"]) = Len(readbuf) + Len(net["response"])
    BY <1>1, <1>2, ConcatProperties
  <2>2. Len(readbuf) \in Nat /\ Len(net["response"]) \in Nat /\ Len(net["response"]) >= 1
    BY <1>1, <1>2, LenProperties
  <2>3. readbuf \o net["response"] # <<>>
    BY <2>1, <2>2
  <2> QED
    BY <1>2, <2>3, SpellsSome DEF Kinds
<1>5. Spells("response", parser, buf \o rest, rs) /\ "response" \in Kinds
  BY <1>2, <1>3 DEF Kinds
<1>6. s = ParseBuffer("response", parser, buf)
  BY <1>p, Zenon
<1>7. buf \in Seq(Tokens) /\ rest \in Seq(Tokens)
  BY <1>3
<1>8. TookOf("response", s, rest, rs)
  BY <1>4, <1>5, <1>6, <1>7, SpellsParse, Zenon
<1> QED
  BY <1>r, <1>4, <1>8

\* HandleMessage: each response that is complete is taken with one callback, and there
\* is one as long as bodies were announced.
LEMMA MessageStep ==
  ASSUME HInv, NEW n \in 1..Len(net["response"]), HandleMessage(n)
  PROVE  HInv'
<1>1. /\ Scalars /\ QueueOf(queue_cb_, made, told) /\ ToldOf(told, framed /\ serial)
      /\ (serial => Len(queue_cb_) <= 1) /\ Ends /\ (framed => Clean)
  BY Zenon DEF HInv
<1>p. PICK rest : rest = SubSeq(net["response"], n + 1, Len(net["response"]))
  OBVIOUS
<1>s. PICK s : s = ParseBuffer("response", parser, readbuf \o SubSeq(net["response"], 1, n))
  OBVIOUS
<1>2. /\ Guarded /\ ~broken
      /\ net' = [net EXCEPT !["response"] = SubSeq(@, n + 1, Len(@))]
      /\ readbuf' = s.buf
      /\ conn' = (IF s.ok THEN conn ELSE "kDisconnecting")
      /\ (IF FinishParse(s.p)
          THEN /\ parser' = NewParser
               /\ broken' = (queue_cb_ = <<>>)
               /\ IF queue_cb_ = <<>> THEN UNCHANGED <<queue_cb_, told>>
                  ELSE queue_cb_' = Tail(queue_cb_) /\ Tell(Head(queue_cb_), s.p.msg.id)
          ELSE parser' = s.p /\ UNCHANGED <<queue_cb_, broken, told>>)
      /\ UNCHANGED <<made, attempt, timer_, stale, serverVars, serial, framed>>
  BY <1>s, Zenon DEF HandleMessage, ParseResponse, ToClient, Concludes
<1>3. /\ made' = made /\ (timer_' = timer_) /\ stale' = stale /\ server' = server
      /\ reqParser' = reqParser /\ reqBuf' = reqBuf /\ (spin' = spin) /\ (serial' = serial)
      /\ (takenBack' = takenBack) /\ (framed' = framed)
  BY <1>2, Zenon DEF serverVars
<1>4. server # "none" /\ DOMAIN net = {"request", "response"} /\ net["request"] \in Seq(Tokens)
  BY <1>1, <1>2 DEF Ends
<1>5. net'["response"] = rest /\ net'["request"] = net["request"] /\ DOMAIN net' = {"request", "response"}
  BY <1>p, <1>2, <1>4
<1>6. conn' \in {"kConnected", "kDisconnecting"} /\ Guarded'
  <2>1. conn \in {"kConnected", "kDisconnecting"}
    BY <1>2 DEF Guarded
  <2>2. conn' = conn \/ conn' = "kDisconnecting"
    BY <1>2, Zenon
  <2>3. conn' \in {"kConnected", "kDisconnecting"}
    BY <2>1, <2>2
  <2> QED
    BY <2>3 DEF Guarded
<1>7. Ends'
  <2>1. conn' # "connecting" /\ server' # "none"
    BY <1>3, <1>4, <1>6
  <2>2. /\ reqBuf' \in Seq(Tokens) /\ IsParser(reqParser')
        /\ (server' = "open" /\ FinishParse(reqParser') => takenBack')
    BY <1>1, <1>3, Zenon DEF Ends
  <2>3. DOMAIN net' = {"request", "response"} /\ net'["request"] \in Seq(Tokens)
    BY <1>4, <1>5
  <2> QED
    BY <1>6, <2>1, <2>2, <2>3, Zenon DEF Ends
<1>8. ASSUME broken' \in BOOLEAN, DOMAIN told' = Requests PROVE Scalars'
  <2>1. conn' \in {"none", "connecting", "kConnected", "kDisconnecting"}
    BY <1>6
  <2> QED
    BY <1>1, <1>3, <1>8, <2>1, Zenon DEF Scalars
<1>f. ASSUME framed PROVE \E rs, ms : Pending(rs, ms) /\ rs # <<>> /\ TookOf("response", s, rest, rs)
  BY <1>p, <1>s, <1>2, <1>f, ClientParses
\* What holds of the streams behind it, when rs1 and ms are the messages left.
<1>9. ASSUME framed, NEW rs, NEW ms, Pending(rs, ms), TookOf("response", s, rest, rs), NEW rs1,
             Spells("response", parser', s.buf \o rest, rs1),
             Len(rs1) + Len(ms) <= Len(queue_cb_'), serial => OfFirst(rs1)' /\ OfFirst(ms)',
             ~broken', queue_cb_' \in Seq(RequestMsgs)
      PROVE  Clean'
  <2>1. readbuf' \in Seq(Tokens) /\ Spells("response", parser', readbuf' \o net'["response"], rs1)
    <3>1. s.buf \in Seq(Tokens)
      BY <1>9, Zenon DEF TookOf
    <3> QED
      BY <1>2, <1>5, <1>9, <3>1, Zenon
  <2>2. IF Answering' THEN Spells("request", reqParser', reqBuf' \o net'["request"], ms) ELSE ms = <<>>
    BY <1>3, <1>5, <1>9, Zenon DEF Pending, Answering
  <2>3. Pending(rs1, ms)'
    BY <1>3, <1>9, <2>1, <2>2, Zenon DEF Pending
  <2>4. net' \in [{"request", "response"} -> Seq(Tokens)]
    <3>1. net \in [{"request", "response"} -> Seq(Tokens)]
      BY <1>1, <1>9, Zenon DEF Clean
    <3>2. rest \in Seq(Tokens)
      <4>1. net["response"] \in Seq(Tokens) /\ n \in 0..Len(net["response"])
        BY <3>1
      <4>2. Drop(net["response"], n) \in Seq(Tokens)
        BY <4>1, DropProperties
      <4> QED
        BY <1>p, <4>2 DEF Drop
    <3> QED
      BY <1>2, <1>p, <3>1, <3>2
  <2> QED
    BY <1>9, <2>3, <2>4, Zenon DEF Clean, Streams
<1>10. CASE ~FinishParse(s.p)
  <2>1. parser' = s.p /\ queue_cb_' = queue_cb_ /\ told' = told /\ (broken' = broken)
    BY <1>2, <1>10, Zenon
  <2>2. Scalars'
    BY <1>1, <1>8, <2>1, Zenon DEF Scalars
  <2>3. /\ QueueOf(queue_cb_', made', told') /\ ToldOf(told', framed' /\ serial')
        /\ (serial' => Len(queue_cb_') <= 1)
    BY <1>1, <1>3, <2>1, Zenon
  <2>4. ASSUME framed PROVE Clean'
    <3>1. PICK rs, ms : Pending(rs, ms) /\ rs # <<>> /\ TookOf("response", s, rest, rs)
      BY <1>f, <2>4
    <3>2. Spells("response", parser', s.buf \o rest, rs)
      BY <1>10, <2>1, <3>1, Zenon DEF TookOf
    <3>3. Len(rs) + Len(ms) <= Len(queue_cb_') /\ (serial => OfFirst(rs)' /\ OfFirst(ms)')
      BY <2>1, <3>1, Zenon DEF Pending, OfFirst
    <3>4. queue_cb_' \in Seq(RequestMsgs)
      BY <1>1, <2>1, <2>4, Zenon DEF Clean
    <3>5. ~broken'
      BY <1>2, <2>1, Zenon
    <3> QED
      BY <1>9, <2>4, <3>1, <3>2, <3>3, <3>4, <3>5, Zenon
  <2> QED
    BY <1>3, <1>7, <2>2, <2>3, <2>4, Zenon DEF HInv
<1>11. ASSUME framed, FinishParse(s.p) PROVE queue_cb_ # <<>>
  <2>1. PICK rs, ms : Pending(rs, ms) /\ rs # <<>> /\ TookOf("response", s, rest, rs)
    BY <1>f, <1>11
  <2>2. /\ rs \in Seq(ResponseMsgs) /\ Len(rs) \in Nat /\ Len(ms) \in Nat
        /\ Len(rs) + Len(ms) <= Len(queue_cb_)
    BY <2>1, PendingTypes DEF Pending
  <2>3. Len(rs) # 0
    BY <2>1, <2>2, EmptySeq
  <2>4. queue_cb_ = <<>> => Len(queue_cb_) = 0
    OBVIOUS
  <2> QED
    BY <2>2, <2>3, <2>4
<1>12. CASE FinishParse(s.p) /\ queue_cb_ = <<>>
  <2>1. queue_cb_' = queue_cb_ /\ told' = told /\ (broken' = TRUE)
    BY <1>2, <1>12, Zenon
  <2>2. broken' \in BOOLEAN
    BY <2>1, Zenon
  <2>3. Scalars'
    BY <1>1, <1>8, <2>1, <2>2, Zenon DEF Scalars
  <2>4. /\ QueueOf(queue_cb_', made', told') /\ ToldOf(told', framed' /\ serial')
        /\ (serial' => Len(queue_cb_') <= 1)
    BY <1>1, <1>3, <2>1, Zenon
  <2>5. ~framed'
    BY <1>3, <1>11, <1>12, Zenon
  <2> QED
    BY <1>7, <2>3, <2>4, <2>5, Zenon DEF HInv
<1>13. CASE FinishParse(s.p) /\ queue_cb_ # <<>>
  <2>p. PICK o : o = s.p.msg.id
    OBVIOUS
  <2>1. /\ parser' = NewParser /\ queue_cb_' = Tail(queue_cb_)
        /\ told' = [told EXCEPT ![Head(queue_cb_).id] = Append(@, o)]
    BY <1>2, <1>13, <2>p, Zenon DEF Tell
  <2>2. ~broken'
    <3>1. ~(queue_cb_ = <<>>) /\ (broken' = (queue_cb_ = <<>>))
      BY <1>2, <1>13, Zenon
    <3> QED
      BY <3>1, Zenon
  <2>3. broken' \in BOOLEAN
    <3>1. broken' = (queue_cb_ = <<>>)
      BY <1>2, <1>13, Zenon
    <3> QED
      BY <3>1, Zenon
  <2>4. DOMAIN told = Requests /\ made \in Nat
    BY <1>1 DEF Scalars
  <2>5. /\ DOMAIN told' = Requests
        /\ QueueOf(queue_cb_', made, told')
        /\ Head(queue_cb_).id \in Requests /\ told'[Head(queue_cb_).id] = <<o>>
        /\ \A r \in Requests : r # Head(queue_cb_).id => told'[r] = told[r]
        /\ Head(queue_cb_) = queue_cb_[1]
        /\ Len(queue_cb_) \in Nat /\ Len(queue_cb_') = Len(queue_cb_) - 1
    <3>p. PICK q, t, t1 : /\ q = queue_cb_ /\ t = told
                          /\ t1 = [t EXCEPT ![Head(q).id] = Append(@, o)]
      BY Zenon
    <3>1. QueueOf(q, made, t) /\ q # <<>> /\ DOMAIN t = Requests /\ made \in Nat
      BY <1>1, <1>13, <2>4, <3>p, Zenon
    <3>2. /\ DOMAIN t1 = Requests /\ QueueOf(Tail(q), made, t1)
          /\ Head(q).id \in Requests /\ t1[Head(q).id] = <<o>>
          /\ \A r \in Requests : r # Head(q).id => t1[r] = t[r]
          /\ Head(q) = q[1] /\ Len(q) \in Nat /\ Len(Tail(q)) = Len(q) - 1
      <4>1. TellsFirst(q, made, t, t1, o)
        BY <3>1, <3>p, QueueOfTail, Zenon
      <4> QED
        BY <4>1, Zenon DEF TellsFirst
    <3>3. told' = t1 /\ queue_cb_' = Tail(q)
      BY <2>1, <3>p, Zenon
    <3> QED
      BY <3>2, <3>3, <3>p, Zenon
  <2>x. PICK x \in Requests : x = Head(queue_cb_).id
    BY <2>5
  <2>6. framed /\ serial => o \in {x, NetworkError}
    <3> SUFFICES ASSUME framed, serial PROVE o = x
      BY Zenon
    <3>1. PICK rs, ms : Pending(rs, ms) /\ rs # <<>> /\ TookOf("response", s, rest, rs)
      BY <1>f
    <3>2. OfFirst(rs)
      BY <3>1, Zenon DEF Pending
    <3>3. s.p.msg = rs[1]
      BY <1>13, <3>1, Zenon DEF TookOf
    <3>4. rs \in Seq(ResponseMsgs)
      BY <3>1, PendingTypes, Zenon
    <3>5. 1 \in 1..Len(rs)
      BY <3>1, <3>4, EmptySeq, LenProperties
    <3>6. rs[1].id = queue_cb_[1].id
      BY <3>2, <3>5 DEF OfFirst
    <3> QED
      BY <2>p, <2>5, <2>x, <3>3, <3>6, Zenon
  <2>7. ToldOf(told', framed' /\ serial')
    <3>1. told'[x] = <<o>> /\ \A r \in Requests : r # x => told'[r] = told[r]
      BY <2>5, <2>x
    <3> QED
      BY <1>1, <1>3, <2>6, <3>1, ToldOfOne, Zenon
  <2>8. serial' => Len(queue_cb_') <= 0
    <3>1. Len(queue_cb_) <= 1 => Len(queue_cb_') <= 0
      BY <2>5
    <3> QED
      BY <1>1, <1>3, <3>1, Zenon
  <2>9. serial' => Len(queue_cb_') <= 1
    <3>1. Len(queue_cb_') <= 0 => Len(queue_cb_') <= 1
      BY <2>5
    <3> QED
      BY <2>8, <3>1, Zenon
  <2>10. Scalars'
    BY <1>8, <2>3, <2>5
  <2>11. ASSUME framed PROVE Clean'
    <3>1. PICK rs, ms : Pending(rs, ms) /\ rs # <<>> /\ TookOf("response", s, rest, rs)
      BY <1>f, <2>11
    <3>2. /\ rs \in Seq(ResponseMsgs) /\ Len(rs) \in Nat /\ Len(ms) \in Nat
          /\ Len(rs) + Len(ms) <= Len(queue_cb_)
      BY <3>1, PendingTypes DEF Pending
    <3>3. Len(Tail(rs)) = Len(rs) - 1
      BY <3>1, <3>2, HeadTailProperties
    <3>4. Len(Tail(rs)) + Len(ms) <= Len(queue_cb_') /\ Len(Tail(rs)) \in Nat
      <4>1. Len(rs) # 0
        BY <3>1, <3>2, EmptySeq
      <4> QED
        BY <2>5, <3>2, <3>3, <4>1
    <3>5. serial => OfFirst(Tail(rs))' /\ OfFirst(ms)'
      <4>1. Len(queue_cb_') <= 0 => 1..Len(Tail(rs)) = {} /\ 1..Len(ms) = {}
        BY <2>5, <3>2, <3>4
      <4>2. 1..Len(Tail(rs)) = {} /\ 1..Len(ms) = {} => OfFirst(Tail(rs))' /\ OfFirst(ms)'
        BY Zenon DEF OfFirst
      <4> QED
        BY <1>3, <2>8, <4>1, <4>2, Zenon
    <3>6. Spells("response", parser', s.buf \o rest, Tail(rs))
      BY <1>13, <2>1, <3>1, Zenon DEF TookOf
    <3>7. queue_cb_' \in Seq(RequestMsgs)
      <4>1. queue_cb_ \in Seq(RequestMsgs)
        BY <1>1, <2>11, Zenon DEF Clean
      <4> QED
        BY <1>13, <2>1, <4>1, HeadTailProperties
    <3> QED
      BY <1>9, <2>2, <2>11, <3>1, <3>4, <3>5, <3>6, <3>7, Zenon
  <2>12. QueueOf(queue_cb_', made', told')
    BY <1>3, <2>5, Zenon
  <2> QED
    BY <1>3, <1>7, <2>7, <2>9, <2>10, <2>11, <2>12, Zenon DEF HInv
<1> QED
  BY <1>10, <1>12, <1>13, Zenon

\* A server that shuts down answers no more: only responses under way count.
LEMMA ShutDownStep ==
  ASSUME HInv, ServerShutDown
  PROVE  HInv'
<1>1. /\ Scalars /\ QueueOf(queue_cb_, made, told) /\ ToldOf(told, framed /\ serial)
      /\ (serial => Len(queue_cb_) <= 1) /\ Ends /\ (framed => Clean)
  BY Zenon DEF HInv
<1>2. /\ server = "open" /\ server' = "half"
      /\ made' = made /\ queue_cb_' = queue_cb_ /\ attempt' = attempt /\ (timer_' = timer_)
      /\ stale' = stale /\ conn' = conn /\ parser' = parser /\ readbuf' = readbuf
      /\ net' = net /\ (spin' = spin) /\ (serial' = serial) /\ told' = told
      /\ reqParser' = reqParser /\ reqBuf' = reqBuf /\ (broken' = broken)
      /\ (takenBack' = takenBack) /\ (framed' = framed)
  BY Zenon DEF ServerShutDown, clientVars
<1>3. Guarded /\ Guarded'
  BY <1>1, <1>2 DEF Ends, Guarded
<1>4. server' # "open" /\ server' # "none" /\ server' \in {"none", "open", "half"} /\ ~Answering'
  BY <1>2 DEF Answering
<1>5. Ends'
  BY <1>1, <1>2, <1>3, <1>4, Zenon DEF Ends
<1>6. Scalars'
  BY <1>1, <1>2, <1>4, Zenon DEF Scalars
<1>7. /\ QueueOf(queue_cb_', made', told') /\ ToldOf(told', framed' /\ serial')
      /\ (serial' => Len(queue_cb_') <= 1)
  BY <1>1, <1>2, Zenon
<1>8. ASSUME framed PROVE Clean'
  <2>1. Clean
    BY <1>1, <1>8, Zenon
  <2>2. PICK rs, ms : Pending(rs, ms)
    BY <1>3, <2>1 DEF Clean, Streams
  <2>3. /\ rs \in Seq(ResponseMsgs) /\ Len(rs) \in Nat /\ queue_cb_ \in Seq(RequestMsgs)
        /\ ms \in Seq(RequestMsgs) /\ Len(ms) \in Nat /\ Len(rs) + Len(ms) <= Len(queue_cb_)
    BY <2>1, <2>2, PendingTypes DEF Pending, Clean
  <2>4. Len(rs) + Len(<<>>) <= Len(queue_cb_')
    <3>1. Len(queue_cb_) \in Nat
      BY <2>3, LenProperties
    <3> QED
      BY <1>2, <2>3, <3>1
  <2>5. OfFirst(<<>>)'
    BY DEF OfFirst
  <2>6. serial' => OfFirst(rs)'
    BY <1>2, <2>2, Zenon DEF Pending, OfFirst
  <2>7. readbuf' \in Seq(Tokens) /\ Spells("response", parser', readbuf' \o net'["response"], rs)
    BY <1>2, <2>2 DEF Pending
  <2>8. Pending(rs, <<>>)'
    BY <1>4, <2>4, <2>5, <2>6, <2>7, Zenon DEF Pending
  <2>9. Streams'
    BY <2>8 DEF Streams
  <2>10. ~broken' /\ queue_cb_' \in Seq(RequestMsgs) /\ net' \in [{"request", "response"} -> Seq(Tokens)]
    <3>1. ~broken /\ queue_cb_ \in Seq(RequestMsgs) /\ net \in [{"request", "response"} -> Seq(Tokens)]
      BY <2>1, Zenon DEF Clean
    <3> QED
      BY <1>2, <3>1, Zenon
  <2> QED
    BY <2>9, <2>10, Zenon DEF Clean
<1> QED
  BY <1>2, <1>5, <1>6, <1>7, <1>8, Zenon DEF HInv

\* What the server answers to a request has the request's id.
LEMMA RepliesAre ==
  ASSUME NEW r \in Requests
  PROVE  /\ BadRequest(r) \in ResponseMsgs /\ BadRequest(r).id = r
         /\ \A k \in ReplyKinds : Reply(r, k).id = r /\ (Framed(k) => Reply(r, k) \in ResponseMsgs)
<1>1. BadRequest(r) \in Replied /\ BadRequest(r).id = r /\ Framed(BadRequest(r))
  <2>1. BadRequest(r) \in Replied
    BY DEF Replied
  <2>2. BadRequest(r).id = r /\ BadRequest(r).length = NoLength /\ BadRequest(r).body = 0
    BY Zenon DEF BadRequest
  <2> QED
    BY <2>1, <2>2, Zenon DEF Framed
<1>2. ASSUME NEW k \in ReplyKinds
      PROVE  Reply(r, k).id = r /\ (Framed(k) => Reply(r, k) \in ResponseMsgs)
  <2>p. PICK x : x = Reply(r, k)
    OBVIOUS
  <2>1. x.id = r /\ x.length = k.length /\ x.body = k.body
    BY <2>p, Zenon DEF Reply
  <2>2. x \in Replied
    BY <2>p DEF Replied
  <2>3. Framed(k) => Framed(x)
    BY <2>1, Zenon DEF Framed
  <2> QED
    BY <2>p, <2>1, <2>2, <2>3, Zenon DEF ResponseMsgs
<1> QED
  BY <1>1, <1>2, Zenon DEF ResponseMsgs

\* s, of a ParseBuffer of parser p, is caught if the parser was done, and ends if not.
EndsOrSpins(s, p) ==
    /\ IsParser(s.p) /\ s.buf \in Seq(Tokens)
    /\ IF FinishParse(p) THEN Running(s) /\ s.p = p ELSE ~Running(s)

\* What the server's ParseBuffer does with whatever it has read.
LEMMA ServerEnds ==
  ASSUME HInv, NEW n \in 1..Len(net["request"]),
         NEW s, s = ParseBuffer("request", reqParser, reqBuf \o SubSeq(net["request"], 1, n)),
         NEW rest, rest = SubSeq(net["request"], n + 1, Len(net["request"]))
  PROVE  /\ EndsOrSpins(s, reqParser) /\ rest \in Seq(Tokens)
         /\ reqBuf \o SubSeq(net["request"], 1, n) \in Seq(Tokens)
         /\ (reqBuf \o SubSeq(net["request"], 1, n)) \o rest = reqBuf \o net["request"]
<1>p. PICK buf, nt : buf = reqBuf \o SubSeq(net["request"], 1, n) /\ nt = net["request"]
  OBVIOUS
<1>1. nt \in Seq(Tokens) /\ reqBuf \in Seq(Tokens) /\ n \in 1..Len(nt) /\ IsParser(reqParser)
  BY <1>p DEF HInv, Ends
<1>2. buf = reqBuf \o SubSeq(nt, 1, n) /\ rest = SubSeq(nt, n + 1, Len(nt))
  BY <1>p, Zenon
<1>3. IsRead(buf, rest, reqBuf \o nt)
  BY <1>1, <1>2, ReadParts, Zenon
<1>4. buf \in Seq(Tokens) /\ rest \in Seq(Tokens) /\ buf \o rest = reqBuf \o nt
  BY <1>3, Zenon DEF IsRead
<1>5. s = ParseBuffer("request", reqParser, buf)
  BY <1>p, Zenon
<1>6. CASE FinishParse(reqParser)
  <2>1. s = Rest(reqParser, buf, TRUE, TRUE)
    BY <1>4, <1>5, <1>6, ParseSpins, Zenon DEF FinishParse
  <2>t. PICK tt : tt = TRUE
    BY Zenon
  <2>u. PICK a : a = Rest(reqParser, buf, tt, tt)
    OBVIOUS
  <2>v. s = a
    BY <2>1, <2>t, <2>u, Zenon
  <2>r. a.p = reqParser /\ a.buf = buf /\ a.ok = tt /\ a.flag = tt
    BY <2>u DEF Rest
  <2>2. s.p = reqParser /\ s.buf = buf /\ s.ok /\ s.flag
    BY <2>t, <2>r, <2>v, Zenon
  <2>3. Running(s)
    BY <2>2, Zenon DEF Running
  <2>4. EndsOrSpins(s, reqParser)
    BY <1>1, <1>4, <1>6, <2>2, <2>3, Zenon DEF EndsOrSpins
  <2> QED
    BY <1>p, <1>4, <2>4, Zenon
<1>7. CASE ~FinishParse(reqParser)
  <2>1. reqParser.state # "kEnd"
    BY <1>7, Zenon DEF FinishParse
  <2>2. /\ IsParser(ParseBuffer("request", reqParser, buf).p)
        /\ ParseBuffer("request", reqParser, buf).buf \in Seq(Tokens)
        /\ ~Running(ParseBuffer("request", reqParser, buf))
    BY <1>1, <1>4, <2>1, ParseStops
  <2>3. EndsOrSpins(s, reqParser)
    BY <1>5, <1>7, <2>2, Zenon DEF EndsOrSpins
  <2> QED
    BY <1>p, <1>4, <2>3, Zenon
<1> QED
  BY <1>6, <1>7

\* What it does with announced requests, while it still answers.
LEMMA ServerParses ==
  ASSUME HInv, Answering, NEW n \in 1..Len(net["request"]), NEW rs, NEW ms, Pending(rs, ms),
         NEW s, s = ParseBuffer("request", reqParser, reqBuf \o SubSeq(net["request"], 1, n)),
         NEW rest, rest = SubSeq(net["request"], n + 1, Len(net["request"]))
  PROVE  TookOf("request", s, rest, ms) /\ ms # <<>>
<1>p. PICK buf : buf = reqBuf \o SubSeq(net["request"], 1, n)
  OBVIOUS
<1>1. net["request"] \in Seq(Tokens) /\ reqBuf \in Seq(Tokens)
  BY DEF HInv, Ends
<1>2. Spells("request", reqParser, reqBuf \o net["request"], ms)
  BY Zenon DEF Pending
<1>3. /\ buf \in Seq(Tokens) /\ rest \in Seq(Tokens)
      /\ buf \o rest = reqBuf \o net["request"]
  BY <1>p, ServerEnds, Zenon
<1>4. ms # <<>>
  <2>1. Len(reqBuf \o net["request"]) = Len(reqBuf) + Len(net["request"])
    BY <1>1, ConcatProperties
  <2>2. Len(reqBuf) \in Nat /\ Len(net["request"]) \in Nat /\ Len(net["request"]) >= 1
    BY <1>1, LenProperties
  <2>3. reqBuf \o net["request"] # <<>>
    BY <2>1, <2>2
  <2> QED
    BY <1>2, <2>3, SpellsSome DEF Kinds
<1>5. Spells("request", reqParser, buf \o rest, ms) /\ "request" \in Kinds
  BY <1>2, <1>3 DEF Kinds
<1>6. s = ParseBuffer("request", reqParser, buf)
  BY <1>p, Zenon
<1>7. buf \in Seq(Tokens) /\ rest \in Seq(Tokens)
  BY <1>3
<1>8. TookOf("request", s, rest, ms)
  BY <1>4, <1>5, <1>6, <1>7, SpellsParse, Zenon
<1> QED
  BY <1>4, <1>8

\* The client's stream when the server has written x at its end, and the queue's part.
LEMMA ReplyPends ==
  ASSUME Clean, NEW rs, NEW ms, Pending(rs, ms), NEW x \in ResponseMsgs, ms # <<>>, x.id = ms[1].id,
         NEW nt, nt = net["response"] \o Message(x)
  PROVE  /\ nt \in Seq(Tokens) /\ Spells("response", parser, readbuf \o nt, Append(rs, x))
         /\ Len(Append(rs, x)) + (Len(ms) - 1) <= Len(queue_cb_)
         /\ Len(Append(rs, x)) + 0 <= Len(queue_cb_)
         /\ serial => OfFirst(Append(rs, x))
<1>1. /\ rs \in Seq(ResponseMsgs) /\ Len(rs) \in Nat
      /\ ms \in Seq(RequestMsgs) /\ Len(ms) \in Nat /\ Len(rs) + Len(ms) <= Len(queue_cb_)
  BY PendingTypes DEF Pending
<1>2. net["response"] \in Seq(Tokens) /\ queue_cb_ \in Seq(RequestMsgs)
  BY DEF Clean
<1>3. readbuf \in Seq(Tokens) /\ Spells("response", parser, readbuf \o net["response"], rs)
  BY DEF Pending
<1>4. x \in Msgs("response") /\ "response" \in Kinds
  BY DEF Msgs, Kinds
<1>5. Message(x) \in Seq(Tokens)
  <2>1. x \in Written("response")
    BY <1>4, MsgFields, Zenon
  <2> QED
    BY <1>4, <2>1, MessageShape, Zenon
<1>6. Spells("response", parser, (readbuf \o net["response"]) \o Message(x), Append(rs, x))
  BY <1>3, <1>4, SpellsAppend
<1>7. readbuf \o nt = (readbuf \o net["response"]) \o Message(x) /\ nt \in Seq(Tokens)
  <2>p. PICK u, v, w : u = readbuf /\ v = net["response"] /\ w = Message(x)
    OBVIOUS
  <2>1. u \in Seq(Tokens) /\ v \in Seq(Tokens) /\ w \in Seq(Tokens)
    BY <1>2, <1>3, <1>5, <2>p, Zenon
  <2>2. u \o (v \o w) = (u \o v) \o w /\ v \o w \in Seq(Tokens)
    BY <2>1, JoinedBehind
  <2> QED
    BY <2>p, <2>2, Zenon
<1>8. Spells("response", parser, readbuf \o nt, Append(rs, x))
  BY <1>6, <1>7
<1>9. /\ Len(Append(rs, x)) = Len(rs) + 1 /\ Append(rs, x)[Len(rs) + 1] = x
      /\ \A i \in 1..Len(rs) : Append(rs, x)[i] = rs[i]
  BY <1>1, AppendProperties
<1>10. Len(ms) >= 1 /\ Len(queue_cb_) \in Nat
  BY <1>1, <1>2, EmptySeq, LenProperties
<1>11. OfFirst(rs) /\ OfFirst(ms) => OfFirst(Append(rs, x))
  <2> SUFFICES ASSUME OfFirst(rs), OfFirst(ms), NEW i \in 1..Len(Append(rs, x))
               PROVE  Append(rs, x)[i].id = queue_cb_[1].id
    BY DEF OfFirst
  <2>1. CASE i \in 1..Len(rs)
    BY <1>9, <2>1 DEF OfFirst
  <2>2. CASE i = Len(rs) + 1
    <3>1. 1 \in 1..Len(ms)
      BY <1>1, <1>10
    <3> QED
      BY <1>9, <2>2, <3>1 DEF OfFirst
  <2> QED
    BY <1>1, <1>9, <2>1, <2>2
<1>12. serial => OfFirst(Append(rs, x))
  BY <1>11, Zenon DEF Pending
<1>13. /\ Len(Append(rs, x)) + (Len(ms) - 1) <= Len(queue_cb_)
       /\ Len(Append(rs, x)) + 0 <= Len(queue_cb_)
  BY <1>1, <1>9, <1>10
<1> QED
  BY <1>7, <1>8, <1>12, <1>13

\* OnMessage: each request that is taken gives way to one response.
LEMMA OnMessageStep ==
  ASSUME HInv, NEW n \in 1..Len(net["request"]), OnMessage(n)
  PROVE  HInv'
<1>1. /\ Scalars /\ QueueOf(queue_cb_, made, told) /\ ToldOf(told, framed /\ serial)
      /\ (serial => Len(queue_cb_) <= 1) /\ Ends /\ (framed => Clean)
  BY Zenon DEF HInv
<1>p. PICK s, rest : /\ s = ParseBuffer("request", reqParser, reqBuf \o SubSeq(net["request"], 1, n))
                     /\ rest = SubSeq(net["request"], n + 1, Len(net["request"]))
  OBVIOUS
<1> DEFINE Goes == /\ (~FinishParse(s.p) /\ s.ok) \/ Running(s)
                   /\ net' = [net EXCEPT !["request"] = SubSeq(@, n + 1, Len(@))]
                   /\ reqParser' = s.p
                   /\ UNCHANGED <<server, takenBack, framed>>
           Refuses == /\ ~s.ok
                      /\ net' = [ServerSends(BadRequest(s.p.msg.id)) EXCEPT !["request"] = SubSeq(@, n + 1, Len(@))]
                      /\ reqParser' = s.p
                      /\ server' = "half"
                      /\ UNCHANGED <<takenBack, framed>>
           Answer(k) == /\ net' = [ServerSends(Reply(s.p.msg.id, k)) EXCEPT !["request"] = SubSeq(@, n + 1, Len(@))]
                        /\ server' = IF k.close THEN "half" ELSE server
                        /\ takenBack' = (takenBack \/ (s.p.msg.close /\ ~k.close))
                        /\ framed' = (framed /\ Framed(k))
           Answers == /\ FinishParse(s.p) /\ ~Running(s)
                      /\ reqParser' = AfterRequest(s.p)
                      /\ \E k \in ReplyKinds : Answer(k)
<1>2. /\ server # "none" /\ reqBuf' = s.buf /\ (spin' = Running(s))
      /\ (Goes \/ Refuses \/ Answers)
      /\ UNCHANGED <<clientVars, serial, told>>
  BY <1>p, Zenon DEF OnMessage, ParseRequest, ToServer
<1>3. /\ made' = made /\ queue_cb_' = queue_cb_ /\ attempt' = attempt /\ (timer_' = timer_)
      /\ stale' = stale /\ conn' = conn /\ parser' = parser /\ readbuf' = readbuf
      /\ (serial' = serial) /\ told' = told /\ (broken' = broken)
  BY <1>2, Zenon DEF clientVars
<1> HIDE DEF Goes, Refuses, Answer, Answers
<1>4. Guarded /\ Guarded' /\ conn' # "connecting" /\ server \in {"open", "half"}
  BY <1>1, <1>2, <1>3 DEF Ends, Guarded, Scalars
<1>5. EndsOrSpins(s, reqParser) /\ rest \in Seq(Tokens)
  BY <1>p, ServerEnds, Zenon
<1>6. IsParser(s.p) /\ s.buf \in Seq(Tokens)
  BY <1>5, Zenon DEF EndsOrSpins
<1>7. DOMAIN net = {"request", "response"}
  BY <1>1, Zenon DEF Ends
\* What becomes of the connection, whatever is written.
<1>8. ASSUME NEW x, net' = [ServerSends(x) EXCEPT !["request"] = SubSeq(@, n + 1, Len(@))]
      PROVE  DOMAIN net' = {"request", "response"} /\ net'["request"] = rest
  <2>1. PICK u : u = ServerSends(x)
    OBVIOUS
  <2>2. DOMAIN u = {"request", "response"} /\ u["request"] = net["request"]
    BY <1>7, <2>1 DEF ServerSends, ToClient
  <2>3. net' = [u EXCEPT !["request"] = rest]
    BY <1>p, <1>8, <2>1, <2>2
  <2> QED
    BY <2>2, <2>3
<1>9. ASSUME net' = [net EXCEPT !["request"] = SubSeq(@, n + 1, Len(@))]
      PROVE  /\ DOMAIN net' = {"request", "response"} /\ net'["request"] = rest
             /\ net'["response"] = net["response"]
  BY <1>p, <1>7, <1>9
<1>10. /\ DOMAIN net' = {"request", "response"} /\ net'["request"] = rest
       /\ server' \in {"open", "half"} /\ IsParser(reqParser')
       /\ (server' = "open" /\ FinishParse(reqParser') => takenBack')
       /\ takenBack' \in BOOLEAN /\ framed' \in BOOLEAN /\ (framed' => framed)
  <2>0. takenBack \in BOOLEAN /\ framed \in BOOLEAN
    BY <1>1, Zenon DEF Scalars
  <2>1. CASE Goes
    <3>1. /\ net' = [net EXCEPT !["request"] = SubSeq(@, n + 1, Len(@))] /\ reqParser' = s.p
          /\ server' = server /\ (takenBack' = takenBack) /\ (framed' = framed)
          /\ (~FinishParse(s.p) \/ Running(s))
      BY <2>1, Zenon DEF Goes
    <3>2. DOMAIN net' = {"request", "response"} /\ net'["request"] = rest
      BY <1>9, <3>1, Zenon
    <3>3. server' = "open" /\ FinishParse(reqParser') => takenBack'
      <4> SUFFICES ASSUME server' = "open", FinishParse(reqParser') PROVE takenBack'
        OBVIOUS
      <4>1. FinishParse(s.p) /\ server = "open"
        BY <3>1, Zenon
      <4>2. FinishParse(reqParser)
        BY <1>5, <3>1, <4>1, Zenon DEF EndsOrSpins
      <4>3. takenBack
        BY <1>1, <4>1, <4>2, Zenon DEF Ends
      <4> QED
        BY <3>1, <4>3, Zenon
    <3> QED
      BY <1>4, <1>6, <2>0, <3>1, <3>2, <3>3, Zenon
  <2>2. CASE Refuses
    <3>1. /\ reqParser' = s.p /\ server' = "half" /\ (takenBack' = takenBack) /\ (framed' = framed)
          /\ net' = [ServerSends(BadRequest(s.p.msg.id)) EXCEPT !["request"] = SubSeq(@, n + 1, Len(@))]
      BY <2>2, Zenon DEF Refuses
    <3>2. DOMAIN net' = {"request", "response"} /\ net'["request"] = rest
      BY <1>8, <3>1
    <3>3. server' \in {"open", "half"} /\ server' # "open"
      BY <3>1
    <3> QED
      BY <1>6, <2>0, <3>1, <3>2, <3>3, Zenon
  <2>3. CASE Answers
    <3>1. PICK k \in ReplyKinds : Answer(k)
      BY <2>3, Zenon DEF Answers
    <3>2. /\ net' = [ServerSends(Reply(s.p.msg.id, k)) EXCEPT !["request"] = SubSeq(@, n + 1, Len(@))]
          /\ server' = (IF k.close THEN "half" ELSE server)
          /\ takenBack' = (takenBack \/ (s.p.msg.close /\ ~k.close))
          /\ framed' = (framed /\ Framed(k))
      BY <3>1, Zenon DEF Answer
    <3>3. DOMAIN net' = {"request", "response"} /\ net'["request"] = rest
      BY <1>8, <3>2
    <3>4. takenBack' \in BOOLEAN /\ framed' \in BOOLEAN /\ (framed' => framed)
      BY <3>2, Zenon
    <3>5. server' = "half" \/ (server' = server /\ ~k.close)
      BY <3>2, Zenon
    <3>6. server' \in {"open", "half"}
      BY <1>4, <3>5
    <3>7. reqParser' = AfterRequest(s.p)
      BY <2>3, Zenon DEF Answers
    <3>8. IsParser(reqParser') /\ (FinishParse(reqParser') => s.p.msg.close)
      <4>1. CASE s.p.msg.close
        BY <1>6, <3>7, <4>1, Zenon DEF AfterRequest
      <4>2. CASE ~s.p.msg.close
        BY <3>7, <4>2, NewIsParser, Zenon DEF AfterRequest
      <4> QED
        BY <4>1, <4>2, Zenon
    <3>9. server' = "open" /\ FinishParse(reqParser') => takenBack'
      <4>1. server' = "half" => server' # "open"
        OBVIOUS
      <4> QED
        BY <3>2, <3>5, <3>8, <4>1, Zenon
    <3> QED
      BY <3>3, <3>4, <3>6, <3>8, <3>9, Zenon
  <2> QED
    BY <1>2, <2>1, <2>2, <2>3, Zenon
<1>11. Ends'
  <2>1. server' # "none" /\ reqBuf' \in Seq(Tokens) /\ net'["request"] \in Seq(Tokens)
    BY <1>2, <1>5, <1>6, <1>10
  <2> QED
    BY <1>4, <1>10, <2>1, Zenon DEF Ends
<1>12. Scalars'
  <2>1. server' \in {"none", "open", "half"}
    BY <1>10
  <2>2. spin' \in BOOLEAN
    BY <1>2, Zenon DEF Running
  <2> QED
    BY <1>1, <1>3, <1>10, <2>1, <2>2, Zenon DEF Scalars
<1>13. /\ QueueOf(queue_cb_', made', told') /\ ToldOf(told', framed' /\ serial')
       /\ (serial' => Len(queue_cb_') <= 1)
  BY <1>1, <1>3, <1>10, Zenon DEF ToldOf
<1>14. ASSUME framed' PROVE Clean'
  <2>1. framed /\ Clean
    BY <1>1, <1>10, <1>14, Zenon
  <2>2. /\ ~broken /\ queue_cb_ \in Seq(RequestMsgs)
        /\ net \in [{"request", "response"} -> Seq(Tokens)] /\ Streams
    BY <1>4, <2>1, Zenon DEF Clean
  <2>3. PICK rs, ms : Pending(rs, ms)
    BY <2>2 DEF Streams
  <2>4. /\ rs \in Seq(ResponseMsgs) /\ Len(rs) \in Nat
        /\ ms \in Seq(RequestMsgs) /\ Len(ms) \in Nat /\ Len(rs) + Len(ms) <= Len(queue_cb_)
    BY <2>3, PendingTypes DEF Pending
  <2>5. Len(queue_cb_) \in Nat /\ readbuf \in Seq(Tokens)
        /\ Spells("response", parser, readbuf \o net["response"], rs)
    BY <2>2, <2>3, LenProperties DEF Pending
  <2>6. OfFirst(<<>>)'
    BY DEF OfFirst
  <2>7. serial' => OfFirst(rs)' /\ OfFirst(ms)'
    BY <1>3, <2>3, Zenon DEF Pending, OfFirst
  \* It is enough to look at the streams.
  <2>8. ASSUME Streams', net'["response"] \in Seq(Tokens)
        PROVE  Clean'
    <3>1. net' \in [{"request", "response"} -> Seq(Tokens)]
      <4>1. net'["request"] \in Seq(Tokens) /\ DOMAIN net' = {"request", "response"}
        BY <1>5, <1>10
      <4>2. net' = [d \in {"request", "response"} |-> net'[d]]
        <5>1. \/ net' = [net EXCEPT !["request"] = SubSeq(@, n + 1, Len(@))]
              \/ \E x : net' = [ServerSends(x) EXCEPT !["request"] = SubSeq(@, n + 1, Len(@))]
          BY <1>2, Zenon DEF Goes, Refuses, Answers, Answer
        <5>2. CASE net' = [net EXCEPT !["request"] = SubSeq(@, n + 1, Len(@))]
          BY <2>2, <5>2
        <5>3. ASSUME NEW x, net' = [ServerSends(x) EXCEPT !["request"] = SubSeq(@, n + 1, Len(@))]
              PROVE  net' = [d \in {"request", "response"} |-> net'[d]]
          <6>1. PICK u : u = ServerSends(x)
            OBVIOUS
          <6>2. u = [d \in {"request", "response"} |-> u[d]]
            BY <2>2, <6>1 DEF ServerSends, ToClient
          <6> QED
            BY <5>3, <6>1, <6>2
        <5> QED
          BY <5>1, <5>2, <5>3, Zenon
      <4> QED
        BY <2>8, <4>1, <4>2
    <3>2. ~broken' /\ queue_cb_' \in Seq(RequestMsgs)
      BY <1>3, <2>2, Zenon
    <3> QED
      BY <2>8, <3>1, <3>2, Zenon DEF Clean
  \* Nothing is written, and the server answers no more.
  <2>9. ASSUME ~Answering', net'["response"] = net["response"]
        PROVE  Clean'
    <3>1. net'["response"] \in Seq(Tokens)
      BY <2>2, <2>9
    <3>2. readbuf' \in Seq(Tokens) /\ Spells("response", parser', readbuf' \o net'["response"], rs)
      BY <1>3, <2>5, <2>9, Zenon
    <3>3. Len(rs) + Len(<<>>) <= Len(queue_cb_')
      BY <1>3, <2>4, <2>5
    <3>4. Pending(rs, <<>>)'
      BY <2>6, <2>7, <2>9, <3>2, <3>3, Zenon DEF Pending
    <3> QED
      BY <2>8, <3>1, <3>4 DEF Streams
  <2>10. CASE server = "half"
    <3>1. \A m : ServerSends(m) = net
      BY <2>10 DEF ServerSends
    <3>2. server' = "half" /\ net' = [net EXCEPT !["request"] = SubSeq(@, n + 1, Len(@))]
      <4>1. CASE Goes
        BY <2>10, <4>1, Zenon DEF Goes
      <4>2. CASE Refuses
        BY <3>1, <4>2, Zenon DEF Refuses
      <4>3. CASE Answers
        BY <2>10, <3>1, <4>3, Zenon DEF Answers, Answer
      <4> QED
        BY <1>2, <4>1, <4>2, <4>3, Zenon
    <3>3. ~Answering'
      BY <3>2 DEF Answering
    <3> QED
      BY <1>9, <2>9, <3>2, <3>3
  <2>11. CASE FinishParse(reqParser)
    <3>1. Running(s) /\ s.p = reqParser
      BY <1>5, <2>11, Zenon DEF EndsOrSpins
    <3>2. Goes
      BY <1>2, <3>1, Zenon DEF Refuses, Answers, Running
    <3>3. reqParser' = reqParser /\ net' = [net EXCEPT !["request"] = SubSeq(@, n + 1, Len(@))]
      BY <3>1, <3>2, Zenon DEF Goes
    <3>4. ~Answering'
      BY <2>11, <3>3, Zenon DEF Answering
    <3> QED
      BY <1>9, <2>9, <3>3, <3>4
  <2>12. CASE server = "open" /\ ~FinishParse(reqParser)
    <3>a. Answering
      BY <2>12, Zenon DEF Answering
    <3>1. TookOf("request", s, rest, ms) /\ ms # <<>>
      BY <1>p, <2>3, <3>a, ServerParses, Zenon
    <3>2. /\ ~Running(s) /\ ms[1] \in RequestMsgs
          /\ \/ /\ ~FinishParse(s.p) /\ (~s.ok => s.p.msg = ms[1])
                /\ Spells("request", s.p, s.buf \o rest, ms)
             \/ /\ FinishParse(s.p) /\ s.ok /\ s.p.msg = ms[1]
                /\ Spells("request", NewParser, s.buf \o rest, Tail(ms))
      BY <3>1 DEF TookOf, Msgs
    <3>i. ms[1].id \in Requests
      BY <3>2, RequestedId, Zenon DEF RequestMsgs
    <3>3. CASE Goes
      <4>1. ~FinishParse(s.p)
        BY <3>2, <3>3, Zenon DEF Goes
      <4>2. reqParser' = s.p /\ server' = server /\ net' = [net EXCEPT !["request"] = SubSeq(@, n + 1, Len(@))]
        BY <3>3, Zenon DEF Goes
      <4>3. net'["response"] = net["response"] /\ net'["request"] = rest
        BY <1>9, <4>2, Zenon
      <4>4. Answering'
        BY <2>12, <4>1, <4>2, Zenon DEF Answering
      <4>5. Spells("request", reqParser', reqBuf' \o net'["request"], ms)
        BY <1>2, <3>2, <4>1, <4>2, <4>3, Zenon
      <4>6. readbuf' \in Seq(Tokens) /\ Spells("response", parser', readbuf' \o net'["response"], rs)
        BY <1>3, <2>5, <4>3, Zenon
      <4>7. Len(rs) + Len(ms) <= Len(queue_cb_')
        BY <1>3, <2>4
      <4>8. Pending(rs, ms)'
        BY <2>7, <4>4, <4>5, <4>6, <4>7, Zenon DEF Pending
      <4>9. net'["response"] \in Seq(Tokens)
        BY <2>2, <4>3
      <4> QED
        BY <2>8, <4>8, <4>9 DEF Streams
    \* x is written.
    <3>4. ASSUME NEW x \in ResponseMsgs, x.id = ms[1].id,
                 net' = [ServerSends(x) EXCEPT !["request"] = SubSeq(@, n + 1, Len(@))]
          PROVE  /\ net'["response"] \in Seq(Tokens) /\ readbuf' \in Seq(Tokens)
                 /\ Spells("response", parser', readbuf' \o net'["response"], Append(rs, x))
                 /\ Len(Append(rs, x)) + (Len(ms) - 1) <= Len(queue_cb_')
                 /\ Len(Append(rs, x)) + 0 <= Len(queue_cb_')
                 /\ serial' => OfFirst(Append(rs, x))'
      <4>1. PICK nt : nt = net["response"] \o Message(x)
        OBVIOUS
      <4>2. ServerSends(x) = [net EXCEPT !["response"] = nt]
        BY <2>2, <2>12, <4>1 DEF ServerSends, ToClient
      <4>3. /\ nt \in Seq(Tokens) /\ Spells("response", parser, readbuf \o nt, Append(rs, x))
            /\ Len(Append(rs, x)) + (Len(ms) - 1) <= Len(queue_cb_)
            /\ Len(Append(rs, x)) + 0 <= Len(queue_cb_)
            /\ serial => OfFirst(Append(rs, x))
        BY <2>1, <2>3, <3>1, <3>4, <4>1, ReplyPends, Zenon
      <4>4. net'["response"] = nt
        <5>1. PICK u : u = ServerSends(x)
          OBVIOUS
        <5>2. u \in [{"request", "response"} -> Seq(Tokens)] /\ u["response"] = nt
          BY <2>2, <4>2, <4>3, <5>1
        <5>3. net' = [u EXCEPT !["request"] = SubSeq(@, n + 1, Len(@))]
          BY <3>4, <5>1
        <5> QED
          BY <5>2, <5>3
      <4>5. readbuf' \in Seq(Tokens) /\ Spells("response", parser', readbuf' \o net'["response"], Append(rs, x))
        BY <1>3, <2>5, <4>3, <4>4, Zenon
      <4>6. serial' => OfFirst(Append(rs, x))'
        BY <1>3, <4>3, Zenon DEF OfFirst
      <4> QED
        BY <1>3, <4>3, <4>4, <4>5, <4>6, Zenon
    <3>5. ASSUME NEW x \in ResponseMsgs, x.id = ms[1].id, ~Answering',
                 net' = [ServerSends(x) EXCEPT !["request"] = SubSeq(@, n + 1, Len(@))]
          PROVE  Clean'
      <4>1. /\ net'["response"] \in Seq(Tokens) /\ readbuf' \in Seq(Tokens)
            /\ Spells("response", parser', readbuf' \o net'["response"], Append(rs, x))
            /\ Len(Append(rs, x)) + 0 <= Len(queue_cb_')
            /\ serial' => OfFirst(Append(rs, x))'
        BY <3>4, <3>5, Zenon
      <4>2. Len(<<>>) = 0
        OBVIOUS
      <4>3. Pending(Append(rs, x), <<>>)'
        BY <2>6, <3>5, <4>1, <4>2, Zenon DEF Pending
      <4> QED
        BY <2>8, <4>1, <4>3 DEF Streams
    <3>6. CASE Refuses
      <4>1. s.p.msg = ms[1]
        BY <3>2, <3>6, Zenon DEF Refuses
      <4>p. PICK x : x = BadRequest(ms[1].id)
        OBVIOUS
      <4>2. x \in ResponseMsgs /\ x.id = ms[1].id
        BY <3>i, <4>p, RepliesAre, Zenon
      <4>3. server' = "half" /\ net' = [ServerSends(x) EXCEPT !["request"] = SubSeq(@, n + 1, Len(@))]
        BY <3>6, <4>1, <4>p, Zenon DEF Refuses
      <4>4. ~Answering'
        BY <4>3 DEF Answering
      <4> QED
        BY <3>5, <4>2, <4>3, <4>4, Zenon
    <3>7. CASE Answers
      <4>1. FinishParse(s.p) /\ reqParser' = AfterRequest(s.p)
        BY <3>7, Zenon DEF Answers
      <4>2. s.p.msg = ms[1] /\ Spells("request", NewParser, s.buf \o rest, Tail(ms))
        BY <3>2, <4>1, Zenon
      <4>3. PICK k \in ReplyKinds : Answer(k)
        BY <3>7, Zenon DEF Answers
      <4>p. PICK x : x = Reply(s.p.msg.id, k)
        OBVIOUS
      <4>4. /\ net' = [ServerSends(x) EXCEPT !["request"] = SubSeq(@, n + 1, Len(@))]
            /\ server' = (IF k.close THEN "half" ELSE server)
            /\ framed' = (framed /\ Framed(k))
        BY <4>3, <4>p, Zenon DEF Answer
      <4>5. Framed(k)
        BY <1>14, <4>4, Zenon
      <4>6. x \in ResponseMsgs /\ x.id = ms[1].id
        BY <3>i, <4>2, <4>5, <4>p, RepliesAre, Zenon
      <4>7. CASE ~Answering'
        BY <3>5, <4>4, <4>6, <4>7, Zenon
      <4>8. CASE Answering'
        <5>1. reqParser' = NewParser
          <6>1. ~FinishParse(reqParser')
            BY <4>8, Zenon DEF Answering
          <6> QED
            BY <4>1, <6>1, Zenon DEF AfterRequest
        <5>2. /\ net'["response"] \in Seq(Tokens) /\ readbuf' \in Seq(Tokens)
              /\ Spells("response", parser', readbuf' \o net'["response"], Append(rs, x))
              /\ Len(Append(rs, x)) + (Len(ms) - 1) <= Len(queue_cb_')
              /\ serial' => OfFirst(Append(rs, x))'
          BY <3>4, <4>4, <4>6, Zenon
        <5>3. Len(Tail(ms)) = Len(ms) - 1 /\ \A i \in 1..Len(ms) - 1 : Tail(ms)[i] = ms[i + 1]
          BY <2>4, <3>1, HeadTailProperties
        <5>4. Len(Append(rs, x)) + Len(Tail(ms)) <= Len(queue_cb_')
          BY <5>2, <5>3, Zenon
        <5>5. serial' => OfFirst(Tail(ms))'
          <6>1. OfFirst(ms)' => OfFirst(Tail(ms))'
            <7> SUFFICES ASSUME \A i \in 1..Len(ms) : ms[i].id = queue_cb_'[1].id, NEW j \in 1..Len(Tail(ms))
                         PROVE  Tail(ms)[j].id = queue_cb_'[1].id
              BY DEF OfFirst
            <7>1. j + 1 \in 1..Len(ms) /\ j \in 1..Len(ms) - 1
              BY <2>4, <5>3
            <7> QED
              BY <5>3, <7>1
          <6> QED
            BY <2>7, <6>1, Zenon
        <5>6. Spells("request", reqParser', reqBuf' \o net'["request"], Tail(ms))
          BY <1>2, <1>10, <4>2, <5>1, Zenon
        <5>7. Pending(Append(rs, x), Tail(ms))'
          BY <4>8, <5>2, <5>4, <5>5, <5>6, Zenon DEF Pending
        <5> QED
          BY <2>8, <5>2, <5>7 DEF Streams
      <4> QED
        BY <4>7, <4>8, Zenon
    <3> QED
      BY <1>2, <3>3, <3>6, <3>7, Zenon
  <2> QED
    BY <1>4, <2>10, <2>11, <2>12
<1> QED
  BY <1>11, <1>12, <1>13, <1>14, Zenon DEF HInv

\* The invariant holds in every state.
THEOREM HttpClientInvariance == Spec => []HInv
<1>1. Init => HInv
  BY HInvInit
<1>2. HInv /\ [Next]_vars => HInv'
  <2> SUFFICES ASSUME HInv, [Next]_vars PROVE HInv'
    OBVIOUS
  <2>1. CASE UNCHANGED vars
    <3>1. /\ made' = made /\ queue_cb_' = queue_cb_ /\ attempt' = attempt /\ (timer_' = timer_)
          /\ stale' = stale /\ conn' = conn /\ parser' = parser /\ readbuf' = readbuf
          /\ net' = net /\ server' = server /\ reqParser' = reqParser /\ reqBuf' = reqBuf
          /\ (spin' = spin) /\ (serial' = serial) /\ told' = told /\ (broken' = broken)
          /\ (takenBack' = takenBack) /\ (framed' = framed)
      BY <2>1, Zenon DEF vars, clientVars, serverVars
    <3>2. Scalars' /\ Ends' /\ (Guarded' <=> Guarded)
      <4>1. Scalars'
        BY <3>1, Zenon DEF HInv, Scalars
      <4>2. Guarded' <=> Guarded
        BY <3>1, Zenon DEF Guarded
      <4>3. Ends'
        BY <3>1, <4>2, Zenon DEF HInv, Ends
      <4> QED
        BY <4>1, <4>2, <4>3
    <3>3. ASSUME NEW rs, NEW ms, Pending(rs, ms) PROVE Pending(rs, ms)'
      BY <3>1, <3>3, Zenon DEF Pending, OfFirst, Answering
    <3>4. framed' => Clean'
      <4>1. Streams => Streams'
        BY <3>3, Zenon DEF Streams
      <4> QED
        BY <3>1, <3>2, <4>1, Zenon DEF HInv, Clean
    <3>5. /\ QueueOf(queue_cb_', made', told') /\ ToldOf(told', framed' /\ serial')
          /\ (serial' => Len(queue_cb_') <= 1)
      BY <3>1, Zenon DEF HInv
    <3> QED
      BY <3>2, <3>4, <3>5, Zenon DEF HInv
  <2>2. ASSUME NEW k \in RequestKinds, DoHttpRequest(k) PROVE HInv'
    BY <2>2, RequestStep
  <2>3. CASE Connected
    BY <2>3, ConnectedStep
  <2>4. ASSUME NEW n \in 1..Len(net[ToClient]), HandleMessage(n) PROVE HInv'
    BY <2>4, MessageStep DEF ToClient
  <2>5. CASE HandleClose \/ HandleReset
    BY <2>5, ResetStep DEF HandleClose
  <2>6. CASE HandleTimeout
    BY <2>6, TimeoutStep
  <2>7. ASSUME NEW n \in 1..Len(net[ToServer]), OnMessage(n) PROVE HInv'
    BY <2>7, OnMessageStep DEF ToServer
  <2>8. CASE ServerShutDown
    BY <2>8, ShutDownStep
  <2> QED
    BY <2>1, <2>2, <2>3, <2>4, <2>5, <2>6, <2>7, <2>8, Zenon DEF Next
<1> QED
  BY <1>1, <1>2, PTL DEF Spec

\* HandleMessage does not find queue_cb_ empty (http_client.cc:68), whatever was requested,
\* timed out, was reset or abandoned before, as long as every body on the way so far had a
\* Content-Length that fits: no more responses come than callbacks wait.
THEOREM ResponsesAreAwaited == Spec => []AlwaysAsked
<1>1. HInv => AlwaysAsked
  BY HInvAsked
<1> QED
  BY <1>1, HttpClientInvariance, PTL

\* No callback is called twice, whatever bodies are sent; when requests are made one at a
\* time and bodies announced, none is called with the response to another request.
THEOREM ResponsesAreTheirOwn == Spec => []OwnAnnounced
<1>1. HInv => OwnAnnounced
  BY HInvOwn
<1> QED
  BY <1>1, HttpClientInvariance, PTL

\* ParseBuffer ends on whatever pieces of whatever was sent, announced or not, unless the
\* server has shut the connection down or http_cb_ has taken back a close the request asked
\* for (http_server.cc:85-98): else the loop's thread is not caught there.
THEOREM KeptAliveEnds == Spec => KeepAliveNeverSpins
<1>1. HInv /\ [Next]_vars => [~spin /\ spin' => server = "half" \/ takenBack]_vars
  <2> SUFFICES ASSUME HInv, Next, ~spin, spin' PROVE server = "half" \/ takenBack
    BY Zenon
  <2>1. ASSUME NEW k \in RequestKinds, DoHttpRequest(k) PROVE FALSE
    BY <2>1, Zenon DEF DoHttpRequest, serverVars
  <2>2. CASE Connected
    BY <2>2, Zenon DEF Connected
  <2>3. ASSUME NEW n \in 1..Len(net[ToClient]), HandleMessage(n) PROVE FALSE
    BY <2>3, Zenon DEF HandleMessage, serverVars
  <2>4. CASE HandleClose \/ HandleReset
    BY <2>4, Zenon DEF HandleClose, HandleReset
  <2>5. CASE HandleTimeout
    BY <2>5, Zenon DEF HandleTimeout, serverVars
  <2>6. ASSUME NEW n \in 1..Len(net[ToServer]), OnMessage(n) PROVE server = "half" \/ takenBack
    <3>p. PICK s, rest : /\ s = ParseBuffer("request", reqParser, reqBuf \o SubSeq(net["request"], 1, n))
                         /\ rest = SubSeq(net["request"], n + 1, Len(net["request"]))
      OBVIOUS
    <3>1. server # "none" /\ (spin' = Running(s))
      BY <2>6, <3>p, Zenon DEF OnMessage, ParseRequest, ToServer
    <3>2. Running(s)
      BY <3>1, Zenon
    <3>3. server \in {"none", "open", "half"}
      BY Zenon DEF HInv, Scalars
    <3>4. n \in 1..Len(net["request"])
      BY DEF ToServer
    <3>5. EndsOrSpins(s, reqParser)
      BY <3>p, <3>4, ServerEnds, Zenon
    <3>6. FinishParse(reqParser)
      BY <3>2, <3>5, Zenon DEF EndsOrSpins
    <3>7. server = "open" => takenBack
      BY <3>6, Zenon DEF HInv, Ends
    <3>8. server = "open" \/ server = "half"
      BY <3>1, <3>3
    <3> QED
      BY <3>7, <3>8, Zenon
  <2>7. CASE ServerShutDown
    BY <2>7, Zenon DEF ServerShutDown
  <2> QED
    BY <2>1, <2>2, <2>3, <2>4, <2>5, <2>6, <2>7, Zenon DEF Next
<1> QED
  BY <1>1, HttpClientInvariance, PTL DEF Spec, KeepAliveNeverSpins
=============================================================================
