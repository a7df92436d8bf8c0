-------------------------------- MODULE Json --------------------------------
(***************************************************************************)
(* util/json: the writer and the recursive-descent reader.  A text is a    *)
(* sequence of character codes; a value is a record whose fields the type  *)
(* does not use are empty, and an object's members a set of <<key, value>> *)
(* with one member per key.                                                *)
(***************************************************************************)
EXTENDS Integers, Sequences, SequencesExt

Value(type, s, elems, members) ==
    [type |-> type, s |-> s, elems |-> elems, members |-> members]
String(s)  == Value("string", s, <<>>, {})
Num(s)     == Value("num", s, <<>>, {})      \* s is the numeral it is printed as
Boolean(s) == Value("boolean", s, <<>>, {})  \* s is the word it is printed as
Array(e)   == Value("array", <<>>, e, {})
Obj(m)     == Value("obj", <<>>, <<>>, m)
Null       == Value("null", <<>>, <<>>, {})

Space == 32
Quote == 34
Comma == 44
Slash == 47
Colon == 58
Backslash == 92
LF == 10
White == {Space, 9, 13, LF}
Digits == 48..57
trueWord  == <<116, 114, 117, 101>>
falseWord == <<102, 97, 108, 115, 101>>
nullWord  == <<110, 117, 108, 108>>

\* The letter written after a backslash for a character, and its inverse.
Escapes == (Quote :> Quote @@ Backslash :> Backslash @@ Slash :> Slash
            @@ 8 :> 98 @@ 12 :> 102 @@ LF :> 110 @@ 13 :> 114 @@ 9 :> 116)

HexDigit(n) == IF n < 10 THEN 48 + n ELSE 87 + n

\* A mutant: a backslash is copied.
EscapedButBackslash(c) ==
    IF c \in DOMAIN Escapes \ {Backslash} THEN <<Backslash, Escapes[c]>> ELSE <<c>>

Escaped(c) ==
    CASE c \in DOMAIN Escapes -> <<Backslash, Escapes[c]>>
      [] c \notin DOMAIN Escapes /\ c < 32
           -> <<Backslash, 117, 48, 48, HexDigit(c \div 16), HexDigit(c % 16)>>
      [] OTHER -> <<c>>

WriteString(s) ==
    <<Quote>> \o FlattenSeq([i \in DOMAIN s |-> Escaped(s[i])]) \o <<Quote>>

\* Texts with ", " between them, as WriteObj and WriteArray put it.
Listed(texts) ==
    FlattenSeq([i \in DOMAIN texts |-> IF i = 1 THEN texts[i] ELSE <<Comma, Space>> \o texts[i]])

RECURSIVE Stringify(_)
WriteArray(v) ==
    <<91, Space>> \o Listed([i \in DOMAIN v.elems |-> Stringify(v.elems[i])]) \o <<Space, 93>>
WriteObj(v) ==
    LET m == SetToSeq(v.members)
    IN  <<123, Space>>
          \o Listed([i \in DOMAIN m |-> WriteString(m[i][1]) \o <<Colon, Space>> \o Stringify(m[i][2])])
          \o <<Space, 125>>
Stringify(v) ==
    CASE v.type = "null"   -> nullWord
      [] v.type = "string" -> WriteString(v.s)
      [] v.type = "array"  -> WriteArray(v)
      [] v.type = "obj"    -> WriteObj(v)
      [] OTHER             -> v.s

(***************************************************************************)
(* The reader: i is JsonReader's cur_, and a result says where it stops.   *)
(***************************************************************************)
Corruption == [ok |-> FALSE, at |-> 0, value |-> Null]
Found(at, v) == [ok |-> TRUE, at |-> at, value |-> v]

\* SkipWhiteSpace: the next character that is not white, or white at the end.
SkipWhiteSpace(t, i) ==
    LET js == {j \in i+1..Len(t) : t[j] \notin White}
    IN  IF js = {} THEN [c |-> Space, at |-> Len(t)] ELSE [c |-> t[Min(js)], at |-> Min(js)]

\* GetHex ignores a character that is no digit: the status it makes is dropped.
HexValue(code, c) ==
    CASE c \in 97..102 -> code * 16 + c - 87
      [] c \in 65..70  -> code * 16 + c - 55
      [] c \in Digits  -> code * 16 + c - 48
      [] OTHER         -> code
GetHex(t, i) == FoldLeft(HexValue, 0, SubSeq(t, i + 1, i + 4))

\* The character an escape stands for; an unknown escape stands for nothing.
Unescaped(d) == SelectSeq(<<8, 9, LF, 12, 13, Quote, Slash, Backslash>>, LAMBDA c : Escapes[c] = d)

\* GetString's loop: c is the last character read, s the value so far.  A text
\* that ends in an escaped quote is taken as closed by it; one that ends within
\* \uXXXX fails (JsonReader::Read asserts; without asserts 'u' is not the quote).
RECURSIVE GetString(_, _, _, _)
GetString(t, i, c, s) ==
    CASE i >= Len(t) -> IF c = Quote THEN Found(i, String(s)) ELSE Corruption
      [] i < Len(t) /\ t[i + 1] = Quote -> Found(i + 1, String(s))
      [] i < Len(t) /\ t[i + 1] \notin {Quote, Backslash}
           -> GetString(t, i + 1, t[i + 1], Append(s, t[i + 1]))
      [] OTHER ->
           IF i + 1 = Len(t) THEN Corruption
           ELSE IF t[i + 2] # 117 THEN GetString(t, i + 2, t[i + 2], s \o Unescaped(t[i + 2]))
           ELSE IF i + 6 > Len(t) \/ GetHex(t, i + 2) > 255 THEN Corruption
           ELSE GetString(t, i + 6, 117, Append(s, GetHex(t, i + 2)))

\* GetNum's loop: the flags is_ok, is_float and is_exponential decide what may
\* come next.  Its value is computed and never stored in *p.
RECURSIVE GetNum(_, _, _, _, _)
GetNum(t, i, is_ok, is_float, is_exponential) ==
    LET c == IF i < Len(t) THEN t[i + 1] ELSE 0
        d == IF i + 1 < Len(t) THEN t[i + 2] ELSE 0
    IN  CASE c \in Digits -> GetNum(t, i + 1, TRUE, is_float, is_exponential)
          [] c = 46 /\ ~is_float /\ ~is_exponential /\ is_ok
               -> GetNum(t, i + 1, FALSE, TRUE, FALSE)
          [] c \in {69, 101} /\ ~is_exponential /\ is_ok
               -> IF d \in Digits \cup {43, 45}
                  THEN GetNum(t, i + 2, d \in Digits, is_float, TRUE) ELSE Corruption
          [] OTHER -> IF is_ok THEN Found(i, Null) ELSE Corruption

\* strncasecmp at Peek(), which is past the letter that chose the case.
Lower(c) == IF c \in 65..90 THEN c + 32 ELSE c
AtPeek(t, i, word) ==
    /\ i + Len(word) <= Len(t)
    /\ \A k \in DOMAIN word : Lower(t[i + k]) = word[k]
GetWord(t, i, word, v) ==
    IF AtPeek(t, i, word) THEN Found(i + Len(word) - 1, v) ELSE Corruption

RECURSIVE GetValue(_, _)

\* GetArray after the first look: elements until ']'.
RECURSIVE GetElems(_, _, _)
GetElems(t, i, e) ==
    LET r == GetValue(t, i)
        k == SkipWhiteSpace(t, r.at)
    IN  CASE i >= Len(t) \/ ~r.ok -> Corruption
          [] i < Len(t) /\ r.ok /\ k.c = Comma -> GetElems(t, k.at, Append(e, r.value))
          [] i < Len(t) /\ r.ok /\ k.c = 93 -> Found(k.at, Array(Append(e, r.value)))
          [] OTHER -> Corruption
GetArray(t, i) ==
    LET k == SkipWhiteSpace(t, i)
    IN  IF k.at >= Len(t) THEN Corruption
        ELSE IF k.c = 93 THEN Found(k.at, Array(<<>>))
        ELSE GetElems(t, k.at - 1, <<>>)

\* obj_p->value_[key] = temp
Entered(m, key, v) == {p \in m : p[1] # key} \cup {<<key, v>>}

RECURSIVE GetObj(_, _, _, _)
GetObj(t, i, m, is_first) ==
    LET k1  == SkipWhiteSpace(t, i)
        key == GetString(t, k1.at, 0, <<>>)
        k2  == SkipWhiteSpace(t, key.at)
        r   == GetValue(t, k2.at)
        k3  == SkipWhiteSpace(t, r.at)
        m2  == Entered(m, key.value.s, r.value)
    IN  IF k1.c = 125 /\ is_first THEN Found(k1.at, Obj({}))
        ELSE IF k1.c # Quote THEN Corruption
        ELSE IF ~key.ok \/ k2.c # Colon THEN Corruption
        ELSE IF ~r.ok THEN Corruption
        ELSE IF k3.c = Comma THEN GetObj(t, k3.at, m2, FALSE)
        ELSE IF k3.c = 125 THEN Found(k3.at, Obj(m2))
        ELSE Corruption

GetValue(t, i) ==
    LET k == SkipWhiteSpace(t, i)
    IN  CASE k.c = 123 -> GetObj(t, k.at, {}, TRUE)
          [] k.c = 91 -> GetArray(t, k.at)
          [] k.c = Quote -> GetString(t, k.at, 0, <<>>)
          [] k.c \in {84, 116} -> GetWord(t, k.at, trueWord, Boolean(trueWord))
          [] k.c \in {70, 102} -> GetWord(t, k.at, falseWord, Boolean(falseWord))
          [] k.c \in Digits \cup {45} -> GetNum(t, k.at, k.c # 45, FALSE, FALSE)
          [] k.c \in {78, 110} -> GetWord(t, k.at, nullWord, Null)
          [] OTHER -> Corruption

\* What follows the value is not looked at.
Parse(t) == GetValue(t, 0)
=============================================================================
