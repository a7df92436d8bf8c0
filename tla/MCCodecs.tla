------------------------------ MODULE MCCodecs ------------------------------
EXTENDS Codecs

\* Every run of one-bits: all powers of two and their neighbours, and zero.
Runs(w) == {a..b : a, b \in 0..(w - 1)}
MCIntegers32 == Runs(32)
MCIntegers64 == {a..b : a \in 0..63, b \in {0, 6, 7, 13, 14, 31, 32, 34, 35, 62, 63}}
MCSlices == {[i \in 1..n |-> b] : n \in {0, 1, 127, 128}, b \in {{}, 0..7}}
MCPieces == {[i \in 1..n |-> {i % 8, (3 * i) % 7}] : n \in {0, 1, 3, 5, 17, 19}}
MCOctets == UNION {[1..n -> {0, 90, 255}] : n \in 0..4} \cup {[i \in 1..n |-> 37 * i] : n \in 5..6}

a == 97
Strings == {J!String(s) : s \in UNION {[1..n -> {a, J!Quote, J!Backslash, J!LF, 1, 31}] : n \in 0..2}}
Few == {J!String(<<>>), J!String(<<J!Quote>>), J!Array(<<>>), J!Obj({})}
Arrays == {J!Array(<<x>>) : x \in Strings} \cup {J!Array(<<x, y>>) : x, y \in Few}
Objects == {J!Obj({<<<<a>>, x>>, <<<<a, J!Backslash>>, y>>}) : x, y \in Few}
MCValues == Strings \cup Arrays \cup Objects
              \cup {J!Array(<<x, y>>) : x \in Objects, y \in {J!Array(<<J!Obj({})>>)}}

\* Texts put together from words, among them some that look alike.
Words == {<<123>>, <<125>>, <<91>>, <<93>>, <<J!Colon>>, <<J!Comma>>, <<J!Space>>, <<49, 46, 101>>, <<49>>,
          <<J!Quote, a, J!Quote>>, <<J!Quote, J!Backslash, J!Quote>>,
          <<J!Quote, J!Backslash, 117, 48, 48, 53, 99, J!Quote>>, <<116>> \o J!trueWord}
Keys == {<<J!Quote, J!Quote>>, <<J!Quote, a, J!Quote>>, <<J!Quote, J!Backslash, 120, J!Quote>>}
Members == {k \o <<J!Colon>> \o v : k \in Keys, v \in Keys \cup {<<45, 49>>, <<91, 93>>, <<110>> \o J!nullWord}}
MCTexts ==
    {FlattenSeq(w) : w \in UNION {[1..n -> Words] : n \in 0..3}}
      \cup {<<123>> \o m \o <<J!Comma>> \o n \o <<J!Space, 125>> : m, n \in Members}
      \cup {<<91>> \o w \o <<c>> \o x \o <<93, 93>> : w, x \in Words, c \in {J!Comma, J!Space}}
=============================================================================
