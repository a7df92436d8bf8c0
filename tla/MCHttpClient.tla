----------------------------- MODULE MCHttpClient -----------------------------
(* HttpClient with three requests and bodies of one byte.                  *)
EXTENDS HttpClient

\* GET, kept alive or not; a body announced, which is read with POST only.
Asked ==
    {[post |-> FALSE, close |-> c, body |-> 0, length |-> NoLength] : c \in BOOLEAN}
    \cup {[post |-> p, close |-> FALSE, body |-> 1, length |-> 1] : p \in BOOLEAN}

\* A body announced or not; no body and a close of the program's own, or a header that does
\* not parse.  None of the others closes, although the request may have asked for it.
Answered ==
    {[valid |-> TRUE, close |-> FALSE, body |-> 1, length |-> n] : n \in {1, NoLength}}
    \cup {[valid |-> c, close |-> c, body |-> 0, length |-> NoLength] : c \in BOOLEAN}
=============================================================================
