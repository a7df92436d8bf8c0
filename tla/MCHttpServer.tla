---------------------------- MODULE MCHttpServer ----------------------------
(* HttpServer with three connections from two addresses on two loops.      *)
EXTENDS HttpServer
CONSTANTS c1, c2, c3, l1, l2, i1, i2
MCConns == {c1, c2, c3}
MCLoops == {l1, l2}
MCIps == {i1, i2}
\* Up to exchanging loops and c1 with c2, the ways to use both loops.
MCOwners ==
    {[c \in MCConns |-> IF c = c3 THEN l2 ELSE l1], [c \in MCConns |-> IF c = c2 THEN l2 ELSE l1]}
MCIpOf == [c \in MCConns |-> IF c = c3 THEN i2 ELSE i1]
=============================================================================
