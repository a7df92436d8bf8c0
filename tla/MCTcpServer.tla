----------------------------- MODULE MCTcpServer -----------------------------
(* TcpServer with four connections and up to three loop threads.           *)
EXTENDS TcpServer
CONSTANTS c1, c2, c3, c4
MCConns == {c1, c2, c3, c4}
MCSizes == {0, 2, 3}
=============================================================================
