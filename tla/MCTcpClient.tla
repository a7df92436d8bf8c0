----------------------------- MODULE MCTcpClient -----------------------------
(* Small instances of TcpClient for TLC. *)
EXTENDS TcpClient

CONSTANTS t1, t2

TwoThreads == {t1, t2}

BothModes == {TRUE, FALSE}
AnyCallback == Callbacks
WhenClosed == {"closed"}
AlsoEarly == {"closed", "early"}
=============================================================================
