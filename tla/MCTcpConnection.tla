--------------------------- MODULE MCTcpConnection ---------------------------
(* Small instances of TcpConnection for TLC. *)
EXTENDS TcpConnection, TLC

CONSTANTS t1, t2, loop

MCThreads == {t1, t2}
OneThread == {t1}
ThreadSymmetry == Permutations(MCThreads)

AllOps == Ops
\* Everything but StartRead, which may come after the connection is closed.
SafeOps == Ops \ {"startread"}
\* What the library itself calls from timers (HttpServer's idle buckets).
SafeTimerOps == {"shutdown", "forceclose", "stopread"}
=============================================================================
