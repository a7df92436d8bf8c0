----------------------------- MODULE MCTimerList -----------------------------
(* Small instances of TimerList for TLC. *)
EXTENDS TimerList

CONSTANTS a1, a2

MCAddrs == {a1, a2}
MCDelays == {0, 2}
MCIntervals == {1}
=============================================================================
