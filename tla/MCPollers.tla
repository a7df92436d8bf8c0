------------------------------ MODULE MCPollers ------------------------------
(* Pollers with three descriptors.                                         *)
EXTENDS Pollers
MCFds == {0, 1, 2}
=============================================================================
