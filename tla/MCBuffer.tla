------------------------------- MODULE MCBuffer -------------------------------
(* A small instance of Buffer for TLC: a vector of InitSize bytes that a    *)
(* few calls fill, empty, move and grow.                                    *)
EXTENDS Buffer
=============================================================================
