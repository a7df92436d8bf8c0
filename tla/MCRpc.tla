-------------------------------- MODULE MCRpc --------------------------------
(* Rpc with two calls.                                                     *)
EXTENDS Rpc
=============================================================================
