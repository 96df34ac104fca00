---------------------------- MODULE MCServerConn ----------------------------
(* ServerConn for the model checker. *)
EXTENDS ServerConn

CONSTANTS c1, c2
=============================================================================
