----------------------------- MODULE MCSession -----------------------------
(***************************************************************************)
(* Daemons and clients for the model checker.                              *)
(***************************************************************************)
EXTENDS Session

CONSTANTS d1, d2, waits, types, newmap, delmap

=============================================================================
