---------------------------- MODULE MCVncService ----------------------------
(* Model-checking instance of VncService. *)
EXTENDS VncService
=============================================================================
