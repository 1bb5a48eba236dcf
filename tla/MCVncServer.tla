----------------------------- MODULE MCVncServer ----------------------------
(* Model-checking instance of VncServer. *)
EXTENDS VncServer
=============================================================================
