------------------------------ MODULE MCRMutex ------------------------------
(* Model-checking instance of RMutex. *)
EXTENDS RMutex
=============================================================================
