------------------------------ MODULE MCViotape -----------------------------
(* Model-checking instance of Viotape. *)
EXTENDS Viotape
=============================================================================
