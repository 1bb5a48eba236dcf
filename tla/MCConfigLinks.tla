--------------------------- MODULE MCConfigLinks ----------------------------
(* Model-checking instance of ConfigLinks.                                 *)
EXTENDS ConfigLinks

Symmetry == Permutations(Station)
=============================================================================
