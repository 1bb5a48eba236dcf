---------------------------- MODULE MCConfigRing ----------------------------
(* Model-checking instance of ConfigRing: stations are interchangeable.    *)
EXTENDS ConfigRing

Symmetry == Permutations(Station)
=============================================================================
