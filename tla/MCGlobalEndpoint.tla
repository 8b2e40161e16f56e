--------------------------- MODULE MCGlobalEndpoint ----------------------------
(* Model-checking instance of GlobalEndpoint. *)
EXTENDS GlobalEndpoint, TLC

Symmetry == Permutations(Row)
================================================================================
