---------------------------- MODULE MCPresetTable ------------------------------
(* Model-checking instances of PresetTable. *)
EXTENDS PresetTable, TLC

Symmetry == Permutations(Row)
Either == BOOLEAN

================================================================================
