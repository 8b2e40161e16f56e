--------------------------- MODULE MCAdminSettings -----------------------------
(* Model-checking instance of AdminSettings. *)
EXTENDS AdminSettings

Fees == {-1, 0, 1, 10, 11}
Either == BOOLEAN
================================================================================
