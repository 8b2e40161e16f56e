--------------------------- MODULE MCTransactionPlan ---------------------------
(* Model-checking instances of TransactionPlan. *)
EXTENDS TransactionPlan

Lists(kinds, most) == UNION {[1..n -> kinds] : n \in 0..most}

(* Outputs at and around the dust limit of 148, and larger ones. *)
UpToFour == Lists({148, 149, 400, 1900}, 4)
Larger == Lists({149, 1500, 2000, 5000}, 3)

Either == BOOLEAN
================================================================================
