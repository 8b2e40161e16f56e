---------------------------- MODULE AdminSettings ------------------------------
(***************************************************************************)
(* The AdminSettings table: a PresetTable whose value is the fee in        *)
(* percent.  save() raises before its first statement when the fee is out  *)
(* of range; the collector does not write this table.                      *)
(***************************************************************************)
EXTENDS PresetTable

(* The fees save() lets through. *)
SavableFees == {fee \in Value : ~(fee < 0) /\ ~(fee > 10)}

(* The bound as the error message of save() gives it, "must be less than    *)
(* 10": no preset of the table has a fee of ten percent.                    *)
FeeBelowTen == \A r \in rows : db[r].val < 10
================================================================================
