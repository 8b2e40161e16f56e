------------------------------ MODULE MCKeyStore ------------------------------
(* Model-checking instances of KeyStore. *)
EXTENDS KeyStore, TLC

CONSTANTS f1, f2, v, w

(* watch() with nothing, and with one of two accounts. *)
NoneOrOne == {<<>>, <<v>>, <<w>>}

FileNames == Permutations({f1, f2})
================================================================================
