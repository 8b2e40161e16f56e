----------------------------- MODULE MCNeoTransfer -----------------------------
(* Model-checking instances of NeoTransfer. *)
EXTENDS NeoTransfer

Lists(kinds, most) == UNION {[1..n -> kinds] : n \in 0..most}

CONSTANTS neoId, gasId

(* Up to three inputs and two outputs: change, an exact amount, dust of GAS *)
(* and amounts that need two or three inputs.                               *)
SmallRequests ==
    [inputs : Lists([asset : {neoId, gasId}, value : {1, 3, 9}], 3),
     outputs : Lists([asset : {neoId, gasId}, amount : {0, 2, 3, 4}], 2),
     fee : {0, 2}, valid : BOOLEAN]
================================================================================
