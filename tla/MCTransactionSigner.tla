-------------------------- MODULE MCTransactionSigner --------------------------
(* Model-checking instance of TransactionSigner. *)
EXTENDS TransactionSigner, MCTransactionPlan

P2PK(key) == [kind |-> "pk", key |-> key]
P2PKH(key) == [kind |-> "pkh", key |-> key]
P2WPKH(key) == [kind |-> "wpkh", key |-> key]
P2SH(script) == [kind |-> "sh", of |-> script]
P2WSH(script) == [kind |-> "wsh", of |-> script]
TwoOfThree == [kind |-> "multi", keys |-> <<"a", "b", "c">>, required |-> 2]

AllScripts ==
    {P2PK("b"), P2PKH("a"), TwoOfThree, P2WPKH("a"), P2SH(P2WPKH("b")), P2WSH(TwoOfThree),
     P2SH(P2WSH(P2PKH("c"))), P2SH(TwoOfThree), [kind |-> "program"], [kind |-> "other"]}

AllRedeems == {P2WPKH("b"), TwoOfThree, P2WSH(P2PKH("c")), P2PKH("c")}

(* All signing requests for the plans of a few inputs, one for the others.  *)
(* Asked for 426 of 800, the simple formula leaves no change and a larger   *)
(* trial does not either, while a smaller one does.                         *)
Detailed(in) ==
    /\ in.utxos \in {<<1900>>, <<400, 400>>}
    /\ in.amount = 426 /\ in.byteFee = 1
    /\ in.segwit /\ in.toAddress /\ in.changeAddress

Requests(in, p) ==
    IF Detailed(in)
    THEN [scripts : [1..Len(p.utxos) -> AllScripts],
          known : {AllRedeems, {TwoOfThree}, {}},
          keys : {{"a", "b", "c"}, {"a"}, {}},
          hashType : {"all", "single", "fork"}]
    ELSE {[scripts |-> [i \in 1..Len(p.utxos) |-> P2WPKH("a")], known |-> {},
           keys |-> {"a"}, hashType |-> "all"]}
================================================================================
