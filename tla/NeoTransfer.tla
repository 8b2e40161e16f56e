------------------------------ MODULE NeoTransfer ------------------------------
(***************************************************************************)
(* One transfer of NEO assets (wallet-core, NEO/Signer.cpp): the request,  *)
(* the plan made for it, and the transaction that is signed from the plan. *)
(* The fee is paid in GAS, which may also be an asset of the transfer.     *)
(***************************************************************************)
EXTENDS Integers, Sequences

CONSTANTS
    Assets,
    Gas,            \* the asset fees are paid in
    NoAsset,        \* the empty asset id
    Requests,       \* the requests callers may make
    BaseBytes,      \* 5 in the code: a transaction without inputs and outputs
    InputBytes,     \* 34
    OutputBytes,    \* 60
    SignatureSize,  \* 103
    LargeTxSize,    \* 1024
    MinFeeForLargeTx, \* 100000
    FeeForByteOfTx, \* 1000
    MinGas          \* 1024

Input == [asset : Assets, value : Nat]
Output == [asset : Assets, amount : Nat]
Request == [inputs : Seq(Input), outputs : Seq(Output), fee : Nat, valid : BOOLEAN]
OutputPlan == [asset : Assets \cup {NoAsset}, amount : Nat, available : Int, change : Int]
Errors == {"none", "low_balance", "tx_too_big"}

ASSUME NeoAssumption ==
    /\ Gas \in Assets
    /\ NoAsset \notin Assets
    /\ \A r \in Requests :
        /\ r = [inputs |-> r.inputs, outputs |-> r.outputs, fee |-> r.fee, valid |-> r.valid]
        /\ r.inputs \in Seq(Input)
        /\ r.outputs \in Seq(Output)
        /\ r.fee \in Nat
        /\ r.valid \in BOOLEAN
    /\ {BaseBytes, InputBytes, OutputBytes, SignatureSize} \subseteq Nat
    /\ {LargeTxSize, MinFeeForLargeTx, FeeForByteOfTx} \subseteq Nat
    /\ MinGas \in Nat \ {0}

VARIABLES
    stage,     \* "asked", "planned", "signed", or "overrun": read past a list
    request,
    plan,
    tx         \* the signed transaction

vars == <<stage, request, plan, tx>>

NoPlan == [inputs |-> <<>>, outputs |-> <<>>, fee |-> 0, error |-> "none"]
EmptyTx == [inputs |-> <<>>, outputs |-> <<>>]

Init ==
    /\ stage = "asked"
    /\ request \in Requests
    /\ plan = NoPlan
    /\ tx = EmptyTx

(* What a list of coins holds of one asset.                                 *)
Held(coins, asset) ==
    LET sum[n \in 0..Len(coins)] ==
            IF n = 0 THEN 0
            ELSE sum[n - 1] + (IF coins[n].asset = asset THEN coins[n].value ELSE 0)
    IN  sum[Len(coins)]

-------------------------------------------------------------------------------
(* Selection: the amount of the last output of an asset is what it          *)
(* requires; an input is left out if its asset is not GAS, one of the asset *)
(* has been taken, and those taken are worth more than is required.         *)
OutputsOf(r, asset) == {i \in 1..Len(r.outputs) : r.outputs[i].asset = asset}

Required(r, asset) ==
    LET of == OutputsOf(r, asset)
    IN  IF of = {} THEN 0
        ELSE r.outputs[CHOOSE i \in of : \A j \in of : j <= i].amount

Has(inputs, asset) == \E i \in 1..Len(inputs) : inputs[i].asset = asset

(* Mutants: GAS is the only asset not taken in full; one input is enough.   *)
EnoughOfGas(r, taken, asset) ==
    /\ Has(taken, asset)
    /\ asset = Gas
    /\ Required(r, asset) < Held(taken, asset)

EnoughWithOne(r, taken, asset) == Has(taken, asset) /\ asset # Gas

Enough(r, taken, asset) ==
    /\ Has(taken, asset)
    /\ asset # Gas
    /\ Required(r, asset) < Held(taken, asset)

Selected(r) ==
    LET taken[n \in 0..Len(r.inputs)] ==
            IF n = 0 THEN <<>>
            ELSE IF Enough(r, taken[n - 1], r.inputs[n].asset)
                 THEN taken[n - 1]
                 ELSE Append(taken[n - 1], r.inputs[n])
    IN  taken[Len(r.inputs)]

-------------------------------------------------------------------------------
(* The outputs of the plan.  The asset looked up before each one is that of *)
(* the input with the same position: always found, or, past the end of the  *)
(* inputs, whatever the memory there holds.                                 *)
Planned(out, available) ==
    [asset |-> out.asset, amount |-> out.amount, available |-> available,
     change |-> available - out.amount]

EmptyOutput == [asset |-> NoAsset, amount |-> 0, available |-> 0, change |-> 0]

Lookups(r) == {found \in [1..Len(r.outputs) -> BOOLEAN] :
                  \A i \in 1..Len(r.outputs) : i <= Len(r.inputs) => found[i]}

Short(r, taken, found) ==
    {i \in 1..Len(r.outputs) :
        ~found[i] \/ Held(taken, r.outputs[i].asset) < r.outputs[i].amount}

FirstOf(S) == CHOOSE i \in S : \A j \in S : i <= j

Outputs(r, taken) ==
    [i \in 1..Len(r.outputs) |-> Planned(r.outputs[i], Held(taken, r.outputs[i].asset))]

LowBalance(r, taken, short) ==
    [inputs |-> taken, fee |-> 0, error |-> "low_balance",
     outputs |-> Append(SubSeq(Outputs(r, taken), 1, FirstOf(short) - 1), EmptyOutput)]

-------------------------------------------------------------------------------
(* The transaction of a plan: an output for each amount and each change     *)
(* above zero.  Any failure is swallowed and gives an empty transaction.    *)
Paid(out, amount) == IF amount > 0 THEN <<[asset |-> out.asset, value |-> amount]>> ELSE <<>>

(* Mutant: change is only paid beside an amount.                            *)
PaidWithAmount(outs) ==
    LET paid[n \in 0..Len(outs)] ==
            IF n = 0 THEN <<>>
            ELSE IF outs[n].amount = 0 THEN paid[n - 1]
            ELSE paid[n - 1] \o Paid(outs[n], outs[n].amount) \o Paid(outs[n], outs[n].change)
    IN  paid[Len(outs)]

PaidOutputs(outs) ==
    LET paid[n \in 0..Len(outs)] ==
            IF n = 0 THEN <<>>
            ELSE paid[n - 1] \o Paid(outs[n], outs[n].amount) \o Paid(outs[n], outs[n].change)
    IN  paid[Len(outs)]

WrongFee(p) ==
    \E i \in 1..Len(p.outputs) :
        /\ p.outputs[i].asset = Gas
        /\ p.outputs[i].amount + p.outputs[i].change + p.fee # p.outputs[i].available

(* Mutant: the inputs of the request are taken, not those of the plan.      *)
PrepareAll(r, p, validate) ==
    [inputs |-> r.inputs, outputs |-> PaidOutputs(p.outputs)]

PrepareUnsigned(r, p, validate) ==
    IF (validate /\ WrongFee(p)) \/ (~r.valid /\ PaidOutputs(p.outputs) # <<>>)
    THEN EmptyTx
    ELSE [inputs |-> p.inputs, outputs |-> PaidOutputs(p.outputs)]

Size(t) == BaseBytes + InputBytes * Len(t.inputs) + OutputBytes * Len(t.outputs)
               + SignatureSize

-------------------------------------------------------------------------------
(* The fee: what the request offers, or more if the transaction is large.   *)
(* It is taken from the change of the last output of GAS, which is added    *)
(* with nothing but change if the transfer has none.                        *)
Unsigned(r, p) == Size(PrepareUnsigned(r, p, FALSE)) - SignatureSize   \* Mutant

Estimate(r, p) == Size(PrepareUnsigned(r, p, FALSE))

FeeNeeded(r, p) == r.fee > 0 \/ Estimate(r, p) >= LargeTxSize

GasOutputs(p) == {i \in 1..Len(p.outputs) : p.outputs[i].asset = Gas}

LargeFee(size) ==
    IF size >= LargeTxSize THEN MinFeeForLargeTx + size * FeeForByteOfTx ELSE 0

WithFee(r, p) ==
    LET large == LargeFee(Estimate(r, p))
        fee == IF r.fee < large THEN large ELSE r.fee
        last == CHOOSE i \in GasOutputs(p) : \A j \in GasOutputs(p) : j <= i
    IN  [p EXCEPT !.fee = fee, !.outputs[last].change = @ - fee]

WithGasChange(p, gas) ==
    [p EXCEPT !.outputs = Append(@, [asset |-> Gas, amount |-> 0,
                                     available |-> gas, change |-> gas])]

TooBig(p) == [p EXCEPT !.error = "tx_too_big", !.outputs = Append(@, EmptyOutput)]

Priced(r, p) ==
    LET gas == Held(p.inputs, Gas)
    IN  IF ~FeeNeeded(r, p) THEN p
        ELSE IF GasOutputs(p) # {} THEN WithFee(r, p)
        ELSE IF gas < MinGas \/ ~Has(p.inputs, Gas) THEN TooBig(p)
        ELSE WithFee(r, WithGasChange(p, gas))

PlanOf(r, found) ==
    LET taken == Selected(r)
        short == Short(r, taken, found)
    IN  IF short # {} THEN LowBalance(r, taken, short)
        ELSE Priced(r, [inputs |-> taken, outputs |-> Outputs(r, taken),
                        fee |-> 0, error |-> "none"])

-------------------------------------------------------------------------------
Plan ==
    /\ stage = "asked"
    /\ stage' = "planned"
    /\ \E found \in Lookups(request) : plan' = PlanOf(request, found)
    /\ UNCHANGED <<request, tx>>

(* The lookup past the end of the inputs may also end the program.          *)
Overrun ==
    /\ stage = "asked"
    /\ Len(request.outputs) > Len(request.inputs)
    /\ \E found \in Lookups(request) :
        Short(request, Selected(request), found) \cap 1..Len(request.inputs) = {}
    /\ stage' = "overrun"
    /\ UNCHANGED <<request, plan, tx>>

(* sign() does not look at the error of the plan.                           *)
Sign ==
    /\ stage = "planned"
    /\ stage' = "signed"
    /\ tx' = PrepareUnsigned(request, plan, TRUE)
    /\ UNCHANGED <<request, plan>>

Next == Plan \/ Overrun \/ Sign

Spec == Init /\ [][Next]_vars

-------------------------------------------------------------------------------
(* Types; what is signed has the plan's inputs or nothing at all.           *)
TypeOK ==
    /\ stage \in {"asked", "planned", "signed", "overrun"}
    /\ request \in Requests
    /\ plan.inputs \in Seq(Input)
    /\ plan.outputs \in Seq(OutputPlan)
    /\ plan.fee \in Nat
    /\ plan.error \in Errors
    /\ tx.inputs \in {<<>>, plan.inputs}
    /\ tx.outputs \in Seq([asset : Assets, value : Nat])

Good == stage \in {"planned", "signed"} /\ plan.error = "none"

(* The request pays each asset to one address at most.                      *)
OneOutputEach ==
    \A i, j \in 1..Len(request.outputs) :
        request.outputs[i].asset = request.outputs[j].asset => i = j

(* For an asset that is paid to one address and is not GAS, what the inputs *)
(* of the transaction hold is what its outputs pay, to the last unit:       *)
(* nothing of it is created or lost between selection, plan and signature.  *)
AssetsBalance ==
    stage = "signed" /\ plan.error = "none" /\ tx # EmptyTx =>
        \A a \in Assets \ {Gas} : \A i \in OutputsOf(request, a) :
            OutputsOf(request, a) = {i} => Held(tx.inputs, a) = Held(tx.outputs, a)

(* Each input of such an asset was needed when it was taken: those before   *)
(* the last one are not worth more than the amount.                         *)
LastInputNeeded ==
    Good => \A n \in 1..Len(plan.inputs) :
        LET a == plan.inputs[n].asset
            before == SubSeq(plan.inputs, 1, n - 1)
        IN  a # Gas /\ Has(before, a) => Held(before, a) <= Required(request, a)

(* A request with one output for each asset, and no more outputs than       *)
(* inputs, fails only if the wallet is short: its inputs hold less of an    *)
(* asset than is to be paid, or less GAS than a fee may need.               *)
FailsOnlyWhenShort ==
    stage = "planned" /\ OneOutputEach /\ Len(request.outputs) <= Len(request.inputs) =>
        /\ plan.error = "low_balance" =>
              \E i \in 1..Len(request.outputs) :
                  Held(request.inputs, request.outputs[i].asset) < request.outputs[i].amount
        /\ plan.error = "tx_too_big" => Held(request.inputs, Gas) < MinGas

(* If the plan has one output of GAS and change is left in it, the signed   *)
(* transaction leaves exactly the fee of the plan to the network.           *)
FeeIsPaid ==
    Good /\ stage = "signed" /\ tx # EmptyTx =>
        \A i \in GasOutputs(plan) :
            GasOutputs(plan) = {i} /\ plan.outputs[i].change >= 0 =>
                Held(tx.inputs, Gas) - Held(tx.outputs, Gas) = plan.fee

(* A signed transaction that is large pays by the byte, although its size   *)
(* was estimated before the fee was known.  Without valid addresses it may  *)
(* not: the estimate is of the empty transaction, yet one whose GAS all     *)
(* goes to the fee has no output left that could fail.                      *)
LargePaysByTheByte ==
    Good /\ stage = "signed" /\ request.valid /\ Size(tx) >= LargeTxSize =>
        plan.fee >= LargeFee(Size(tx))

(* NEO.proto calls the fee of the plan the GAS used: a payment planned      *)
(* without error leaves no more GAS of its inputs to the network.           *)
GasUsedWithinFee ==
    /\ stage = "signed" /\ plan.error = "none"
    /\ \E i \in 1..Len(request.outputs) : request.outputs[i].amount > 0
    => Held(tx.inputs, Gas) - Held(tx.outputs, Gas) <= plan.fee
================================================================================
