---------------------------- MODULE TransactionPlan ----------------------------
(***************************************************************************)
(* One Bitcoin transfer of wallet-core: the request of the caller, the     *)
(* plan TransactionBuilder::plan makes for it, and the transaction that is *)
(* built and signed from the plan.  Asserts are compiled out, as in a      *)
(* release build; the properties restate them.                             *)
(***************************************************************************)
EXTENDS UtxoSelection, FiniteSetsExt

CONSTANTS
    Wallets,            \* lists of unspent outputs a request may offer
    Amounts,            \* amounts it may ask for
    ByteFees,           \* prices per byte
    Segwit,             \* whether the purpose of the request's coin may be BIP84
    VirtualSizes,       \* sizes an estimate by a trial signature may find
    SimpleModeLimit,    \* 1000 in the code
    MaxUtxosHardLimit   \* 3000 in the code

ASSUME PlanAssumption ==
    /\ Wallets \subseteq Seq(Nat)
    /\ Amounts \subseteq Nat
    /\ ByteFees \subseteq Nat
    /\ Segwit \subseteq BOOLEAN
    /\ VirtualSizes \subseteq Nat
    /\ SimpleModeLimit \in Nat
    /\ MaxUtxosHardLimit \in Nat

VARIABLES
    stage,   \* "asked", "planned", "signed" or "failed"
    input,   \* the request
    plan,    \* its plan
    tx       \* the signed transaction

vars == <<stage, input, plan, tx>>

(* The addresses of a request are valid or not for the coin. *)
Input == [utxos : Wallets, amount : Amounts, byteFee : ByteFees, segwit : Segwit,
          useMaxAmount : BOOLEAN, opReturn : BOOLEAN,
          toAddress : BOOLEAN, changeAddress : BOOLEAN]

Failed(error) ==
    [error |-> error, utxos |-> <<>>, available |-> 0, amount |-> 0, fee |-> 0, change |-> 0]

NoTx == [inputs |-> <<>>, outputs |-> <<>>]

Init ==
    /\ stage = "asked"
    /\ input \in Input
    /\ plan = Failed("none")
    /\ tx = NoTx

-------------------------------------------------------------------------------
MaxAmount(in) == in.useMaxAmount \/ in.amount >= Total(in.utxos)

(* Outputs of the transaction: the recipient's, the change if the request   *)
(* does not take all, and the OP_RETURN if there is one.                    *)
OutputCount(in) == (IF MaxAmount(in) THEN 1 ELSE 2) + (IF in.opReturn THEN 1 ELSE 0)

Selections(in) ==
    IF MaxAmount(in) THEN {SelectMaxAmount(in.utxos, in.byteFee)}
    ELSE IF Len(in.utxos) <= SimpleModeLimit /\ Len(in.utxos) <= MaxUtxosHardLimit
         THEN Select(in.utxos, in.amount, in.byteFee, OutputCount(in))
         ELSE {SelectSimple(in.utxos, in.amount, in.byteFee, OutputCount(in))}

CutOff(utxos) ==
    IF Len(utxos) <= MaxUtxosHardLimit THEN utxos ELSE SubSeq(utxos, 1, MaxUtxosHardLimit)

(* build() gives a transaction only if every output's address is valid. *)
Buildable(in, change) == in.toAddress /\ (change > 0 => in.changeAddress)

(* The plan before its fee, the one a trial signature is made of.  Its      *)
(* change may be negative when the hard limit cut the outputs off.          *)
Preliminary(in, utxos) ==
    LET available == Total(utxos)
        amount == IF MaxAmount(in) THEN available ELSE in.amount
    IN  [error |-> "ok", utxos |-> utxos, available |-> available, amount |-> amount,
         fee |-> 0, change |-> available - amount]

(* The estimates of the fee: the simple formula, or for a segwit coin the   *)
(* size of a trial signature of the plan before its fee, if that succeeds.  *)
Estimates(in, utxos) ==
    LET simple == Calculate(Len(utxos), OutputCount(in), in.byteFee)
    IN  IF in.segwit /\ Buildable(in, Preliminary(in, utxos).change)
        THEN {simple} \cup {in.byteFee * size : size \in VirtualSizes}
        ELSE {simple}

Lesser(a, b) == IF a <= b THEN a ELSE b
Greater(a, b) == IF a <= b THEN b ELSE a

(* Mutants: the fee is not limited to what there is; the change is what the *)
(* preliminary plan left; the fee comes out of the amount first.            *)
SettleUnlimited(in, utxos, estimate) ==
    LET available == Total(utxos)
        amount == Greater(0, IF MaxAmount(in) THEN available - estimate
                                              ELSE Lesser(in.amount, available - estimate))
    IN  [error |-> "ok", utxos |-> utxos, available |-> available, amount |-> amount,
         fee |-> estimate, change |-> available - amount - estimate]

SettleBeforeFee(in, utxos, estimate) ==
    LET available == Total(utxos)
        fee == Lesser(available, estimate)
        amount == IF MaxAmount(in) THEN available - fee ELSE Lesser(in.amount, available - fee)
    IN  [error |-> "ok", utxos |-> utxos, available |-> available, amount |-> amount,
         fee |-> fee, change |-> IF MaxAmount(in) THEN 0 ELSE available - in.amount]

SettleFromAmount(in, utxos, estimate) ==
    LET available == Total(utxos)
        fee == Lesser(available, estimate)
        amount == Greater(0, (IF MaxAmount(in) THEN available ELSE in.amount) - fee)
    IN  [error |-> "ok", utxos |-> utxos, available |-> available, amount |-> amount,
         fee |-> fee, change |-> available - amount - fee]

(* Fee, amount and change once the outputs to spend are known. *)
Settle(in, utxos, estimate) ==
    LET available == Total(utxos)
        fee == Lesser(available, estimate)
        amount == Greater(0, IF MaxAmount(in) THEN available - fee
                                              ELSE Lesser(in.amount, available - fee))
    IN  [error |-> "ok", utxos |-> utxos, available |-> available, amount |-> amount,
         fee |-> fee, change |-> available - amount - fee]

(* TransactionBuilder::plan. *)
Plan ==
    /\ stage = "asked"
    /\ stage' = "planned"
    /\ IF input.amount = 0 /\ ~input.useMaxAmount
       THEN plan' = Failed("zero_amount_requested")
       ELSE IF input.utxos = <<>>
       THEN plan' = Failed("missing_input_utxos")
       ELSE \E selected \in Selections(input) :
              LET utxos == CutOff(selected) IN
              IF utxos = <<>> THEN plan' = Failed("not_enough_utxos")
              ELSE \E fee \in Estimates(input, utxos) : plan' = Settle(input, utxos, fee)
    /\ UNCHANGED <<input, tx>>

(* Mutant: the OP_RETURN output takes the place of the change. *)
BuildDataOrChange(in, p) ==
    [inputs |-> p.utxos,
     outputs |-> <<[to |-> "recipient", amount |-> p.amount]>>
                 \o (IF in.opReturn THEN <<[to |-> "data", amount |-> 0]>>
                     ELSE IF p.change > 0 THEN <<[to |-> "change", amount |-> p.change]>>
                     ELSE <<>>)]

(* TransactionBuilder::build, for a plan that can be built. *)
Build(in, p) ==
    [inputs |-> p.utxos,
     outputs |-> <<[to |-> "recipient", amount |-> p.amount]>>
                 \o (IF p.change > 0 THEN <<[to |-> "change", amount |-> p.change]>> ELSE <<>>)
                 \o (IF in.opReturn THEN <<[to |-> "data", amount |-> 0]>> ELSE <<>>)]

(* TransactionSigner::sign of the plan, or of the same request without it.  *)
Sign ==
    /\ stage = "planned"
    /\ plan.error = "ok"
    /\ Buildable(input, plan.change)
    /\ tx' = Build(input, plan)
    /\ stage' = "signed"
    /\ UNCHANGED <<input, plan>>

(* It fails on a plan with an error, on an address it cannot pay to, or on  *)
(* a key or a script that is missing.                                       *)
SignFails ==
    /\ stage = "planned"
    /\ stage' = "failed"
    /\ UNCHANGED <<input, plan, tx>>

Next == Plan \/ Sign \/ SignFails

Spec == Init /\ [][Next]_vars

-------------------------------------------------------------------------------
Planned == stage # "asked" /\ plan.error = "ok"
Selected == Planned /\ ~MaxAmount(input) /\ Len(input.utxos) <= SimpleModeLimit

Dust == SingleInput(input.byteFee)

(* The sets of offered outputs that hold the amount, the fee of spending    *)
(* them and a change that is not dust.                                      *)
Covering(in) ==
    {S \in SUBSET (1..Len(in.utxos)) :
        MapThenSumSet(LAMBDA i : in.utxos[i], S)
            >= in.amount + Calculate(Cardinality(S), OutputCount(in), in.byteFee)
                         + SingleInput(in.byteFee)}

(* Every variable has its type. *)
TypeOK ==
    /\ stage \in {"asked", "planned", "signed", "failed"}
    /\ input \in Input
    /\ plan.utxos \in Seq(Nat)
    /\ {plan.available, plan.amount, plan.fee, plan.change} \subseteq Nat
    /\ tx.inputs \in Seq(Nat)

(* Amount, fee and change of a plan are exactly what its outputs hold, and  *)
(* a plan that takes everything leaves no change (TransactionBuilder.cpp,   *)
(* the asserts at the end of plan).                                         *)
PlanBalances ==
    Planned => /\ plan.available = Total(plan.utxos)
               /\ plan.amount + plan.fee + plan.change = plan.available
               /\ MaxAmount(input) => plan.change = 0

(* The recipient gets less than was asked for only when the request is      *)
(* treated as a request for everything, or when nothing is left for change. *)
ShortOnlyWithoutChange ==
    Planned /\ ~MaxAmount(input) => /\ plan.amount <= input.amount
                                    /\ plan.amount < input.amount => plan.change = 0

(* What is selected for an amount holds that amount, dust left out or not   *)
(* (the assert on the preliminary plan).                                    *)
AmountCovered == Planned /\ ~MaxAmount(input) => input.amount <= plan.available

(* No outputs that would have paid for amount, fee and a worthy change are  *)
(* fewer than those of the plan, whatever set of outputs they are.          *)
FewestInputs == Selected => \A S \in Covering(input) : Len(plan.utxos) <= Cardinality(S)

(* If any set of outputs can pay without leaving change that is dust, the   *)
(* plan leaves none; the simple formula is also what the fee is.            *)
NoDustChange == Selected /\ ~input.segwit /\ Covering(input) # {} => plan.change >= Dust

(* No plan spends an output that costs more than it brings. *)
NoDustSpent == Planned => \A i \in 1..Len(plan.utxos) : plan.utxos[i] > Dust

(* The signed transaction spends the plan's outputs, pays the recipient and *)
(* the change of the plan, and leaves exactly the plan's fee to the miner.  *)
SignedPaysTheFee ==
    stage = "signed" =>
        /\ Total(tx.inputs) - Total([i \in 1..Len(tx.outputs) |-> tx.outputs[i].amount]) = plan.fee
        /\ \A i \in 1..Len(tx.outputs) : tx.outputs[i].to = "change" => tx.outputs[i].amount > 0
================================================================================
