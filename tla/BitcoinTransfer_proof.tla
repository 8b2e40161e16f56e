------------------------- MODULE BitcoinTransfer_proof -------------------------
(***************************************************************************)
(* Properties of every plan and every signed transaction of Bitcoin, for   *)
(* any lists of unspent outputs, amounts, prices, calculators and limits,  *)
(* that TransactionSigner implements TransactionPlan, so that what is      *)
(* proved of the plan and of the abstract signing also holds of both ways  *)
(* to sign, and, for any scripts, keys and requests, what both ways make   *)
(* of the inputs.                                                          *)
(***************************************************************************)
EXTENDS TransactionSigner, UtxoSelection_proof, SequenceTheorems

LEMMA InputType ==
    ASSUME NEW in \in Input
    PROVE  /\ in.utxos \in Wallets /\ in.utxos \in Seq(Nat)
           /\ Len(in.utxos) \in Nat
           /\ in.amount \in Nat
           /\ in.byteFee \in Nat
           /\ OutputCount(in) \in Nat
           /\ SingleInput(in.byteFee) \in Nat
<1>1. in.utxos \in Wallets /\ in.amount \in Nat /\ in.byteFee \in Nat
  BY PlanAssumption DEF Input
<1>2. in.utxos \in Seq(Nat)
  BY <1>1, PlanAssumption
<1>3. OutputCount(in) \in Nat
  BY DEF OutputCount
<1>4. SingleInput(in.byteFee) \in Nat
  BY <1>1, FeeType
<1> QED
  BY <1>1, <1>2, <1>3, <1>4

(* What a request selects is above dust, and no longer than what it offers. *)
Worthy(in, list) ==
    /\ list \in Seq(Nat)
    /\ Len(list) <= Len(in.utxos)
    /\ \A j \in 1..Len(list) : list[j] > SingleInput(in.byteFee)

LEMMA FilterWorthy ==
    ASSUME NEW in \in Input, NEW s \in Seq(Nat), Len(s) <= Len(in.utxos)
    PROVE  Worthy(in, FilterOutDust(s, in.byteFee))
<1> DEFINE left == FilterOutDust(s, in.byteFee)
<1>1. /\ left \in Seq(Nat)
      /\ Len(left) <= Len(s)
      /\ \A j \in 1..Len(left) : left[j] > SingleInput(in.byteFee)
  BY InputType, FilterResult DEF FilterOutDust
<1> HIDE DEF left
<1>2. Len(left) <= Len(in.utxos)
  BY <1>1, InputType
<1> QED
  BY <1>1, <1>2 DEF Worthy, left

LEMMA EmptyWorthy ==
    ASSUME NEW in \in Input
    PROVE  Worthy(in, <<>>)
BY InputType DEF Worthy

LEMMA BeginningWorthy ==
    ASSUME NEW in \in Input, NEW s, Worthy(in, s), NEW m \in 0..Len(s)
    PROVE  Worthy(in, SubSeq(s, 1, m))
<1> DEFINE part == SubSeq(s, 1, m)
<1>1. s \in Seq(Nat) /\ Len(s) \in Nat /\ Len(s) <= Len(in.utxos)
  BY DEF Worthy
<1>2. 1 \in 1..(Len(s) + 1) /\ m \in (1 - 1)..Len(s)
  BY <1>1
<1>3. /\ part \in Seq(Nat)
      /\ Len(part) = m - 1 + 1
      /\ \A j \in 1..Len(part) : part[j] = s[1 + j - 1]
  BY <1>1, <1>2, SliceType
<1> HIDE DEF part
<1>4. Len(part) <= Len(in.utxos)
  BY <1>1, <1>3, InputType
<1>5. \A j \in 1..Len(part) : part[j] > SingleInput(in.byteFee)
  <2> TAKE j \in 1..Len(part)
  <2>1. part[j] = s[j] /\ j \in 1..Len(s)
    BY <1>1, <1>3
  <2> QED
    BY <2>1 DEF Worthy
<1> QED
  BY <1>3, <1>4, <1>5 DEF Worthy, part

LEMMA SelectionsWorthy ==
    ASSUME NEW in \in Input, NEW selected \in Selections(in)
    PROVE  Worthy(in, selected)
<1> DEFINE outputs == OutputCount(in)
<1>1. CASE selected = SelectMaxAmount(in.utxos, in.byteFee)
  BY <1>1, InputType, FilterWorthy DEF SelectMaxAmount
<1>2. CASE selected \in Select(in.utxos, in.amount, in.byteFee, outputs)
  <2>1. \/ selected = <<>>
        \/ \E part \in Seq(Nat) :
              Len(part) <= Len(in.utxos) /\ selected = FilterOutDust(part, in.byteFee)
    BY <1>2, InputType, SelectFilters
  <2> QED
    BY <2>1, EmptyWorthy, FilterWorthy
<1>3. CASE selected = SelectSimple(in.utxos, in.amount, in.byteFee, outputs)
  <2> DEFINE worthy == FilterOutDust(in.utxos, in.byteFee)
  <2>1. selected = <<>> \/ \E i \in 1..Len(worthy) : selected = SubSeq(worthy, 1, i)
    <3>1. in.utxos \in Seq(Nat) /\ in.amount \in Nat /\ in.byteFee \in Nat /\ outputs \in Nat
      BY InputType
    <3> HIDE DEF outputs, worthy
    <3>2. LET chosen == SelectSimple(in.utxos, in.amount, in.byteFee, outputs)
              left == FilterOutDust(in.utxos, in.byteFee)
          IN  \/ chosen = <<>>
              \/ \E i \in 1..Len(left) :
                     chosen = SubSeq(left, 1, i) /\ Total(chosen) >= in.amount
      BY <3>1, SimpleTakes
    <3> QED
      BY <1>3, <3>2 DEF worthy
  <2>2. Worthy(in, worthy)
    BY InputType, FilterWorthy
  <2> HIDE DEF worthy
  <2>3. \A i \in 1..Len(worthy) : i \in 0..Len(worthy)
    OBVIOUS
  <2> QED
    BY <2>1, <2>2, <2>3, EmptyWorthy, BeginningWorthy
<1> QED
  BY <1>1, <1>2, <1>3 DEF Selections

LEMMA CutOffWorthy ==
    ASSUME NEW in \in Input, NEW s, Worthy(in, s)
    PROVE  Worthy(in, CutOff(s))
<1>1. Len(s) \in Nat
  BY DEF Worthy
<1>2. ASSUME ~(Len(s) <= MaxUtxosHardLimit)
      PROVE  MaxUtxosHardLimit \in 0..Len(s)
  BY <1>1, <1>2, PlanAssumption
<1> QED
  BY <1>2, BeginningWorthy DEF CutOff

LEMMA EstimatesType ==
    ASSUME NEW in \in Input, NEW s \in Seq(Nat), NEW fee \in Estimates(in, s)
    PROVE  fee \in Nat
<1>1. Calculate(Len(s), OutputCount(in), in.byteFee) \in Nat
  <2>1. Len(s) \in Nat
    OBVIOUS
  <2> QED
    BY <2>1, InputType, FeeType
<1>2. \A size \in VirtualSizes : in.byteFee * size \in Nat
  BY InputType, PlanAssumption
<1> QED
  BY <1>1, <1>2 DEF Estimates

(* What is true of each plan that is not a failure. *)
Sound(in, p) ==
    /\ {p.available, p.amount, p.fee, p.change} \subseteq Nat
    /\ p.available = Total(p.utxos)
    /\ p.amount + p.fee + p.change = p.available
    /\ MaxAmount(in) => p.change = 0
    /\ ~MaxAmount(in) => p.amount <= in.amount /\ (p.amount < in.amount => p.change = 0)

LEMMA SettleSound ==
    ASSUME NEW in \in Input, NEW s \in Seq(Nat), NEW estimate \in Nat
    PROVE  Sound(in, Settle(in, s, estimate))
<1> DEFINE p == Settle(in, s, estimate)
           available == Total(s)
           fee == Lesser(available, estimate)
<1>1. available \in Nat
  BY TotalType
<1>2. fee \in Nat /\ available - fee \in Nat
  <2> HIDE DEF available
  <2> QED
    BY <1>1 DEF Lesser
<1>3. /\ p.utxos = s /\ p.available = available /\ p.fee = fee
      /\ p.amount = Greater(0, IF MaxAmount(in) THEN available - fee
                                                ELSE Lesser(in.amount, available - fee))
      /\ p.change = available - p.amount - fee
  BY DEF Settle
<1> HIDE DEF p, available, fee
<1>4. in.amount \in Nat
  BY InputType
<1>5. CASE MaxAmount(in)
  <2>1. p.amount = available - fee
    BY <1>2, <1>3, <1>5 DEF Greater
  <2>2. p.change = 0 /\ p.amount + p.fee + p.change = available
    BY <1>1, <1>2, <1>3, <2>1
  <2>3. {p.available, p.amount, p.fee, p.change} \subseteq Nat
    BY <1>1, <1>2, <1>3, <2>1, <2>2
  <2> QED
    BY <1>3, <1>5, <2>2, <2>3 DEF Sound, available, p
<1>6. CASE ~MaxAmount(in)
  <2>1. p.amount = Lesser(in.amount, available - fee) /\ p.amount \in Nat
    BY <1>2, <1>3, <1>4, <1>6 DEF Greater, Lesser
  <2>2. p.amount <= in.amount /\ p.amount <= available - fee
    BY <1>2, <1>4, <2>1 DEF Lesser
  <2>3. p.amount < in.amount => p.amount = available - fee
    BY <1>2, <1>4, <2>1 DEF Lesser
  <2>4. p.change \in Nat /\ p.amount + p.fee + p.change = available
    BY <1>1, <1>2, <1>3, <2>1, <2>2
  <2>5. p.amount < in.amount => p.change = 0
    BY <1>1, <1>2, <1>3, <2>1, <2>3
  <2> QED
    BY <1>1, <1>2, <1>3, <1>6, <2>1, <2>2, <2>4, <2>5 DEF Sound, available, p
<1> QED
  BY <1>5, <1>6

-------------------------------------------------------------------------------
(* The inductive invariant: a plan that did not fail is sound and spends no *)
(* dust, one that failed has no amounts.                                    *)
IInv ==
    /\ TypeOK
    /\ Planned => Sound(input, plan) /\ Worthy(input, plan.utxos)
    /\ SignedPaysTheFee

LEMMA FailedType ==
    ASSUME NEW reason
    PROVE  LET p == Failed(reason) IN
           p.utxos \in Seq(Nat) /\ {p.available, p.amount, p.fee, p.change} \subseteq Nat
BY DEF Failed

LEMMA InitIInv == Init => IInv
<1> SUFFICES ASSUME Init PROVE IInv
  OBVIOUS
<1>1. TypeOK
  BY FailedType DEF Init, TypeOK, NoTx
<1> QED
  BY <1>1 DEF Init, IInv, Planned, SignedPaysTheFee

(* What Plan may leave behind. *)
LEMMA PlanResult ==
    ASSUME TypeOK, Plan
    PROVE  \/ \E reason \in {"zero_amount_requested", "missing_input_utxos", "not_enough_utxos"} :
                plan' = Failed(reason)
           \/ \E selected \in Selections(input), fee \in Nat :
                /\ CutOff(selected) # <<>>
                /\ fee \in Estimates(input, CutOff(selected))
                /\ ~(input.amount = 0 /\ ~input.useMaxAmount)
                /\ plan' = Settle(input, CutOff(selected), fee)
<1>1. input \in Input
  BY DEF TypeOK
<1>2. CASE input.amount = 0 /\ ~input.useMaxAmount
  BY <1>2 DEF Plan
<1>3. CASE ~(input.amount = 0 /\ ~input.useMaxAmount) /\ input.utxos = <<>>
  BY <1>3 DEF Plan
<1>4. CASE ~(input.amount = 0 /\ ~input.useMaxAmount) /\ input.utxos # <<>>
  <2>1. PICK selected \in Selections(input) :
            LET utxos == CutOff(selected) IN
              IF utxos = <<>> THEN plan' = Failed("not_enough_utxos")
              ELSE \E fee \in Estimates(input, utxos) : plan' = Settle(input, utxos, fee)
    BY <1>4 DEF Plan
  <2>2. CutOff(selected) \in Seq(Nat)
    BY <1>1, SelectionsWorthy, CutOffWorthy DEF Worthy
  <2>3. \A fee \in Estimates(input, CutOff(selected)) : fee \in Nat
    BY <1>1, <2>2, EstimatesType
  <2> QED
    BY <1>4, <2>1, <2>3
<1> QED
  BY <1>2, <1>3, <1>4

LEMMA PlanIInv ==
    ASSUME IInv, Plan
    PROVE  IInv'
<1>1. TypeOK /\ input \in Input /\ tx.inputs \in Seq(Nat)
  BY DEF IInv, TypeOK
<1>2. stage' = "planned" /\ input' = input /\ tx' = tx
  BY DEF Plan
<1>3. CASE \E reason \in {"zero_amount_requested", "missing_input_utxos", "not_enough_utxos"} :
              plan' = Failed(reason)
  <2>1. ~Planned'
    BY <1>3 DEF Planned, Failed
  <2>2. TypeOK'
    BY <1>1, <1>2, <1>3, FailedType DEF TypeOK
  <2> QED
    BY <1>2, <2>1, <2>2 DEF IInv, SignedPaysTheFee
<1>4. CASE \E selected \in Selections(input), fee \in Nat :
              plan' = Settle(input, CutOff(selected), fee)
  <2>1. PICK selected \in Selections(input), fee \in Nat :
            plan' = Settle(input, CutOff(selected), fee)
    BY <1>4
  <2>2. Worthy(input, CutOff(selected)) /\ CutOff(selected) \in Seq(Nat)
    BY <1>1, SelectionsWorthy, CutOffWorthy DEF Worthy
  <2>3. Sound(input, plan')
    BY <1>1, <2>1, <2>2, SettleSound
  <2>4. plan'.utxos = CutOff(selected)
    BY <2>1 DEF Settle
  <2>5. TypeOK'
    BY <1>1, <1>2, <2>2, <2>3, <2>4 DEF TypeOK, Sound
  <2> QED
    BY <1>2, <2>2, <2>3, <2>4, <2>5 DEF IInv, SignedPaysTheFee
<1> QED
  BY <1>1, <1>3, <1>4, PlanResult

(* The outputs of the transaction are worth the amount and the change. *)
LEMMA OutputsTotal ==
    ASSUME NEW in, NEW p, p.amount \in Nat, p.change \in Nat
    PROVE  LET outputs == Build(in, p).outputs IN
           /\ Total([i \in 1..Len(outputs) |-> outputs[i].amount]) = p.amount + p.change
           /\ \A i \in 1..Len(outputs) : outputs[i].to = "change" => outputs[i].amount > 0
<1> DEFINE outputs == Build(in, p).outputs
           amounts == [i \in 1..Len(outputs) |-> outputs[i].amount]
           recipient == [to |-> "recipient", amount |-> p.amount]
           change == [to |-> "change", amount |-> p.change]
           data == [to |-> "data", amount |-> 0]
           kinds == {recipient, change, data}
           toChange == IF p.change > 0 THEN <<change>> ELSE <<>>
           toData == IF in.opReturn THEN <<data>> ELSE <<>>
           paid == <<recipient>> \o toChange
<1>1. outputs = paid \o toData
  BY DEF Build
<1>2. /\ <<recipient>> \in Seq(kinds) /\ Len(<<recipient>>) = 1 /\ <<recipient>>[1] = recipient
      /\ toChange \in Seq(kinds) /\ Len(toChange) = IF p.change > 0 THEN 1 ELSE 0
      /\ p.change > 0 => toChange[1] = change
      /\ toData \in Seq(kinds) /\ Len(toData) = IF in.opReturn THEN 1 ELSE 0
      /\ in.opReturn => toData[1] = data
  <2> HIDE DEF recipient, change, data
  <2>1. \A x \in kinds : <<x>> \in Seq(kinds) /\ Len(<<x>>) = 1 /\ <<x>>[1] = x
    OBVIOUS
  <2>2. <<>> \in Seq(kinds) /\ Len(<<>>) = 0
    OBVIOUS
  <2>3. recipient \in kinds /\ change \in kinds /\ data \in kinds
    OBVIOUS
  <2> HIDE DEF kinds
  <2>4. toChange \in Seq(kinds) /\ Len(toChange) = IF p.change > 0 THEN 1 ELSE 0
    BY <2>1, <2>2, <2>3
  <2>5. toData \in Seq(kinds) /\ Len(toData) = IF in.opReturn THEN 1 ELSE 0
    BY <2>1, <2>2, <2>3
  <2> QED
    BY <2>1, <2>3, <2>4, <2>5
<1>3. /\ recipient.to = "recipient" /\ recipient.amount = p.amount
      /\ change.to = "change" /\ change.amount = p.change
      /\ data.to = "data" /\ data.amount = 0
      /\ \A x \in kinds : x.amount \in Nat
  OBVIOUS
<1> HIDE DEF recipient, change, data, toChange, toData, outputs, kinds, paid
<1>4. /\ paid \in Seq(kinds)
      /\ Len(paid) = IF p.change > 0 THEN 2 ELSE 1
      /\ paid[1] = recipient
      /\ p.change > 0 => paid[2] = change
  <2>1. /\ paid \in Seq(kinds)
        /\ Len(paid) = 1 + Len(toChange)
        /\ \A i \in 1..(1 + Len(toChange)) :
              paid[i] = IF i <= 1 THEN <<recipient>>[i] ELSE toChange[i - 1]
    BY <1>2, ConcatProperties DEF paid
  <2>2. p.change > 0 => paid[2] = toChange[2 - 1]
    BY <1>2, <2>1
  <2> QED
    BY <1>2, <2>1, <2>2
<1>5. /\ outputs \in Seq(kinds)
      /\ Len(outputs) = Len(paid) + Len(toData)
      /\ \A i \in 1..(Len(paid) + Len(toData)) :
            outputs[i] = IF i <= Len(paid) THEN paid[i] ELSE toData[i - Len(paid)]
  BY <1>1, <1>2, <1>4, ConcatProperties
<1>6. /\ Len(outputs) = (IF p.change > 0 THEN 2 ELSE 1) + (IF in.opReturn THEN 1 ELSE 0)
      /\ outputs[1] = recipient
      /\ p.change > 0 => outputs[2] = change
      /\ in.opReturn => outputs[Len(outputs)] = data
  <2>1. in.opReturn => outputs[Len(paid) + 1] = toData[(Len(paid) + 1) - Len(paid)]
    BY <1>2, <1>4, <1>5
  <2> QED
    BY <1>2, <1>4, <1>5, <2>1
<1>7. /\ amounts \in Seq(Nat) /\ Len(amounts) = Len(outputs) /\ Len(outputs) \in 1..3
      /\ \A i \in 1..Len(outputs) : amounts[i] = outputs[i].amount
  <2>1. Len(outputs) \in 1..3
    BY <1>6
  <2>2. \A i \in 1..Len(outputs) : outputs[i].amount \in Nat
    BY <1>3, <1>5
  <2> QED
    BY <2>1, <2>2
<1> HIDE DEF amounts
<1>8. Total(amounts) = amounts[1] + (IF Len(amounts) > 1 THEN amounts[2] ELSE 0)
                                  + (IF Len(amounts) > 2 THEN amounts[3] ELSE 0)
  BY <1>7, TotalOfFew
<1>9. Total(amounts) = p.amount + p.change
  <2>1. amounts[1] = p.amount
    BY <1>3, <1>6, <1>7
  <2>2. CASE p.change > 0 /\ in.opReturn
    <3>1. Len(amounts) = 3 /\ amounts[2] = p.change /\ amounts[3] = 0
      BY <1>3, <1>6, <1>7, <2>2
    <3> QED
      BY <1>8, <2>1, <3>1
  <2>3. CASE p.change > 0 /\ ~in.opReturn
    <3>1. Len(amounts) = 2 /\ amounts[2] = p.change
      BY <1>3, <1>6, <1>7, <2>3
    <3> QED
      BY <1>8, <2>1, <3>1
  <2>4. CASE p.change = 0 /\ in.opReturn
    <3>1. Len(amounts) = 2 /\ amounts[2] = 0
      BY <1>3, <1>6, <1>7, <2>4
    <3> QED
      BY <1>8, <2>1, <2>4, <3>1
  <2>5. CASE p.change = 0 /\ ~in.opReturn
    <3>1. Len(amounts) = 1
      BY <1>6, <1>7, <2>5
    <3> QED
      BY <1>8, <2>1, <2>5, <3>1
  <2> QED
    BY <2>2, <2>3, <2>4, <2>5
<1>10. \A i \in 1..Len(outputs) : outputs[i].to = "change" => outputs[i].amount > 0
  <2>1. CASE p.change > 0
    <3>1. \A x \in kinds : x.to = "change" => x.amount > 0
      BY <1>3, <2>1 DEF kinds
    <3> QED
      BY <1>5, <3>1
  <2>2. CASE p.change = 0
    <3>1. \A i \in 1..Len(outputs) : outputs[i] \in {recipient, data}
      BY <1>6, <2>2
    <3> QED
      BY <1>3, <3>1
  <2> QED
    BY <2>1, <2>2
<1> QED
  BY <1>9, <1>10 DEF amounts, outputs

LEMMA SignIInv ==
    ASSUME IInv, Sign
    PROVE  IInv'
<1>1. /\ stage' = "signed" /\ input' = input /\ plan' = plan
      /\ tx' = Build(input, plan) /\ Planned
  BY DEF Sign, Planned
<1>2. Sound(input, plan) /\ Worthy(input, plan.utxos) /\ TypeOK
  BY <1>1 DEF IInv
<1>3. tx'.inputs = plan.utxos
  BY <1>1 DEF Build
<1>4. TypeOK'
  BY <1>1, <1>2, <1>3 DEF TypeOK
<1>5. SignedPaysTheFee'
  <2> DEFINE outputs == tx'.outputs
  <2>1. plan.amount \in Nat /\ plan.change \in Nat /\ plan.fee \in Nat
    BY <1>2 DEF Sound
  <2>2. /\ Total([i \in 1..Len(outputs) |-> outputs[i].amount]) = plan.amount + plan.change
        /\ \A i \in 1..Len(outputs) : outputs[i].to = "change" => outputs[i].amount > 0
    BY <1>1, <2>1, OutputsTotal
  <2>3. Total(plan.utxos) = plan.amount + plan.fee + plan.change
    BY <1>2 DEF Sound
  <2>4. Total(tx'.inputs) - (plan.amount + plan.change) = plan'.fee
    BY <1>1, <1>3, <2>1, <2>3
  <2> QED
    BY <2>2, <2>4 DEF SignedPaysTheFee
<1> QED
  BY <1>1, <1>2, <1>4, <1>5 DEF IInv, Planned

LEMMA NextIInv ==
    ASSUME IInv, [Next]_vars
    PROVE  IInv'
<1>1. CASE SignFails
  BY <1>1 DEF SignFails, IInv, TypeOK, Planned, SignedPaysTheFee
<1>2. CASE UNCHANGED vars
  BY <1>2 DEF vars, IInv, TypeOK, Planned, SignedPaysTheFee
<1> QED
  BY <1>1, <1>2, PlanIInv, SignIInv DEF Next

LEMMA IInvCorrect == Spec => []IInv
<1> QED
  BY InitIInv, NextIInv, PTL DEF Spec

(* Every variable keeps its type (TransactionBuilder::plan and build). *)
THEOREM PlanTypeCorrect == Spec => []TypeOK
<1>1. IInv => TypeOK
  BY DEF IInv
<1> QED
  BY <1>1, IInvCorrect, PTL

(* Amount, fee and change of a plan are what its outputs hold.              *)
THEOREM EveryPlanBalances == Spec => []PlanBalances
<1>1. IInv => PlanBalances
  BY DEF IInv, PlanBalances, Sound
<1> QED
  BY <1>1, IInvCorrect, PTL

(* A recipient gets less than asked for only if no change is left.          *)
THEOREM NeverShortWithChange == Spec => []ShortOnlyWithoutChange
<1>1. IInv => ShortOnlyWithoutChange
  BY DEF IInv, ShortOnlyWithoutChange, Sound
<1> QED
  BY <1>1, IInvCorrect, PTL

(* No plan spends an output that costs more than it brings, whichever way   *)
(* the outputs were selected and wherever the selection was cut off.        *)
THEOREM DustStays == Spec => []NoDustSpent
<1>1. IInv => NoDustSpent
  BY DEF IInv, NoDustSpent, Worthy, Dust
<1> QED
  BY <1>1, IInvCorrect, PTL

(* What a signed transaction takes in beyond what it pays out is the fee of *)
(* its plan.                                                                *)
THEOREM FeeIsTheDifference == Spec => []SignedPaysTheFee
<1>1. IInv => SignedPaysTheFee
  BY DEF IInv
<1> QED
  BY <1>1, IInvCorrect, PTL

-------------------------------------------------------------------------------
(* What select() and selectSimple() return holds the target if the          *)
(* calculator charges whole bytes per input: dust that is taken out again   *)
(* was then worth no more than the fee that was added for it.               *)
LEMMA SelectionsCover ==
    ASSUME InputQuarters % 4 = 0,
           NEW in \in Input, ~MaxAmount(in), NEW selected \in Selections(in), selected # <<>>
    PROVE  in.amount <= Total(selected)
<1> DEFINE outputs == OutputCount(in)
           limit == SingleInput(in.byteFee)
<1>1. /\ in.utxos \in Seq(Nat) /\ in.amount \in Nat /\ in.byteFee \in Nat
      /\ outputs \in Nat /\ limit \in Nat
  BY InputType
<1>2. \/ selected \in Select(in.utxos, in.amount, in.byteFee, outputs)
      \/ selected = SelectSimple(in.utxos, in.amount, in.byteFee, outputs)
  BY DEF Selections
<1> HIDE DEF outputs, limit
<1>3. CASE selected \in Select(in.utxos, in.amount, in.byteFee, outputs)
  <2>1. PICK part \in Seq(Nat) :
            /\ Total(part) >= in.amount + Calculate(Len(part), outputs, in.byteFee)
            /\ selected = FilterOutDust(part, in.byteFee)
    BY <1>1, <1>3, SelectFilters
  <2> DEFINE n == Len(part)
  <2>2. n \in Nat
    OBVIOUS
  <2>3. selected \in Seq(Nat) /\ Total(part) <= Total(selected) + limit * n
    <3>1. /\ selected \in Seq(Nat) /\ Len(selected) <= n
          /\ Total(part) <= Total(selected) + limit * (n - Len(selected))
      BY <1>1, <2>1, FilterResult DEF FilterOutDust, limit
    <3>2. n - Len(selected) \in 0..n
      BY <2>2, <3>1
    <3>3. \A x \in 0..n : limit * x \in Nat /\ limit * x <= limit * n
      <4> HIDE DEF n
      <4> QED
        BY <1>1, <2>2
    <3>4. limit * (n - Len(selected)) \in Nat /\ limit * n \in Nat
          /\ limit * (n - Len(selected)) <= limit * n
      BY <2>2, <3>2, <3>3
    <3>5. Total(part) \in Nat /\ Total(selected) \in Nat
      BY <2>1, <3>1, TotalType
    <3>6. \A a, b, c, d \in Nat : a <= b + c /\ c <= d => a <= b + d
      OBVIOUS
    <3> QED
      BY <3>1, <3>4, <3>5, <3>6
  <2>4. limit * n <= Calculate(n, outputs, in.byteFee)
    <3>1. PICK base \in Nat :
              \A inputs \in Nat : Calculate(inputs, outputs, in.byteFee) = limit * inputs + base
      BY <1>1, WholeBytes DEF limit
    <3>2. Calculate(n, outputs, in.byteFee) = limit * n + base
      BY <2>2, <3>1
    <3>3. limit * n \in Nat
      <4>1. \A x, y \in Nat : x * y \in Nat
        OBVIOUS
      <4> QED
        BY <1>1, <2>2, <4>1
    <3> HIDE DEF n
    <3> QED
      BY <3>2, <3>3
  <2>5. /\ limit * n \in Nat /\ Calculate(n, outputs, in.byteFee) \in Nat
        /\ Total(part) \in Nat /\ Total(selected) \in Nat
    <3>1. \A x, y \in Nat : x * y \in Nat
      OBVIOUS
    <3> QED
      BY <1>1, <2>2, <2>3, <3>1, FeeType, TotalType
  <2> DEFINE lost == limit * n
             fee == Calculate(n, outputs, in.byteFee)
  <2>6. Total(part) >= in.amount + fee /\ Total(part) <= Total(selected) + lost /\ lost <= fee
    BY <2>1, <2>3, <2>4
  <2>7. lost \in Nat /\ fee \in Nat
    BY <2>5
  <2> HIDE DEF lost, fee, n
  <2> QED
    BY <1>1, <2>5, <2>6, <2>7
<1>4. CASE selected = SelectSimple(in.utxos, in.amount, in.byteFee, outputs)
  <2>1. LET chosen == SelectSimple(in.utxos, in.amount, in.byteFee, outputs)
            left == FilterOutDust(in.utxos, in.byteFee)
        IN  \/ chosen = <<>>
            \/ \E i \in 1..Len(left) :
                   chosen = SubSeq(left, 1, i) /\ Total(chosen) >= in.amount
    BY <1>1, SimpleTakes
  <2>2. Total(selected) >= in.amount
    BY <1>4, <2>1
  <2>3. Total(selected) \in Nat
    BY SelectionsWorthy, TotalType DEF Worthy
  <2> QED
    BY <1>1, <2>2, <2>3
<1> QED
  BY <1>2, <1>3, <1>4

(* With whole bytes per input and no more outputs on offer than the hard    *)
(* limit, every plan for an amount holds that amount: the assertion on the  *)
(* preliminary plan of TransactionBuilder::plan.  Neither condition can be  *)
(* left out.                                                                *)
THEOREM PlansCover ==
    ASSUME InputQuarters % 4 = 0, \A list \in Wallets : Len(list) <= MaxUtxosHardLimit
    PROVE  Spec => []AmountCovered
<1>1. Init => AmountCovered
  BY DEF Init, AmountCovered, Planned
<1>2. ASSUME TypeOK, AmountCovered, [Next]_vars
      PROVE  AmountCovered'
  <2>1. CASE Plan
    <3>1. input \in Input /\ input' = input /\ stage' = "planned"
      BY <1>2, <2>1 DEF TypeOK, Plan
    <3>2. CASE \E reason \in {"zero_amount_requested", "missing_input_utxos", "not_enough_utxos"} :
                  plan' = Failed(reason)
      BY <3>2 DEF AmountCovered, Planned, Failed
    <3>3. CASE \E selected \in Selections(input), fee \in Nat :
                  CutOff(selected) # <<>> /\ plan' = Settle(input, CutOff(selected), fee)
      <4>1. PICK selected \in Selections(input), fee \in Nat :
                CutOff(selected) # <<>> /\ plan' = Settle(input, CutOff(selected), fee)
        BY <3>3
      <4>2. Worthy(input, selected)
        BY <3>1, SelectionsWorthy
      <4>3. CutOff(selected) = selected
        <5>1. input.utxos \in Wallets /\ Len(input.utxos) \in Nat
          BY <3>1, InputType
        <5>2. Len(selected) <= MaxUtxosHardLimit
          BY <4>2, <5>1, PlanAssumption DEF Worthy
        <5> QED
          BY <5>2 DEF CutOff
      <4>4. plan'.available = Total(selected)
        BY <4>1, <4>3 DEF Settle
      <4>5. ~MaxAmount(input) => input.amount <= Total(selected)
        BY <3>1, <4>1, <4>3, SelectionsCover
      <4> QED
        BY <3>1, <4>4, <4>5 DEF AmountCovered
    <3> QED
      BY <1>2, <2>1, <3>2, <3>3, PlanResult
  <2>2. CASE Sign
    BY <1>2, <2>2 DEF Sign, AmountCovered, Planned
  <2>3. CASE SignFails
    BY <1>2, <2>3 DEF SignFails, AmountCovered, Planned
  <2>4. CASE UNCHANGED vars
    BY <1>2, <2>4 DEF vars, AmountCovered, Planned
  <2> QED
    BY <1>2, <2>1, <2>2, <2>3, <2>4 DEF Next
<1> QED
  BY <1>1, <1>2, PlanTypeCorrect, PTL DEF Spec

-------------------------------------------------------------------------------
(* How few outputs a plan spends, and what it leaves for change.            *)
LEMMA AskedFor ==
    ASSUME NEW in \in Input, ~MaxAmount(in), ~(in.amount = 0 /\ ~in.useMaxAmount)
    PROVE  in.amount # 0 /\ in.amount <= Total(in.utxos)
<1>1. in.amount \in Nat /\ Total(in.utxos) \in Nat
  BY InputType, TotalType
<1>2. ~in.useMaxAmount /\ ~(in.amount >= Total(in.utxos))
  BY DEF MaxAmount
<1> QED
  BY <1>1, <1>2

(* What is selected where some set of outputs would hold amount, fee and    *)
(* the cost of one more input.                                              *)
LEMMA CoveredSelection ==
    ASSUME SimpleModeLimit <= MaxUtxosHardLimit,
           NEW in \in Input, ~MaxAmount(in), ~(in.amount = 0 /\ ~in.useMaxAmount),
           Len(in.utxos) <= SimpleModeLimit,
           NEW S \in SUBSET (1..Len(in.utxos)),
           NEW h, SetSums(in.utxos, h),
           h[S] >= in.amount + Calculate(Cardinality(S), OutputCount(in), in.byteFee)
                             + SingleInput(in.byteFee),
           NEW selected \in Selections(in)
    PROVE  /\ CutOff(selected) = selected /\ selected \in Seq(Nat)
           /\ \E part \in Seq(Nat) :
                 /\ Len(part) <= Cardinality(S)
                 /\ Total(part) >= in.amount + Calculate(Len(part), OutputCount(in), in.byteFee)
                                             + SingleInput(in.byteFee)
                 /\ selected = FilterOutDust(part, in.byteFee)
<1>1. /\ in.utxos \in Seq(Nat) /\ Len(in.utxos) \in Nat /\ in.amount \in Nat
      /\ in.byteFee \in Nat /\ OutputCount(in) \in Nat
  BY InputType
<1>2. in.amount # 0 /\ in.amount <= Total(in.utxos)
  BY AskedFor
<1>3. Len(in.utxos) <= MaxUtxosHardLimit
  BY <1>1, PlanAssumption
<1>4. selected \in Select(in.utxos, in.amount, in.byteFee, OutputCount(in))
  BY <1>3 DEF Selections
<1>5. CutOff(selected) = selected /\ selected \in Seq(Nat)
  <2>1. selected \in Seq(Nat) /\ Len(selected) <= Len(in.utxos)
    BY SelectionsWorthy DEF Worthy
  <2>2. Len(selected) <= MaxUtxosHardLimit
    BY <1>1, <1>3, <2>1, PlanAssumption
  <2> QED
    BY <2>1, <2>2 DEF CutOff
<1>6. \E part \in Seq(Nat) :
         /\ Len(part) <= Cardinality(S)
         /\ Total(part) >= in.amount + Calculate(Len(part), OutputCount(in), in.byteFee)
                                     + SingleInput(in.byteFee)
         /\ selected = FilterOutDust(part, in.byteFee)
  <2> DEFINE list == in.utxos
             target == in.amount
             price == in.byteFee
             outputs == OutputCount(in)
  <2>1. /\ list \in Seq(Nat) /\ target \in Nat /\ price \in Nat /\ outputs \in Nat
        /\ target # 0 /\ target <= Total(list) /\ S \in SUBSET (1..Len(list))
        /\ SetSums(list, h)
        /\ h[S] >= target + Calculate(Cardinality(S), outputs, price) + SingleInput(price)
        /\ selected \in Select(list, target, price, outputs)
    BY <1>1, <1>2, <1>4
  <2> HIDE DEF list, target, price, outputs
  <2>2. \E part \in Seq(Nat) :
           /\ Len(part) <= Cardinality(S)
           /\ Total(part) >= target + Calculate(Len(part), outputs, price) + SingleInput(price)
           /\ selected = FilterOutDust(part, price)
    BY <2>1, CleanSelection
  <2> QED
    BY <2>2 DEF target, price, outputs
<1> QED
  BY <1>5, <1>6

(* The plan of a selection that some set of outputs could have covered. *)
LEMMA CoveredPlan ==
    ASSUME SimpleModeLimit <= MaxUtxosHardLimit, TypeOK, Plan, Selected',
           NEW S \in Covering(input)
    PROVE  \E part, selected \in Seq(Nat) : \E fee \in Estimates(input, selected) :
              /\ Len(part) <= Cardinality(S)
              /\ Total(part) >= input.amount
                                + Calculate(Len(part), OutputCount(input), input.byteFee) + Dust
              /\ selected = FilterOutDust(part, input.byteFee)
              /\ plan' = Settle(input, selected, fee)
<1>1. input \in Input /\ input' = input /\ input.utxos \in Seq(Nat)
  BY InputType DEF TypeOK, Plan
<1>2. ~MaxAmount(input) /\ Len(input.utxos) <= SimpleModeLimit /\ plan'.error = "ok"
  BY <1>1 DEF Selected, Planned, MaxAmount
<1>3. PICK selected \in Selections(input), fee \in Nat :
            /\ fee \in Estimates(input, CutOff(selected))
            /\ ~(input.amount = 0 /\ ~input.useMaxAmount)
            /\ plan' = Settle(input, CutOff(selected), fee)
  <2>1. \A reason \in {"zero_amount_requested", "missing_input_utxos", "not_enough_utxos"} :
            plan' # Failed(reason)
    BY <1>2 DEF Failed
  <2> QED
    BY <2>1, PlanResult
<1>4. PICK h : SetSums(input.utxos, h)
  BY <1>1, SetSumsExist
<1>5. /\ S \in SUBSET (1..Len(input.utxos))
      /\ h[S] >= input.amount + Calculate(Cardinality(S), OutputCount(input), input.byteFee)
                              + SingleInput(input.byteFee)
  <2>1. /\ S \in SUBSET (1..Len(input.utxos))
        /\ MapThenSumSet(LAMBDA i : input.utxos[i], S)
             >= input.amount + Calculate(Cardinality(S), OutputCount(input), input.byteFee)
                             + SingleInput(input.byteFee)
    BY DEF Covering
  <2>2. MapThenSumSet(LAMBDA i : input.utxos[i], S) = h[S]
    BY <1>1, <1>4, <2>1, SetSumIs
  <2> QED
    BY <2>1, <2>2
<1>6. /\ CutOff(selected) = selected /\ selected \in Seq(Nat)
      /\ \E part \in Seq(Nat) :
            /\ Len(part) <= Cardinality(S)
            /\ Total(part) >= input.amount
                              + Calculate(Len(part), OutputCount(input), input.byteFee)
                              + SingleInput(input.byteFee)
            /\ selected = FilterOutDust(part, input.byteFee)
  BY <1>1, <1>2, <1>3, <1>4, <1>5, CoveredSelection
<1> QED
  BY <1>3, <1>6 DEF Dust

(* No outputs that would have paid for amount, fee and a worthy change are  *)
(* fewer than those of the plan.  The limit of the exact mode is one of the *)
(* whole wallet and at most the hard limit, as in the code (1000 and 3000). *)
THEOREM FewestTaken ==
    ASSUME SimpleModeLimit <= MaxUtxosHardLimit
    PROVE  Spec => []FewestInputs
<1>1. Init => FewestInputs
  BY DEF Init, FewestInputs, Selected, Planned
<1>2. ASSUME TypeOK, FewestInputs, [Next]_vars
      PROVE  FewestInputs'
  <2>1. CASE Plan
    <3>1. input' = input /\ input \in Input
      BY <1>2, <2>1 DEF Plan, TypeOK
    <3>2. ASSUME Selected', NEW S \in Covering(input)
          PROVE  Len(plan'.utxos) <= Cardinality(S)
      <4>1. PICK part \in Seq(Nat), selected \in Seq(Nat) : \E fee \in Estimates(input, selected) :
                  /\ Len(part) <= Cardinality(S)
                  /\ selected = FilterOutDust(part, input.byteFee)
                  /\ plan' = Settle(input, selected, fee)
        BY <1>2, <2>1, <3>2, CoveredPlan
      <4>2. Len(selected) <= Len(part)
        BY <3>1, <4>1, InputType, FilterResult DEF FilterOutDust
      <4>3. plan'.utxos = selected
        BY <4>1 DEF Settle
      <4>4. Cardinality(S) \in Nat
        <5>1. S \in SUBSET (1..Len(input.utxos)) /\ input.utxos \in Seq(Nat)
          BY <3>1, InputType DEF Covering
        <5> QED
          BY <5>1, Places, SMTT(30)
      <4>5. Len(selected) \in Nat /\ Len(part) \in Nat
        BY <4>1
      <4> QED
        BY <4>1, <4>2, <4>3, <4>4, <4>5
    <3> QED
      BY <3>1, <3>2 DEF FewestInputs
  <2>2. CASE Sign \/ SignFails \/ UNCHANGED vars
    <3>1. input' = input /\ plan' = plan /\ (Selected' => Selected)
      BY <2>2 DEF Sign, SignFails, vars, Selected, Planned, MaxAmount
    <3> QED
      BY <1>2, <3>1 DEF FewestInputs
  <2> QED
    BY <1>2, <2>1, <2>2 DEF Next
<1> QED
  BY <1>1, <1>2, PlanTypeCorrect, PTL DEF Spec

(* A selection for an amount whose slice held amount, fee and dust leaves   *)
(* the dust for change: what the filter drops was charged for in the fee.   *)
LEMMA ChangeIsLeft ==
    ASSUME InputQuarters % 4 = 0, NEW in \in Input, ~MaxAmount(in), NEW part \in Seq(Nat),
           Total(part) >= in.amount + Calculate(Len(part), OutputCount(in), in.byteFee)
                                    + SingleInput(in.byteFee)
    PROVE  LET selected == FilterOutDust(part, in.byteFee) IN
           Settle(in, selected, Calculate(Len(selected), OutputCount(in), in.byteFee)).change
               >= SingleInput(in.byteFee)
<1> DEFINE selected == FilterOutDust(part, in.byteFee)
           dust == SingleInput(in.byteFee)
           all == Len(part)
           few == Len(selected)
           estimate == Calculate(few, OutputCount(in), in.byteFee)
           available == Total(selected)
           p == Settle(in, selected, estimate)
<1>1. in.amount \in Nat /\ in.byteFee \in Nat /\ OutputCount(in) \in Nat /\ dust \in Nat
  BY InputType
<1>2. /\ selected \in Seq(Nat) /\ few <= all
      /\ Total(part) <= available + dust * (all - few)
  BY <1>1, FilterResult DEF FilterOutDust
<1>3. PICK base \in Nat : \A inputs \in Nat :
          Calculate(inputs, OutputCount(in), in.byteFee) = dust * inputs + base
  BY <1>1, WholeBytes
<1>4. Total(part) \in Nat /\ available \in Nat /\ all \in Nat /\ few \in Nat
  BY <1>2, TotalType
<1>5. /\ Total(part) >= in.amount + (dust * all + base) + dust
      /\ estimate = dust * few + base
  BY <1>3, <1>4
<1>6. available >= in.amount + estimate + dust /\ estimate \in Nat
  <2> DEFINE total == Total(part)
             amount == in.amount
  <2>1. \A x, y, z \in Nat : y >= z => x * y = x * z + x * (y - z) /\ x * z \in Nat
                                       /\ x * (y - z) \in Nat
    OBVIOUS
  <2>2. /\ dust * all = dust * few + dust * (all - few)
        /\ dust * few \in Nat /\ dust * (all - few) \in Nat
    <3> HIDE DEF dust, all, few
    <3> QED
      BY <1>1, <1>2, <1>4, <2>1
  <2>3. \A t, m, v, a, f, r, b, d, e \in Nat :
            t >= m + (a + b) + d /\ t <= v + r /\ a = f + r /\ e = f + b => v >= m + e + d
    OBVIOUS
  <2>4. estimate \in Nat /\ dust * all \in Nat
    <3> HIDE DEF dust, all, few, estimate
    <3> QED
      BY <1>5, <2>2
  <2>5. total >= amount + (dust * all + base) + dust /\ total <= available + dust * (all - few)
    BY <1>2, <1>5
  <2>6. total \in Nat /\ amount \in Nat
    BY <1>1, <1>4
  <2> HIDE DEF total, amount, available, estimate, dust, all, few
  <2>7. available >= amount + estimate + dust
    BY <1>1, <1>4, <1>5, <2>2, <2>3, <2>4, <2>5, <2>6, Zenon
  <2> QED
    BY <2>4, <2>7 DEF amount
<1>7. /\ Lesser(available, estimate) = estimate
      /\ Lesser(in.amount, available - estimate) = in.amount
      /\ Greater(0, in.amount) = in.amount
      /\ available - in.amount - estimate >= dust
  <2> HIDE DEF available, estimate, dust
  <2> QED
    BY <1>1, <1>4, <1>6, SMTT(30) DEF Lesser, Greater
<1>8. p.change = available - in.amount - estimate
  <2> HIDE DEF estimate
  <2>1. p.change = available
                   - Greater(0, Lesser(in.amount, available - Lesser(available, estimate)))
                   - Lesser(available, estimate)
    BY DEF Settle
  <2> HIDE DEF available, p
  <2> QED
    BY <1>7, <2>1
<1> QED
  BY <1>7, <1>8

(* If any set of outputs can pay without leaving dust for change, the plan  *)
(* leaves none.  The calculator of a coin that is not segwit charges 148    *)
(* bytes, whole ones, for an input.                                         *)
THEOREM NoDustLeft ==
    ASSUME SimpleModeLimit <= MaxUtxosHardLimit, InputQuarters % 4 = 0
    PROVE  Spec => []NoDustChange
<1>1. Init => NoDustChange
  BY DEF Init, NoDustChange, Selected, Planned
<1>2. ASSUME TypeOK, NoDustChange, [Next]_vars
      PROVE  NoDustChange'
  <2>1. CASE Plan
    <3>1. input' = input /\ input \in Input
      BY <1>2, <2>1 DEF Plan, TypeOK
    <3>2. ASSUME Selected', ~input.segwit, NEW S \in Covering(input)
          PROVE  plan'.change >= Dust
      <4>1. PICK part \in Seq(Nat), selected \in Seq(Nat) : \E fee \in Estimates(input, selected) :
                  /\ Total(part) >= input.amount
                                    + Calculate(Len(part), OutputCount(input), input.byteFee) + Dust
                  /\ selected = FilterOutDust(part, input.byteFee)
                  /\ plan' = Settle(input, selected, fee)
        BY <1>2, <2>1, <3>2, CoveredPlan
      <4>2. Estimates(input, selected)
               = {Calculate(Len(selected), OutputCount(input), input.byteFee)}
        BY <3>2 DEF Estimates
      <4>3. plan' = Settle(input, selected,
                           Calculate(Len(selected), OutputCount(input), input.byteFee))
        BY <4>1, <4>2
      <4>4. ~MaxAmount(input)
        BY <3>1, <3>2 DEF Selected, MaxAmount
      <4> QED
        BY <3>1, <4>1, <4>3, <4>4, ChangeIsLeft DEF Dust
    <3> QED
      BY <3>1, <3>2 DEF NoDustChange, Dust
  <2>2. CASE Sign \/ SignFails \/ UNCHANGED vars
    <3>1. input' = input /\ plan' = plan /\ (Selected' => Selected)
      BY <2>2 DEF Sign, SignFails, vars, Selected, Planned, MaxAmount
    <3> QED
      BY <1>2, <3>1 DEF NoDustChange, Dust
  <2> QED
    BY <1>2, <2>1, <2>2 DEF Next
<1> QED
  BY <1>1, <1>2, PlanTypeCorrect, PTL DEF Spec

-------------------------------------------------------------------------------
(* Nothing is signed but a plan without error that could be built.          *)
LEMMA SignedIsBuildable ==
    ASSUME NEW mode, mode # "estimate", NEW given, SignAll(mode, given).error = "ok"
    PROVE  plan.error = "ok" /\ Buildable(input, plan.change)
<1> DEFINE none == [error |-> plan.error, hashes |-> <<>>, inputs |-> <<>>]
<1>1. plan.error = "ok"
  <2>1. SUFFICES ASSUME plan.error # "ok"
                 PROVE  FALSE
    OBVIOUS
  <2>2. SignAll(mode, given) = none
    BY <2>1 DEF SignAll
  <2> QED
    BY <2>1, <2>2
<1>2. Buildable(input, plan.change)
  <2>1. SUFFICES ASSUME ~Buildable(input, plan.change)
                 PROVE  FALSE
    OBVIOUS
  <2>2. SignAll(mode, given) = [none EXCEPT !.error = "missing_input_utxos"]
    BY <1>1, <2>1 DEF SignAll, PlanOf
  <2> QED
    BY <2>2
<1> QED
  BY <1>1, <1>2

(* Whatever signing comes to, it is a step of the abstract signing.         *)
LEMMA OutcomeImplements ==
    ASSUME NEW mode, mode # "estimate", NEW given, stage = "planned",
           Outcome(SignAll(mode, given))
    PROVE  Sign \/ SignFails
<1>1. UNCHANGED <<input, plan>>
  BY DEF Outcome
<1>2. CASE SignAll(mode, given).error = "ok"
  BY <1>1, <1>2, SignedIsBuildable DEF Outcome, Sign
<1>3. CASE SignAll(mode, given).error # "ok"
  BY <1>1, <1>3 DEF Outcome, SignFails
<1> QED
  BY <1>2, <1>3

(* Every behaviour of the signer is one of TransactionPlan: it plans as     *)
(* before, collecting hashes changes nothing of the transfer, and both      *)
(* ways to sign pay exactly what was planned or fail (TransactionSigner.cpp,*)
(* sign and preImageHashes).                                                *)
THEOREM SignerImplementsPlan == SignerSpec => Spec
<1>1. SignerInit => Init
  BY DEF SignerInit
<1>2. [SignerNext]_<<vars, signing>> => [Next]_vars
  <2>1. SUFFICES ASSUME [SignerNext]_<<vars, signing>>
                 PROVE  [Next]_vars
    OBVIOUS
  <2>2. CASE MakePlan
    BY <2>2 DEF MakePlan, Next
  <2>3. CASE SignDirectly
    BY <2>3, OutcomeImplements DEF SignDirectly, Next
  <2>4. CASE PreImageHashes
    BY <2>4 DEF PreImageHashes
  <2>5. CASE Compile
    BY <2>5, OutcomeImplements DEF Compile, Next
  <2>6. CASE UNCHANGED <<vars, signing>>
    BY <2>6
  <2> QED
    BY <2>1, <2>2, <2>3, <2>4, <2>5, <2>6 DEF SignerNext
<1> QED
  BY <1>1, <1>2, PTL DEF SignerSpec, Spec

(* Signed directly or compiled, the transaction spends the outputs of the   *)
(* plan and leaves exactly its fee.                                         *)
THEOREM BothWaysPayTheFee == SignerSpec => []SignedPaysTheFee
  BY SignerImplementsPlan, FeeIsTheDifference, PTL

-------------------------------------------------------------------------------
(* Lists, whatever their elements are. *)
IsList(s) == \E S : s \in Seq(S)

LEMMA ConcatList ==
    ASSUME NEW s, NEW t, IsList(s), IsList(t)
    PROVE  /\ IsList(s \o t)
           /\ Len(s) \in Nat /\ Len(t) \in Nat /\ Len(s \o t) = Len(s) + Len(t)
           /\ \A i \in 1..Len(s) : (s \o t)[i] = s[i]
           /\ \A i \in 1..Len(t) : (s \o t)[Len(s) + i] = t[i]
<1>1. PICK S : s \in Seq(S)
  BY DEF IsList
<1>2. PICK T : t \in Seq(T)
  BY DEF IsList
<1>3. s \in Seq(S \cup T) /\ t \in Seq(S \cup T)
  BY <1>1, <1>2
<1>4. s \o t \in Seq(S \cup T)
  BY <1>3
<1>5. Len(s) \in Nat /\ Len(t) \in Nat /\ Len(s \o t) = Len(s) + Len(t)
  BY <1>3
<1>6. \A i \in 1..(Len(s) + Len(t)) : (s \o t)[i] = IF i <= Len(s) THEN s[i] ELSE t[i - Len(s)]
  BY <1>3, ConcatProperties
<1>7. ASSUME NEW i \in 1..Len(s)
      PROVE  (s \o t)[i] = s[i]
  BY <1>5, <1>6
<1>8. ASSUME NEW i \in 1..Len(t)
      PROVE  (s \o t)[Len(s) + i] = t[i]
  <2>1. Len(s) + i \in 1..(Len(s) + Len(t)) /\ ~(Len(s) + i <= Len(s)) /\ Len(s) + i - Len(s) = i
    BY <1>5
  <2> QED
    BY <1>6, <2>1
<1> QED
  BY <1>4, <1>5, <1>7, <1>8 DEF IsList

LEMMA AppendList ==
    ASSUME NEW s, NEW e, IsList(s)
    PROVE  /\ IsList(Append(s, e))
           /\ Len(s) \in Nat /\ Len(Append(s, e)) = Len(s) + 1
           /\ \A i \in 1..Len(s) : Append(s, e)[i] = s[i]
           /\ Append(s, e)[Len(s) + 1] = e
<1>1. PICK S : s \in Seq(S)
  BY DEF IsList
<1>2. s \in Seq(S \cup {e})
  BY <1>1
<1> QED
  BY <1>2, AppendProperties DEF IsList

LEMMA ShortLists ==
    /\ IsList(<<>>) /\ Len(<<>>) = 0
    /\ \A e : IsList(<<e>>) /\ Len(<<e>>) = 1 /\ <<e>>[1] = e
<1>1. <<>> \in Seq({})
  OBVIOUS
<1>2. \A e : <<e>> \in Seq({e})
  OBVIOUS
<1> QED
  BY <1>1, <1>2 DEF IsList

LEMMA FunctionList ==
    ASSUME NEW n \in Nat, NEW S, NEW f \in [1..n -> S]
    PROVE  IsList(f) /\ Len(f) = n
<1>1. f \in Seq(S) /\ Len(f) = n
  OBVIOUS
<1> QED
  BY <1>1 DEF IsList

-------------------------------------------------------------------------------
(* What a script asks for, and the signatures it is given, are lists of the *)
(* same length.                                                             *)
LEMMA SignersList ==
    ASSUME NEW core, MatchMultisig(core)
    PROVE  /\ IsList(Signers(core))
           /\ core.kind = "multi" =>
                 /\ Len(Signers(core)) = core.required /\ core.required \in Nat
                 /\ Len(core.keys) \in Nat /\ core.required <= Len(core.keys)
                 /\ \A j \in 1..core.required : Signers(core)[j] = core.keys[j]
           /\ core.kind # "multi" => Len(Signers(core)) = 1 /\ Signers(core)[1] = core.key
<1>1. CASE core.kind = "multi"
  <2>1. core.keys \in Seq(Key) /\ core.required \in 0..Len(core.keys)
    BY <1>1 DEF MatchMultisig
  <2>2. Len(core.keys) \in Nat /\ core.required \in Nat /\ core.required <= Len(core.keys)
    BY <2>1
  <2>3. Signers(core) = SubSeq(core.keys, 1, core.required)
    BY <1>1 DEF Signers
  <2>4. /\ SubSeq(core.keys, 1, core.required) \in Seq(Key)
        /\ Len(SubSeq(core.keys, 1, core.required)) = core.required
        /\ \A j \in 1..core.required : SubSeq(core.keys, 1, core.required)[j] = core.keys[j]
    <3> DEFINE keys == core.keys
               m == core.required
    <3>1. keys \in Seq(Key) /\ m \in Nat /\ m <= Len(keys)
      BY <2>1, <2>2
    <3> HIDE DEF keys, m
    <3>2. /\ SubSeq(keys, 1, m) \in Seq(Key)
          /\ Len(SubSeq(keys, 1, m)) = m
          /\ \A j \in 1..m : SubSeq(keys, 1, m)[j] = keys[j]
      BY <3>1
    <3> QED
      BY <3>2 DEF keys, m
  <2> QED
    BY <1>1, <2>2, <2>3, <2>4 DEF IsList
<1>2. CASE core.kind # "multi"
  <2>1. Signers(core) = <<core.key>>
    BY <1>2 DEF Signers
  <2> QED
    BY <1>2, <2>1, ShortLists
<1> QED
  BY <1>1, <1>2

LEMMA AskedList ==
    ASSUME NEW script, NEW i, MatchMultisig(Core(script))
    PROVE  /\ IsList(Asked(script, i))
           /\ Len(Asked(script, i)) = Len(Signers(Core(script)))
           /\ Len(Asked(script, i)) \in Nat
           /\ \A j \in 1..Len(Asked(script, i)) :
                 Asked(script, i)[j] =
                    [key |-> Signers(Core(script))[j],
                     hash |-> [script |-> Core(script), input |-> i, version |-> Version(script)]]
<1> DEFINE n == Len(Signers(Core(script)))
           ask(j) == [key |-> Signers(Core(script))[j],
                      hash |-> [script |-> Core(script), input |-> i, version |-> Version(script)]]
           S == {ask(j) : j \in 1..n}
<1>1. n \in Nat
  BY SignersList, ShortLists, ConcatList
<1>2. Asked(script, i) = [j \in 1..n |-> ask(j)]
  BY DEF Asked
<1> HIDE DEF ask, n
<1>3. [j \in 1..n |-> ask(j)] \in [1..n -> S]
  OBVIOUS
<1> HIDE DEF S
<1>4. IsList(Asked(script, i)) /\ Len(Asked(script, i)) = n
  BY <1>1, <1>2, <1>3, FunctionList
<1>5. \A j \in 1..n : Asked(script, i)[j] = ask(j)
  BY <1>2
<1> QED
  BY <1>1, <1>4, <1>5 DEF ask, n

LEMMA SignaturesList ==
    ASSUME NEW mode, NEW given, NEW asked, NEW first, Len(asked) \in Nat
    PROVE  /\ IsList(Signatures(mode, given, asked, first))
           /\ Len(Signatures(mode, given, asked, first)) = Len(asked)
           /\ mode = "normal" => \A j \in 1..Len(asked) :
                 Signatures(mode, given, asked, first)[j] = Signature(asked[j])
           /\ mode = "external" => \A j \in 1..Len(asked) :
                 Signatures(mode, given, asked, first)[j] = Signature(given[first + j])
<1> DEFINE sign(j) == CASE mode = "normal" -> Signature(asked[j])
                        [] mode = "external" -> Signature(given[first + j])
                        [] OTHER -> Blank
           n == Len(asked)
           S == {sign(j) : j \in 1..n}
<1>1. Signatures(mode, given, asked, first) = [j \in 1..n |-> sign(j)]
  BY DEF Signatures
<1>2. mode = "normal" => \A j : sign(j) = Signature(asked[j])
  OBVIOUS
<1>3. mode = "external" => \A j : sign(j) = Signature(given[first + j])
  OBVIOUS
<1> HIDE DEF sign, n
<1>4. [j \in 1..n |-> sign(j)] \in [1..n -> S]
  OBVIOUS
<1> HIDE DEF S
<1>5. n \in Nat
  BY DEF n
<1>6. /\ IsList(Signatures(mode, given, asked, first))
      /\ Len(Signatures(mode, given, asked, first)) = n
  BY <1>1, <1>4, <1>5, FunctionList
<1>7. \A j \in 1..n : Signatures(mode, given, asked, first)[j] = sign(j)
  BY <1>1
<1> QED
  BY <1>2, <1>3, <1>6, <1>7 DEF n

-------------------------------------------------------------------------------
(* An input left unsigned because its hash type binds it to an output there *)
(* is not, and the error of an input that is signed.                        *)
LeftUnsigned(mode, i) ==
    request.hashType = "single" /\ i > Len(Build(input, PlanOf(mode)).outputs)

(* All modes but the trial sign the same outputs. *)
LEMMA LeftAlike ==
    ASSUME NEW m1, m1 # "estimate", NEW m2, m2 # "estimate", NEW i
    PROVE  LeftUnsigned(m1, i) <=> LeftUnsigned(m2, i)
BY DEF LeftUnsigned, PlanOf

Failure(mode, given, done, i) ==
    IF ScriptError(request.scripts[i]) = "ok"
    THEN SigningError(mode, given, Asked(request.scripts[i], i), First(done, i))
    ELSE ScriptError(request.scripts[i])

Spent(mode, given, done, i) ==
    Spending(request.scripts[i], mode, given,
             Signatures(mode, given, Asked(request.scripts[i], i), First(done, i)),
             First(done, i))

IsResult(d) == d = [error |-> d.error, hashes |-> d.hashes, inputs |-> d.inputs]

(* How the result r of an input follows from the result d before it. *)
Follows(mode, given, d, i, r) ==
    \/ d.error # "ok" /\ r = d
    \/ /\ d.error = "ok" /\ LeftUnsigned(mode, i)
       /\ r.error = "ok" /\ r.hashes = d.hashes /\ r.inputs = Append(d.inputs, Unsigned)
    \/ /\ d.error = "ok" /\ ~LeftUnsigned(mode, i) /\ Failure(mode, given, d, i) # "ok"
       /\ r.error = Failure(mode, given, d, i) /\ r.hashes = d.hashes /\ r.inputs = d.inputs
    \/ /\ d.error = "ok" /\ ~LeftUnsigned(mode, i) /\ Failure(mode, given, d, i) = "ok"
       /\ r.error = "ok" /\ r.hashes = d.hashes \o Asked(request.scripts[i], i)
       /\ r.inputs = Append(d.inputs, Spent(mode, given, d, i))

LEMMA SignInputFollows ==
    ASSUME NEW mode, NEW given, NEW d, NEW i, IsResult(d)
    PROVE  /\ IsResult(SignInput(mode, given, d, i))
           /\ Follows(mode, given, d, i, SignInput(mode, given, d, i))
<1>1. SignInput(mode, given, d, i) =
        IF d.error # "ok" THEN d
        ELSE IF LeftUnsigned(mode, i) THEN [d EXCEPT !.inputs = Append(@, Unsigned)]
        ELSE IF Failure(mode, given, d, i) # "ok"
             THEN [d EXCEPT !.error = Failure(mode, given, d, i)]
        ELSE [error |-> "ok", hashes |-> d.hashes \o Asked(request.scripts[i], i),
              inputs |-> Append(d.inputs, Spent(mode, given, d, i))]
  BY Zenon DEF SignInput, LeftUnsigned, Failure, Spent
<1>2. CASE d.error # "ok"
  BY <1>1, <1>2 DEF Follows
<1>3. CASE d.error = "ok" /\ LeftUnsigned(mode, i)
  <2> DEFINE r == [d EXCEPT !.inputs = Append(@, Unsigned)]
  <2>1. SignInput(mode, given, d, i) = r
    BY <1>1, <1>3
  <2>2. r = [error |-> d.error, hashes |-> d.hashes, inputs |-> Append(d.inputs, Unsigned)]
    BY SMTT(30) DEF IsResult
  <2> QED
    BY <1>3, <2>1, <2>2 DEF Follows, IsResult
<1>4. CASE d.error = "ok" /\ ~LeftUnsigned(mode, i) /\ Failure(mode, given, d, i) # "ok"
  <2> DEFINE r == [d EXCEPT !.error = Failure(mode, given, d, i)]
  <2>1. SignInput(mode, given, d, i) = r
    BY <1>1, <1>4
  <2>2. r = [error |-> Failure(mode, given, d, i), hashes |-> d.hashes, inputs |-> d.inputs]
    BY DEF IsResult
  <2> QED
    BY <1>4, <2>1, <2>2 DEF Follows, IsResult
<1>5. CASE d.error = "ok" /\ ~LeftUnsigned(mode, i) /\ Failure(mode, given, d, i) = "ok"
  BY <1>1, <1>5 DEF Follows, IsResult
<1> QED
  BY <1>2, <1>3, <1>4, <1>5

(* The results of the inputs, one after the other: f[0] is the start. *)
Results(mode, given, n, f) ==
    /\ f[0] = [error |-> "ok", hashes |-> <<>>, inputs |-> <<>>]
    /\ \A i \in 0..n : IsResult(f[i])
    /\ \A i \in 1..n : Follows(mode, given, f[i - 1], i, f[i])

LEMMA ResultsOfInputs ==
    ASSUME NEW mode, NEW given, plan.utxos \in Seq(Nat)
    PROVE  Results(mode, given, Len(plan.utxos), SignUpTo(mode, given))
<1> DEFINE n == Len(plan.utxos)
           none == [error |-> "ok", hashes |-> <<>>, inputs |-> <<>>]
           Sol(f, m) == /\ f = [i \in 0..m |-> f[i]] /\ f[0] = none
                        /\ \A i \in 1..m : f[i] = SignInput(mode, given, f[i - 1], i)
           G == {m \in 0..n : \E f : Sol(f, m)}
<1>n. n \in Nat
  OBVIOUS
<1> HIDE DEF n
<1>1. 0 \in G
  <2>1. Sol([i \in 0..0 |-> none], 0)
    OBVIOUS
  <2> HIDE DEF Sol
  <2> QED
    BY <1>n, <2>1
<1>2. ASSUME NEW m \in 1..n, m - 1 \in G
      PROVE  m \in G
  <2>1. PICK f : Sol(f, m - 1)
    BY <1>2
  <2> DEFINE g == [i \in 0..m |-> IF i = m THEN SignInput(mode, given, f[m - 1], m) ELSE f[i]]
  <2>2. g[0] = none /\ g = [i \in 0..m |-> g[i]]
    BY <1>n, <2>1
  <2>3. ASSUME NEW i \in 1..m
        PROVE  g[i] = SignInput(mode, given, g[i - 1], i)
    <3>1. CASE i = m
      <4>1. g[i] = SignInput(mode, given, f[m - 1], m) /\ g[i - 1] = f[m - 1]
        BY <1>n, <3>1
      <4> QED
        BY <4>1, <3>1
    <3>2. CASE i # m
      <4>1. i \in 1..(m - 1) /\ g[i] = f[i] /\ g[i - 1] = f[i - 1]
        BY <1>n, <3>2
      <4> QED
        BY <4>1, <2>1
    <3> QED
      BY <3>1, <3>2
  <2>4. Sol(g, m)
    BY <2>2, <2>3
  <2> HIDE DEF g, Sol
  <2> QED
    BY <1>n, <2>4
<1>3. n \in G
  <2>1. G = 0..n
    <3>1. G \subseteq 0..n
      OBVIOUS
    <3> HIDE DEF G
    <3> QED
      BY <1>n, <1>1, <1>2, <3>1, UpTo
  <2> HIDE DEF G
  <2> QED
    BY <1>n, <2>1
<1>4. PICK f : Sol(f, n)
  BY <1>3
<1> DEFINE Rec(h) == h = [i \in 0..n |-> IF i = 0 THEN none ELSE SignInput(mode, given, h[i - 1], i)]
<1>5. Rec(f)
  <2>1. f = [i \in 0..n |-> f[i]]
    BY <1>4
  <2>2. \A i \in 0..n : f[i] = IF i = 0 THEN none ELSE SignInput(mode, given, f[i - 1], i)
    BY <1>n, <1>4
  <2> QED
    BY <2>1, <2>2
<1>6. SignUpTo(mode, given) = CHOOSE h : Rec(h)
  BY DEF SignUpTo, n
<1>7. Rec(SignUpTo(mode, given))
  <2> HIDE DEF Rec
  <2> QED
    BY <1>5, <1>6
<1> DEFINE h == SignUpTo(mode, given)
<1> HIDE DEF h
<1>8. h[0] = none /\ \A i \in 1..n : h[i] = SignInput(mode, given, h[i - 1], i)
  <2>1. h = [i \in 0..n |-> IF i = 0 THEN none ELSE SignInput(mode, given, h[i - 1], i)]
    BY <1>7 DEF h
  <2>2. \A i \in 0..n : h[i] = IF i = 0 THEN none ELSE SignInput(mode, given, h[i - 1], i)
    BY <2>1
  <2> QED
    BY <1>n, <2>2
<1>9. \A i \in 0..n : IsResult(h[i])
  <2> DEFINE I == {i \in 0..n : IsResult(h[i])}
  <2>1. 0 \in I
    BY <1>n, <1>8 DEF IsResult
  <2>2. ASSUME NEW i \in 1..n, i - 1 \in I
        PROVE  i \in I
    BY <1>8, <2>2, SignInputFollows
  <2>3. I = 0..n
    <3>1. I \subseteq 0..n
      OBVIOUS
    <3> HIDE DEF I
    <3> QED
      BY <1>n, <2>1, <2>2, <3>1, UpTo
  <2> QED
    BY <2>3
<1>10. ASSUME NEW i \in 1..n
       PROVE  Follows(mode, given, h[i - 1], i, h[i])
  <2>1. i - 1 \in 0..n
    BY <1>n
  <2> QED
    BY <1>8, <1>9, <2>1, SignInputFollows
<1> QED
  BY <1>8, <1>9, <1>10 DEF Results, h, n

-------------------------------------------------------------------------------
(* Signing depends on the request and its plan alone. *)
LEMMA SignInputSame ==
    ASSUME request' = request, input' = input, plan' = plan,
           NEW mode, NEW given, NEW d, NEW i
    PROVE  SignInput(mode, given, d, i)' = SignInput(mode, given, d, i)
<1> DEFINE script == request.scripts[i]
<1>1. \A s, j : Asked(s, j)' = Asked(s, j)
  <2>1. \A s : Version(s)' = Version(s)
    BY DEF Version
  <2> QED
    BY <2>1 DEF Asked
<1>2. \A s : ScriptError(s)' = ScriptError(s)
  BY DEF ScriptError
<1>3. \A asked, first : SigningError(mode, given, asked, first)' = SigningError(mode, given, asked, first)
  BY DEF SigningError
<1>4. \A asked, first :
         Signatures(mode, given, asked, first)' = Signatures(mode, given, asked, first)
  BY DEF Signatures, Signature
<1>5. \A s, signatures, first :
         Spending(s, mode, given, signatures, first)' = Spending(s, mode, given, signatures, first)
  <2>1. \A key, first : KeyItem(mode, given, key, first)' = KeyItem(mode, given, key, first)
    BY DEF KeyItem
  <2> QED
    BY <2>1 DEF Spending
<1>6. LeftUnsigned(mode, i)' = LeftUnsigned(mode, i) /\ script' = script
  BY DEF LeftUnsigned, Build, PlanOf, Preliminary, MaxAmount
<1>7. Failure(mode, given, d, i)' = Failure(mode, given, d, i)
  BY <1>1, <1>2, <1>3, <1>6 DEF Failure, First
<1>8. Spent(mode, given, d, i)' = Spent(mode, given, d, i)
  BY <1>1, <1>4, <1>5, <1>6 DEF Spent, First
<1> DEFINE result == IF d.error # "ok" THEN d
             ELSE IF LeftUnsigned(mode, i) THEN [d EXCEPT !.inputs = Append(@, Unsigned)]
             ELSE IF Failure(mode, given, d, i) # "ok"
                  THEN [d EXCEPT !.error = Failure(mode, given, d, i)]
             ELSE [error |-> "ok", hashes |-> d.hashes \o Asked(script, i),
                   inputs |-> Append(d.inputs, Spent(mode, given, d, i))]
<1>9. SignInput(mode, given, d, i) = result
  BY Zenon DEF SignInput, LeftUnsigned, Failure, Spent
<1>10. SignInput(mode, given, d, i)' = result'
  BY Zenon DEF SignInput, LeftUnsigned, Failure, Spent
<1>11. result' = result
  <2>1. Asked(script, i)' = Asked(script, i)
    BY <1>1, <1>6
  <2> HIDE DEF script
  <2> QED
    BY <1>6, <1>7, <1>8, <2>1
<1> HIDE DEF result
<1> QED
  BY <1>9, <1>10, <1>11

LEMMA SignAllSame ==
    ASSUME request' = request, input' = input, plan' = plan, NEW mode, NEW given
    PROVE  SignAll(mode, given)' = SignAll(mode, given)
<1>1. SignUpTo(mode, given)' = SignUpTo(mode, given)
  <2> DEFINE body(h) == [i \in 0..Len(plan.utxos) |->
                           IF i = 0 THEN [error |-> "ok", hashes |-> <<>>, inputs |-> <<>>]
                           ELSE SignInput(mode, given, h[i - 1], i)]
  <2>1. \A h : body(h)' = body(h)
    BY SignInputSame
  <2>2. SignUpTo(mode, given) = CHOOSE h : h = body(h)
    BY DEF SignUpTo
  <2>3. SignUpTo(mode, given)' = CHOOSE h : h = body(h)'
    BY DEF SignUpTo
  <2> HIDE DEF body
  <2> QED
    BY <2>1, <2>2, <2>3
<1>2. PlanOf(mode)' = PlanOf(mode)
  BY DEF PlanOf, Preliminary, MaxAmount
<1> QED
  BY <1>1, <1>2 DEF SignAll, Buildable

-------------------------------------------------------------------------------
(* The inductive invariant: what was collected and what was signed is what  *)
(* the request and its plan still give.                                     *)
PlanErrors ==
    {"none", "ok", "zero_amount_requested", "missing_input_utxos", "not_enough_utxos"}

CameOf(mode, given) ==
    /\ error = SignAll(mode, given).error
    /\ error = "ok" => /\ stage = "signed" /\ tx = Build(input, plan)
                       /\ signed = SignAll(mode, given).inputs
    /\ error # "ok" => stage = "failed"

SignerInv ==
    /\ plan.error \in PlanErrors
    /\ stage # "asked" => request.scripts \in [1..Len(plan.utxos) -> Scripts]
    /\ way \in {"open", "collected", "direct", "compiled"}
    /\ way = "open" => stage \in {"asked", "planned"} /\ hashes = <<>> /\ answers = <<>>
    /\ way = "collected" => stage = "planned"
    /\ way \in {"collected", "compiled"} => hashes = SignAll("collect", <<>>).hashes
    /\ way = "direct" => hashes = <<>> /\ answers = <<>> /\ CameOf("normal", <<>>)
    /\ way = "compiled" => answers \in Answers /\ CameOf("external", answers)

LEMMA OutcomeCame ==
    ASSUME NEW mode, NEW given, Outcome(SignAll(mode, given))
    PROVE  /\ UNCHANGED <<input, plan, request, hashes>>
           /\ error' = SignAll(mode, given).error
           /\ error' = "ok" => /\ stage' = "signed" /\ tx' = Build(input, plan)
                               /\ signed' = SignAll(mode, given).inputs
           /\ error' # "ok" => stage' = "failed"
BY DEF Outcome

LEMMA SignerInvStep ==
    ASSUME SignerInv, [SignerNext]_<<vars, signing>>
    PROVE  SignerInv'
<1> USE DEF SignerInv
<1>1. CASE MakePlan
  <2>1. stage = "asked" /\ stage' = "planned" /\ way = "open"
    BY <1>1 DEF MakePlan, Plan, CameOf
  <2>2. plan'.error \in PlanErrors
    <3>1. \/ \E e \in PlanErrors : plan' = Failed(e)
          \/ \E utxos, fee : plan' = Settle(input, utxos, fee)
      BY <1>1 DEF MakePlan, Plan, PlanErrors
    <3>2. \A e \in PlanErrors : Failed(e).error \in PlanErrors
      BY DEF Failed
    <3>3. \A utxos, fee : Settle(input, utxos, fee).error = "ok"
      BY DEF Settle
    <3> QED
      BY <3>1, <3>2, <3>3 DEF PlanErrors
  <2>3. request'.scripts \in [1..Len(plan'.utxos) -> Scripts]
    BY <1>1 DEF MakePlan
  <2>4. UNCHANGED <<way, hashes, answers>>
    BY <1>1 DEF MakePlan
  <2> QED
    BY <2>1, <2>2, <2>3, <2>4
<1>2. CASE SignDirectly
  <2>1. stage = "planned" /\ way = "open" /\ way' = "direct" /\ answers' = answers
    BY <1>2 DEF SignDirectly
  <2>2. /\ UNCHANGED <<input, plan, request, hashes>>
        /\ error' = SignAll("normal", <<>>).error
        /\ error' = "ok" => /\ stage' = "signed" /\ tx' = Build(input, plan)
                            /\ signed' = SignAll("normal", <<>>).inputs
        /\ error' # "ok" => stage' = "failed"
    BY <1>2, OutcomeCame DEF SignDirectly
  <2>3. SignAll("normal", <<>>)' = SignAll("normal", <<>>) /\ Build(input, plan)' = Build(input, plan)
    BY <2>2, SignAllSame
  <2>4. CameOf("normal", <<>>)'
    BY <2>2, <2>3 DEF CameOf
  <2> QED
    BY <2>1, <2>2, <2>4
<1>3. CASE PreImageHashes
  <2>1. /\ stage = "planned" /\ way = "open" /\ way' = "collected"
        /\ hashes' = SignAll("collect", <<>>).hashes
        /\ UNCHANGED <<stage, input, plan, request, answers>>
    BY <1>3 DEF PreImageHashes, vars
  <2>2. SignAll("collect", <<>>)' = SignAll("collect", <<>>)
    BY <2>1, SignAllSame
  <2> QED
    BY <2>1, <2>2
<1>4. CASE Compile
  <2>1. /\ stage = "planned" /\ way = "collected" /\ way' = "compiled"
        /\ answers' \in Answers
    BY <1>4 DEF Compile
  <2>2. /\ UNCHANGED <<input, plan, request, hashes>>
        /\ error' = SignAll("external", answers').error
        /\ error' = "ok" => /\ stage' = "signed" /\ tx' = Build(input, plan)
                            /\ signed' = SignAll("external", answers').inputs
        /\ error' # "ok" => stage' = "failed"
    BY <1>4, OutcomeCame DEF Compile
  <2>3. \A mode, given : SignAll(mode, given)' = SignAll(mode, given)
    BY <2>2, SignAllSame
  <2>4. CameOf("external", answers)'
    BY <2>2, <2>3 DEF CameOf
  <2>5. Answers' = Answers
    BY <2>2 DEF Answers
  <2> QED
    BY <2>1, <2>2, <2>3, <2>4, <2>5
<1>5. CASE UNCHANGED <<vars, signing>>
  <2>1. UNCHANGED <<stage, input, plan, tx, request, way, hashes, answers, error, signed>>
    BY <1>5 DEF vars, signing
  <2>2. \A mode, given : SignAll(mode, given)' = SignAll(mode, given)
    BY <2>1, SignAllSame
  <2>3. Answers' = Answers
    BY <2>1 DEF Answers
  <2> QED
    BY <2>1, <2>2, <2>3 DEF CameOf
<1> QED
  BY <1>1, <1>2, <1>3, <1>4, <1>5 DEF SignerNext

LEMMA SignerInvCorrect == SignerSpec => []SignerInv
<1>1. SignerInit => SignerInv
  BY DEF SignerInit, Init, Failed, SignerInv, PlanErrors
<1> QED
  BY <1>1, SignerInvStep, PTL DEF SignerSpec

-------------------------------------------------------------------------------
(* What the results of a transaction have in common, whatever the mode. *)
Ready ==
    plan.utxos \in Seq(Nat) /\ request.scripts \in [1..Len(plan.utxos) -> Scripts]

LEMMA ReadyScripts ==
    ASSUME Ready
    PROVE  /\ Len(plan.utxos) \in Nat
           /\ \A i \in 1..Len(plan.utxos) :
                 /\ MatchMultisig(Core(request.scripts[i]))
                 /\ IsList(Asked(request.scripts[i], i))
                 /\ Len(Asked(request.scripts[i], i)) \in Nat
<1>1. Len(plan.utxos) \in Nat
  BY DEF Ready
<1>2. \A i \in 1..Len(plan.utxos) : MatchMultisig(Core(request.scripts[i]))
  BY SignerAssumption DEF Ready
<1> QED
  BY <1>1, <1>2, AskedList

LEMMA SignAllIs ==
    ASSUME NEW mode, NEW given
    PROVE  /\ plan.error # "ok" =>
                SignAll(mode, given) = [error |-> plan.error, hashes |-> <<>>, inputs |-> <<>>]
           /\ plan.error = "ok" /\ ~Buildable(input, PlanOf(mode).change) =>
                SignAll(mode, given) =
                    [error |-> "missing_input_utxos", hashes |-> <<>>, inputs |-> <<>>]
           /\ plan.error = "ok" /\ Buildable(input, PlanOf(mode).change) =>
                SignAll(mode, given) = SignUpTo(mode, given)[Len(plan.utxos)]
BY DEF SignAll

(* A transaction without error had none on the way, and a result for each   *)
(* of its inputs.                                                           *)
LEMMA ResultLists ==
    ASSUME Ready, NEW mode, NEW given, NEW f, Results(mode, given, Len(plan.utxos), f)
    PROVE  \A i \in 0..Len(plan.utxos) :
              /\ IsList(f[i].hashes) /\ IsList(f[i].inputs)
              /\ f[i].error = "ok" => /\ Len(f[i].inputs) = i
                                      /\ \A k \in 0..i : f[k].error = "ok"
<1> DEFINE n == Len(plan.utxos)
           P(i) == /\ IsList(f[i].hashes) /\ IsList(f[i].inputs)
                   /\ f[i].error = "ok" => /\ Len(f[i].inputs) = i
                                           /\ \A k \in 0..i : f[k].error = "ok"
           G == {i \in 0..n : P(i)}
<1>n. n \in Nat
  BY ReadyScripts
<1>1. 0 \in G
  BY <1>n, ShortLists DEF Results
<1>2. ASSUME NEW i \in 1..n, i - 1 \in G
      PROVE  i \in G
  <2> DEFINE d == f[i - 1]
             r == f[i]
             asked == Asked(request.scripts[i], i)
  <2>1. P(i - 1)
    BY <1>2
  <2>2. Follows(mode, given, d, i, r)
    BY DEF Results
  <2>3. IsList(d.hashes \o asked)
    BY <2>1, ReadyScripts, ConcatList
  <2>4. \A e : IsList(Append(d.inputs, e)) /\ Len(Append(d.inputs, e)) = Len(d.inputs) + 1
    BY <2>1, AppendList
  <2>5. IsList(r.hashes) /\ IsList(r.inputs)
    BY <2>1, <2>2, <2>3, <2>4 DEF Follows
  <2>6. r.error = "ok" => d.error = "ok" /\ Len(r.inputs) = Len(d.inputs) + 1
    BY <2>2, <2>4 DEF Follows
  <2>7. ASSUME r.error = "ok"
        PROVE  Len(r.inputs) = i /\ \A k \in 0..i : f[k].error = "ok"
    <3>1. Len(d.inputs) = i - 1 /\ \A k \in 0..(i - 1) : f[k].error = "ok"
      BY <2>1, <2>6, <2>7
    <3>2. \A k \in 0..i : k = i \/ k \in 0..(i - 1)
      BY <1>n
    <3> QED
      BY <1>n, <2>6, <2>7, <3>1, <3>2
  <2>8. P(i)
    BY <2>5, <2>7
  <2> HIDE DEF P
  <2> QED
    BY <1>n, <2>8
<1>3. G = 0..n
  <2>1. G \subseteq 0..n
    OBVIOUS
  <2> HIDE DEF G
  <2> QED
    BY <1>n, <1>1, <1>2, <2>1, UpTo
<1> QED
  BY <1>3

(* The hashes of the first inputs are the first hashes. *)
LEMMA HashesGrow ==
    ASSUME Ready, NEW mode, NEW given, NEW f, Results(mode, given, Len(plan.utxos), f),
           NEW k \in 0..Len(plan.utxos)
    PROVE  \A i \in 0..k :
              /\ Len(f[i].hashes) \in Nat /\ Len(f[i].hashes) <= Len(f[k].hashes)
              /\ \A j \in 1..Len(f[i].hashes) : f[k].hashes[j] = f[i].hashes[j]
<1> DEFINE n == Len(plan.utxos)
           P(m) == \A i \in 0..m :
                      /\ Len(f[i].hashes) \in Nat /\ Len(f[i].hashes) <= Len(f[m].hashes)
                      /\ \A j \in 1..Len(f[i].hashes) : f[m].hashes[j] = f[i].hashes[j]
           G == {m \in 0..n : P(m)}
<1>n. n \in Nat
  BY ReadyScripts
<1>l. \A i \in 0..n : IsList(f[i].hashes) /\ Len(f[i].hashes) \in Nat
  BY ResultLists, ConcatList
<1>1. 0 \in G
  <2>1. \A i \in 0..0 : i = 0
    OBVIOUS
  <2> QED
    BY <1>n, <1>l, <2>1
<1>2. ASSUME NEW m \in 1..n, m - 1 \in G
      PROVE  m \in G
  <2> DEFINE d == f[m - 1].hashes
             r == f[m].hashes
             asked == Asked(request.scripts[m], m)
  <2>1. P(m - 1)
    BY <1>2
  <2>2. r = d \/ r = d \o asked
    BY DEF Results, Follows
  <2>3. IsList(d) /\ IsList(asked)
    BY <1>n, <1>l, ReadyScripts, SMTT(30)
  <2>4. Len(d) \in Nat /\ Len(d) <= Len(r) /\ Len(r) \in Nat /\ \A j \in 1..Len(d) : r[j] = d[j]
    <3>1. CASE r = d
      BY <1>n, <1>l, <3>1
    <3>2. CASE r = d \o asked
      <4>1. /\ Len(d) \in Nat /\ Len(asked) \in Nat /\ Len(d \o asked) = Len(d) + Len(asked)
            /\ \A j \in 1..Len(d) : (d \o asked)[j] = d[j]
        BY <2>3, ConcatList
      <4> HIDE DEF d, r, asked
      <4> QED
        BY <3>2, <4>1
    <3> QED
      BY <2>2, <3>1, <3>2
  <2>5. ASSUME NEW i \in 0..m
        PROVE  /\ Len(f[i].hashes) \in Nat /\ Len(f[i].hashes) <= Len(r)
               /\ \A j \in 1..Len(f[i].hashes) : r[j] = f[i].hashes[j]
    <3>1. CASE i = m
      BY <2>4, <3>1
    <3>2. CASE i # m
      <4>1. i \in 0..(m - 1)
        BY <1>n, <3>2
      <4>2. /\ Len(f[i].hashes) \in Nat /\ Len(f[i].hashes) <= Len(d)
            /\ \A j \in 1..Len(f[i].hashes) : d[j] = f[i].hashes[j]
        BY <2>1, <4>1
      <4> HIDE DEF d, r
      <4> QED
        BY <2>4, <4>2
    <3> QED
      BY <3>1, <3>2
  <2>6. P(m)
    BY <2>5
  <2> HIDE DEF P
  <2> QED
    BY <1>n, <2>6
<1>3. G = 0..n
  <2>1. G \subseteq 0..n
    OBVIOUS
  <2> HIDE DEF G
  <2> QED
    BY <1>n, <1>1, <1>2, <2>1, UpTo
<1> QED
  BY <1>3

(* Compiling finds the hashes that were collected, as far as both get. *)
LEMMA HashesAlike ==
    ASSUME Ready,
           NEW g1, NEW f1, Results("collect", g1, Len(plan.utxos), f1),
           NEW g2, NEW f2, Results("external", g2, Len(plan.utxos), f2)
    PROVE  \A i \in 0..Len(plan.utxos) :
              f1[i].error = "ok" /\ f2[i].error = "ok" => f1[i].hashes = f2[i].hashes
<1> DEFINE n == Len(plan.utxos)
           P(i) == f1[i].error = "ok" /\ f2[i].error = "ok" => f1[i].hashes = f2[i].hashes
           G == {i \in 0..n : P(i)}
<1>n. n \in Nat
  BY ReadyScripts
<1>1. 0 \in G
  BY <1>n DEF Results
<1>2. ASSUME NEW i \in 1..n, i - 1 \in G
      PROVE  i \in G
  <2>1. P(i - 1)
    BY <1>2
  <2>2. Follows("collect", g1, f1[i - 1], i, f1[i]) /\ Follows("external", g2, f2[i - 1], i, f2[i])
    BY DEF Results
  <2>3. P(i)
    BY <2>1, <2>2, LeftAlike DEF Follows
  <2> QED
    BY <1>n, <2>3
<1>3. G = 0..n
  <2>1. G \subseteq 0..n
    OBVIOUS
  <2> HIDE DEF G
  <2> QED
    BY <1>n, <1>1, <1>2, <2>1, UpTo
<1> QED
  BY <1>3

(* Collecting fails only where compiling does. *)
LEMMA LenientCollect ==
    ASSUME Ready,
           NEW g1, NEW f1, Results("external", g1, Len(plan.utxos), f1),
           NEW g2, NEW f2, Results("collect", g2, Len(plan.utxos), f2)
    PROVE  \A i \in 0..Len(plan.utxos) : f1[i].error = "ok" => f2[i].error = "ok"
<1> DEFINE n == Len(plan.utxos)
           P(i) == f1[i].error = "ok" => f2[i].error = "ok"
           G == {i \in 0..n : P(i)}
<1>n. n \in Nat
  BY ReadyScripts
<1>1. 0 \in G
  BY <1>n DEF Results
<1>2. ASSUME NEW i \in 1..n, i - 1 \in G
      PROVE  i \in G
  <2>1. P(i - 1)
    BY <1>2
  <2>2. Follows("external", g1, f1[i - 1], i, f1[i]) /\ Follows("collect", g2, f2[i - 1], i, f2[i])
    BY DEF Results
  <2>3. Failure("external", g1, f1[i - 1], i) = "ok" => Failure("collect", g2, f2[i - 1], i) = "ok"
    BY DEF Failure, SigningError
  <2>4. P(i)
    BY <2>1, <2>2, <2>3, LeftAlike DEF Follows
  <2> QED
    BY <1>n, <2>4
<1>3. G = 0..n
  <2>1. G \subseteq 0..n
    OBVIOUS
  <2> HIDE DEF G
  <2> QED
    BY <1>n, <1>1, <1>2, <2>1, UpTo
<1> QED
  BY <1>3

(* An input's hashes stand behind those of the inputs before it. *)
LEMMA AskedInPlace ==
    ASSUME Ready, NEW mode, NEW given, NEW f, Results(mode, given, Len(plan.utxos), f),
           NEW i \in 1..Len(plan.utxos), f[i].error = "ok", ~LeftUnsigned(mode, i)
    PROVE  LET asked == Asked(request.scripts[i], i)
               first == Len(f[i - 1].hashes)
               all == f[Len(plan.utxos)].hashes
           IN  /\ first \in Nat /\ Len(asked) \in Nat /\ Len(all) \in Nat
               /\ \A j \in 1..Len(asked) :
                     first + j \in 1..Len(all) /\ all[first + j] = asked[j]
<1> DEFINE n == Len(plan.utxos)
           asked == Asked(request.scripts[i], i)
           d == f[i - 1].hashes
           r == f[i].hashes
           all == f[n].hashes
<1>n. n \in Nat /\ n \in 0..n /\ i \in 0..n /\ i - 1 \in 0..n
  BY ReadyScripts
<1>1. r = d \o asked
  <2>1. Follows(mode, given, f[i - 1], i, f[i])
    BY DEF Results
  <2>2. f[i - 1].error = "ok" => Failure(mode, given, f[i - 1], i) = "ok"
    BY <2>1 DEF Follows
  <2> QED
    BY <2>1, <2>2 DEF Follows
<1>2. IsList(d) /\ IsList(asked)
  BY <1>n, ReadyScripts, ResultLists
<1>3. Len(all) \in Nat /\ Len(r) <= Len(all) /\ \A j \in 1..Len(r) : all[j] = r[j]
  <2>1. \A m \in 0..n :
           /\ Len(f[m].hashes) \in Nat /\ Len(f[m].hashes) <= Len(f[n].hashes)
           /\ \A j \in 1..Len(f[m].hashes) : f[n].hashes[j] = f[m].hashes[j]
    <3>1. n \in 0..n
      BY <1>n
    <3> HIDE DEF n
    <3> QED
      BY <3>1, HashesGrow DEF n
  <2> QED
    BY <1>n, <2>1
<1>4. /\ Len(d) \in Nat /\ Len(asked) \in Nat /\ Len(r) = Len(d) + Len(asked)
      /\ \A j \in 1..Len(asked) : r[Len(d) + j] = asked[j]
  <2> HIDE DEF d, r, asked
  <2>1. /\ Len(d) \in Nat /\ Len(asked) \in Nat /\ Len(d \o asked) = Len(d) + Len(asked)
        /\ \A j \in 1..Len(asked) : (d \o asked)[Len(d) + j] = asked[j]
    BY <1>2, ConcatList
  <2> QED
    BY <1>1, <2>1
<1>5. ASSUME NEW j \in 1..Len(asked)
      PROVE  Len(d) + j \in 1..Len(all) /\ all[Len(d) + j] = asked[j]
  <2> HIDE DEF d, r, all, asked
  <2>1. Len(d) + j \in 1..Len(r)
    BY <1>4, <1>5
  <2> QED
    BY <1>3, <1>4, <2>1
<1> QED
  BY <1>3, <1>4, <1>5

(* As far as compiling gets, each hash has a signature of its own.          *)
LEMMA AnsweredSoFar ==
    ASSUME Ready, NEW given, Len(given) \in Nat, NEW f,
           Results("external", given, Len(plan.utxos), f)
    PROVE  \A i \in 0..Len(plan.utxos) : f[i].error = "ok" =>
              /\ Len(f[i].hashes) <= Len(given)
              /\ \A j \in 1..Len(f[i].hashes) : given[j].hash = f[i].hashes[j].hash
<1> DEFINE n == Len(plan.utxos)
           P(i) == f[i].error = "ok" =>
                      /\ Len(f[i].hashes) <= Len(given)
                      /\ \A j \in 1..Len(f[i].hashes) : given[j].hash = f[i].hashes[j].hash
           G == {i \in 0..n : P(i)}
<1>n. n \in Nat
  BY ReadyScripts
<1>1. 0 \in G
  <2>1. f[0].hashes = <<>>
    BY DEF Results
  <2> QED
    BY <1>n, <2>1, ShortLists
<1>2. ASSUME NEW i \in 1..n, i - 1 \in G
      PROVE  i \in G
  <2> DEFINE d == f[i - 1].hashes
             r == f[i].hashes
             asked == Asked(request.scripts[i], i)
  <2>1. P(i - 1)
    BY <1>2
  <2>2. Follows("external", given, f[i - 1], i, f[i])
    BY DEF Results
  <2>3. IsList(d) /\ IsList(asked)
    BY <1>n, ReadyScripts, ResultLists
  <2>4. ASSUME f[i - 1].error = "ok", Failure("external", given, f[i - 1], i) = "ok",
               r = d \o asked
        PROVE  /\ Len(r) <= Len(given)
               /\ \A j \in 1..Len(r) : given[j].hash = r[j].hash
    <3>1. /\ Len(d) \in Nat /\ Len(asked) \in Nat /\ Len(r) = Len(d) + Len(asked)
          /\ \A j \in 1..Len(d) : r[j] = d[j]
          /\ \A j \in 1..Len(asked) : r[Len(d) + j] = asked[j]
      <4>1. r = d \o asked
        BY <2>4
      <4> HIDE DEF d, r, asked
      <4>2. /\ Len(d) \in Nat /\ Len(asked) \in Nat /\ Len(d \o asked) = Len(d) + Len(asked)
            /\ \A j \in 1..Len(d) : (d \o asked)[j] = d[j]
            /\ \A j \in 1..Len(asked) : (d \o asked)[Len(d) + j] = asked[j]
        BY <2>3, ConcatList
      <4> QED
        BY <4>1, <4>2
    <3>2. SigningError("external", given, asked, Len(d)) = "ok"
      <4>1. ScriptError(request.scripts[i]) = "ok"
        BY <2>4 DEF Failure
      <4> QED
        BY <2>4, <4>1 DEF Failure, First
    <3>3. ~\E j \in 1..Len(asked) :
              Len(d) + j > Len(given) \/ given[Len(d) + j].hash # asked[j].hash
      BY <3>2 DEF SigningError
    <3>4. Len(d) <= Len(given) /\ \A j \in 1..Len(d) : given[j].hash = d[j].hash
      BY <2>1, <2>4
    <3> HIDE DEF d, r, asked
    <3>5. Len(r) <= Len(given)
      <4>1. CASE Len(asked) = 0
        BY <3>1, <3>4, <4>1
      <4>2. CASE Len(asked) # 0
        <5>1. Len(asked) \in 1..Len(asked)
          BY <3>1, <4>2
        <5> QED
          BY <3>1, <3>3, <5>1
      <4> QED
        BY <4>1, <4>2
    <3>6. ASSUME NEW j \in 1..Len(r)
          PROVE  given[j].hash = r[j].hash
      <4>1. CASE j <= Len(d)
        BY <3>1, <3>4, <4>1
      <4>2. CASE ~(j <= Len(d))
        <5>1. j - Len(d) \in 1..Len(asked) /\ Len(d) + (j - Len(d)) = j
          BY <3>1, <4>2
        <5>2. given[Len(d) + (j - Len(d))].hash = asked[j - Len(d)].hash
          BY <3>3, <5>1
        <5>3. r[Len(d) + (j - Len(d))] = asked[j - Len(d)]
          BY <3>1, <5>1
        <5> QED
          BY <5>1, <5>2, <5>3
      <4> QED
        BY <4>1, <4>2
    <3> QED
      BY <3>5, <3>6
  <2>5. P(i)
    BY <2>1, <2>2, <2>4 DEF Follows
  <2> HIDE DEF P
  <2> QED
    BY <1>n, <2>5
<1>3. G = 0..n
  <2>1. G \subseteq 0..n
    OBVIOUS
  <2> HIDE DEF G
  <2> QED
    BY <1>n, <1>1, <1>2, <2>1, UpTo
<1> QED
  BY <1>3

(* With a signature of each hash in order compiling gets exactly as far as  *)
(* collecting did.                                                          *)
LEMMA CompiledAsCollected ==
    ASSUME Ready,
           NEW c, Results("collect", <<>>, Len(plan.utxos), c),
           NEW f, Results("external", c[Len(plan.utxos)].hashes, Len(plan.utxos), f)
    PROVE  \A i \in 0..Len(plan.utxos) :
              /\ f[i].error = c[i].error /\ f[i].hashes = c[i].hashes
              /\ f[i].error \notin {"signing", "missing_private_key"}
<1> DEFINE n == Len(plan.utxos)
           all == c[n].hashes
           P(i) == /\ f[i].error = c[i].error /\ f[i].hashes = c[i].hashes
                   /\ f[i].error \notin {"signing", "missing_private_key"}
           G == {i \in 0..n : P(i)}
<1>n. n \in Nat
  BY ReadyScripts
<1>1. 0 \in G
  BY <1>n DEF Results
<1>2. ASSUME NEW i \in 1..n, i - 1 \in G
      PROVE  i \in G
  <2> DEFINE asked == Asked(request.scripts[i], i)
             d == c[i - 1]
  <2>1. P(i - 1)
    BY <1>2
  <2>2. Follows("external", all, f[i - 1], i, f[i])
    BY DEF Results
  <2>3. Follows("collect", <<>>, c[i - 1], i, c[i])
    BY DEF Results
  <2>4. First(f[i - 1], i) = Len(d.hashes)
    BY <2>1 DEF First
  <2>5. SigningError("collect", <<>>, asked, First(c[i - 1], i)) = "ok"
    BY DEF SigningError
  <2>6. Failure("collect", <<>>, c[i - 1], i) = ScriptError(request.scripts[i])
    BY <2>5 DEF Failure
  <2>7. ScriptError(request.scripts[i]) \in {"ok", "script_output", "script_redeem"}
    BY DEF ScriptError
  <2>8. ASSUME ScriptError(request.scripts[i]) = "ok", ~LeftUnsigned("collect", i), d.error = "ok"
        PROVE  SigningError("external", all, asked, Len(d.hashes)) = "ok"
    <3>1. c[i].error = "ok"
      BY <2>3, <2>6, <2>8 DEF Follows
    <3>2. /\ Len(d.hashes) \in Nat /\ Len(asked) \in Nat /\ Len(all) \in Nat
          /\ \A j \in 1..Len(asked) :
                Len(d.hashes) + j \in 1..Len(all) /\ all[Len(d.hashes) + j] = asked[j]
      BY <2>8, <3>1, AskedInPlace, SMTT(60)
    <3> HIDE DEF d, all, asked
    <3>3. ~\E j \in 1..Len(asked) :
              Len(d.hashes) + j > Len(all) \/ all[Len(d.hashes) + j].hash # asked[j].hash
      BY <3>2
    <3> QED
      BY <3>3 DEF SigningError
  <2>9. ~LeftUnsigned("collect", i) /\ d.error = "ok" =>
           Failure("external", all, f[i - 1], i) = Failure("collect", <<>>, c[i - 1], i)
    BY <2>4, <2>6, <2>8 DEF Failure
  <2>u. LeftUnsigned("external", i) <=> LeftUnsigned("collect", i)
    BY LeftAlike
  <2>10. P(i)
    <3>1. CASE d.error # "ok"
      BY <2>1, <2>2, <2>3, <3>1 DEF Follows
    <3>2. CASE d.error = "ok" /\ LeftUnsigned("collect", i)
      BY <2>1, <2>2, <2>3, <2>u, <3>2 DEF Follows
    <3>3. CASE d.error = "ok" /\ ~LeftUnsigned("collect", i) /\ ScriptError(request.scripts[i]) # "ok"
      BY <2>1, <2>2, <2>3, <2>6, <2>7, <2>9, <2>u, <3>3 DEF Follows
    <3>4. CASE d.error = "ok" /\ ~LeftUnsigned("collect", i) /\ ScriptError(request.scripts[i]) = "ok"
      BY <2>1, <2>2, <2>3, <2>6, <2>9, <2>u, <3>4 DEF Follows
    <3> QED
      BY <3>1, <3>2, <3>3, <3>4
  <2> HIDE DEF P
  <2> QED
    BY <1>n, <2>10
<1>3. G = 0..n
  <2>1. G \subseteq 0..n
    OBVIOUS
  <2> HIDE DEF G
  <2> QED
    BY <1>n, <1>1, <1>2, <2>1, UpTo
<1> QED
  BY <1>3

-------------------------------------------------------------------------------
(* What an input is given to unlock the output it spends. *)
LEMMA ListEnds ==
    ASSUME NEW s, NEW e, IsList(s)
    PROVE  /\ s \o <<>> = s
           /\ s \o <<e>> # <<>> /\ Last(s \o <<e>>) = e /\ Front(s \o <<e>>) = s
<1>1. PICK S : s \in Seq(S)
  BY DEF IsList
<1>2. s \in Seq(S \cup {e}) /\ <<e>> \in Seq(S \cup {e}) /\ <<>> \in Seq(S \cup {e})
  BY <1>1
<1>3. s \o <<>> = s
  BY <1>2
<1>4. s \o <<e>> = Append(s, e)
  BY <1>2
<1>5. Append(s, e) # <<>> /\ Append(s, e) \in Seq(S \cup {e}) /\ Len(Append(s, e)) = Len(s) + 1
      /\ Len(s) \in Nat
  BY <1>2
<1>6. Last(Append(s, e)) = e
  BY <1>2 DEF Last
<1>7. Front(Append(s, e)) = s
  <2>1. Front(Append(s, e)) = SubSeq(Append(s, e), 1, Len(s))
    BY <1>5 DEF Front
  <2>2. /\ SubSeq(Append(s, e), 1, Len(s)) \in Seq(S \cup {e})
        /\ Len(SubSeq(Append(s, e), 1, Len(s))) = Len(s)
        /\ \A i \in 1..Len(s) : SubSeq(Append(s, e), 1, Len(s))[i] = s[i]
    BY <1>2, <1>5
  <2> QED
    BY <1>2, <2>1, <2>2, SeqEqual
<1> QED
  BY <1>3, <1>4, <1>5, <1>6, <1>7

LEMMA FrontAdded ==
    ASSUME NEW s, NEW e, IsList(s)
    PROVE  /\ IsList(<<e>> \o s) /\ Len(s) \in Nat /\ Len(<<e>> \o s) = 1 + Len(s)
           /\ (<<e>> \o s)[1] = e
           /\ \A j \in 1..Len(s) : (<<e>> \o s)[1 + j] = s[j]
<1> DEFINE t == <<e>>
<1>1. IsList(t) /\ Len(t) = 1 /\ t[1] = e
  BY ShortLists
<1> HIDE DEF t
<1> DEFINE u == t \o s
<1>2. /\ IsList(u) /\ Len(t) \in Nat /\ Len(s) \in Nat /\ Len(u) = Len(t) + Len(s)
      /\ \A i \in 1..Len(t) : u[i] = t[i]
      /\ \A i \in 1..Len(s) : u[Len(t) + i] = s[i]
  <2>1. IsList(t) /\ IsList(s)
    BY <1>1
  <2> QED
    BY <2>1, ConcatList
<1> HIDE DEF u
<1>3. u[1] = e
  BY <1>1, <1>2
<1> QED
  BY <1>1, <1>2, <1>3 DEF t, u

Items(core, mode, given, signatures, first) ==
    CASE core.kind = "multi" -> <<Empty>> \o signatures
      [] core.kind = "pkh" -> Append(signatures, KeyItem(mode, given, core.key, first))
      [] core.kind = "pk" -> signatures

RedeemPush(script) == IF script.kind = "sh" THEN <<Bytes(script.of)>> ELSE <<>>

WitnessPush(script) == IF Redeemed(script).kind = "wsh" THEN <<Bytes(Core(script))>> ELSE <<>>

LEMMA SpendingIs ==
    ASSUME NEW script, NEW mode, NEW given, NEW signatures, NEW first
    PROVE  LET items == Items(Core(script), mode, given, signatures, first)
           IN  Spending(script, mode, given, signatures, first) =
                  IF InWitness(script)
                  THEN [script |-> RedeemPush(script), witness |-> items \o WitnessPush(script)]
                  ELSE [script |-> items \o RedeemPush(script) \o RedeemPush(script),
                        witness |-> <<>>]
BY Zenon DEF Spending, Items, RedeemPush, WitnessPush

LEMMA SignableKinds ==
    ASSUME NEW script, ScriptError(script) = "ok"
    PROVE  Core(script).kind \in {"pk", "pkh", "multi"}
BY DEF ScriptError

LEMMA ItemsList ==
    ASSUME NEW core, core.kind \in {"pk", "pkh", "multi"}, NEW mode, NEW given,
           NEW signatures, IsList(signatures), NEW first
    PROVE  LET items == Items(core, mode, given, signatures, first)
           IN  /\ IsList(items) /\ Len(signatures) \in Nat
               /\ core.kind = "pk" => items = signatures
               /\ core.kind = "pkh" =>
                     /\ Len(items) = Len(signatures) + 1
                     /\ \A j \in 1..Len(signatures) : items[j] = signatures[j]
                     /\ items[Len(signatures) + 1] = KeyItem(mode, given, core.key, first)
               /\ core.kind = "multi" =>
                     /\ Len(items) = 1 + Len(signatures) /\ items[1] = Empty
                     /\ \A j \in 1..Len(signatures) : items[1 + j] = signatures[j]
<1> DEFINE items == Items(core, mode, given, signatures, first)
<1>n. Len(signatures) \in Nat
  BY ConcatList
<1>1. CASE core.kind = "pk"
  <2>1. items = signatures
    BY <1>1 DEF Items
  <2> QED
    BY <1>n, <1>1, <2>1
<1>2. CASE core.kind = "pkh"
  <2>1. items = Append(signatures, KeyItem(mode, given, core.key, first))
    BY <1>2 DEF Items
  <2> QED
    BY <1>n, <1>2, <2>1, AppendList
<1>3. CASE core.kind = "multi"
  <2> DEFINE whole == <<Empty>> \o signatures
  <2>1. items = whole
    BY <1>3 DEF Items
  <2>2. /\ IsList(whole) /\ Len(whole) = 1 + Len(signatures) /\ whole[1] = Empty
        /\ \A j \in 1..Len(signatures) : whole[1 + j] = signatures[j]
    BY FrontAdded
  <2> HIDE DEF whole, items
  <2> QED
    BY <1>n, <1>3, <2>1, <2>2 DEF items
<1> QED
  BY <1>1, <1>2, <1>3

(* A signature that is right for each hash makes the items that satisfy the *)
(* script it is for, and so the script of the output.                       *)
RightSignatures(signatures, script, i) ==
    /\ IsList(signatures) /\ Len(signatures) = Len(Asked(script, i))
    /\ \A j \in 1..Len(signatures) : signatures[j] = Signature(Asked(script, i)[j])

LEMMA ItemsSatisfy ==
    ASSUME NEW script, NEW i, NEW mode, NEW given, NEW signatures, NEW first,
           MatchMultisig(Core(script)), Core(script).kind \in {"pk", "pkh", "multi"},
           RightSignatures(signatures, script, i),
           Core(script).kind = "pkh" =>
               KeyItem(mode, given, Core(script).key, first) = PublicKey(Core(script).key)
    PROVE  LET items == Items(Core(script), mode, given, signatures, first)
           IN  /\ Satisfies(items, Core(script), i, Version(script))
               /\ Core(script).kind = "pkh" => Len(items) = 2
<1> DEFINE core == Core(script)
           items == Items(core, mode, given, signatures, first)
           version == Version(script)
           By(key) == Signature([key |-> key,
                                 hash |-> [script |-> core, input |-> i, version |-> version]])
           n == Len(signatures)
<1>1. /\ n \in Nat /\ n = Len(Signers(core))
      /\ \A j \in 1..n : signatures[j] = By(Signers(core)[j])
  BY AskedList, ConcatList DEF RightSignatures
<1>2. core.kind = "multi" =>
          /\ n = core.required /\ core.required \in Nat
          /\ Len(core.keys) \in Nat /\ core.required <= Len(core.keys)
          /\ \A j \in 1..core.required : Signers(core)[j] = core.keys[j]
  BY <1>1, SignersList
<1>3. core.kind # "multi" => n = 1 /\ Signers(core)[1] = core.key
  BY <1>1, SignersList
<1>4. /\ core.kind = "pk" => items = signatures
      /\ core.kind = "pkh" =>
            /\ Len(items) = n + 1
            /\ \A j \in 1..n : items[j] = signatures[j]
            /\ items[n + 1] = KeyItem(mode, given, core.key, first)
      /\ core.kind = "multi" =>
            /\ Len(items) = 1 + n /\ items[1] = Empty
            /\ \A j \in 1..n : items[1 + j] = signatures[j]
  BY ItemsList DEF RightSignatures
<1>5. CASE core.kind = "pk"
  <2>1. Len(items) = 1 /\ items[1] = By(core.key)
    BY <1>1, <1>3, <1>4, <1>5
  <2>2. Len(items) >= 1 /\ items[Len(items)] = By(core.key)
    BY <2>1
  <2> HIDE DEF items, n
  <2>3. Satisfies(items, core, i, version)
    BY <1>5, <2>2 DEF Satisfies
  <2> QED
    BY <1>5, <2>3 DEF items
<1>6. CASE core.kind = "pkh"
  <2>1. /\ Len(items) = 2 /\ items[1] = By(core.key)
        /\ items[2] = PublicKey(core.key)
    <3>1. n = 1 /\ Signers(core)[1] = core.key
      BY <1>3, <1>6
    <3> HIDE DEF items, n, By
    <3>2. n + 1 = 2 /\ 1 \in 1..n
      BY <3>1
    <3>3. Len(items) = 2 /\ items[1] = signatures[1] /\ items[2] = PublicKey(core.key)
      BY <1>4, <1>6, <3>2
    <3>4. signatures[1] = By(Signers(core)[1])
      BY <1>1, <3>2
    <3> QED
      BY <3>1, <3>3, <3>4
  <2>2. /\ Len(items) >= 2 /\ items[Len(items)] = PublicKey(core.key)
        /\ items[Len(items) - 1] = By(core.key)
    <3> HIDE DEF items
    <3> QED
      BY <2>1
  <2> HIDE DEF items, n
  <2>3. Satisfies(items, core, i, version)
    BY <1>6, <2>2 DEF Satisfies
  <2> QED
    BY <2>1, <2>3 DEF items
<1>7. CASE core.kind = "multi"
  <2> DEFINE m == core.required
             place == [j \in 1..m |-> j]
  <2>1. n = m /\ m \in Nat /\ m <= Len(core.keys) /\ Len(core.keys) \in Nat
    BY <1>2, <1>7
  <2>2. place \in [1..m -> 1..Len(core.keys)]
    BY <2>1
  <2>3. Len(items) > m /\ Len(items) - m = 1 /\ items[Len(items) - m] = Empty
    <3>1. Len(items) = 1 + m /\ items[1] = Empty
      BY <1>4, <1>7, <2>1
    <3> HIDE DEF items, m
    <3> QED
      BY <2>1, <3>1
  <2>4. ASSUME NEW j \in 1..m
        PROVE  items[Len(items) - m + j] = By(core.keys[place[j]])
    <3>1. items[1 + j] = signatures[j] /\ signatures[j] = By(Signers(core)[j])
      BY <1>1, <1>4, <1>7, <2>1
    <3>2. Signers(core)[j] = core.keys[j] /\ place[j] = j
      BY <1>2, <1>7
    <3> QED
      BY <2>3, <3>1, <3>2
  <2>5. \A j, k \in 1..m : j < k => place[j] < place[k]
    OBVIOUS
  <2> HIDE DEF items, n, place
  <2>6. Satisfies(items, core, i, version)
    BY <1>7, <2>2, <2>3, <2>4, <2>5 DEF Satisfies
  <2> QED
    BY <1>7, <2>6 DEF items
<1> QED
  BY <1>5, <1>6, <1>7

LEMMA SpendingUnlocks ==
    ASSUME NEW script, NEW i, NEW mode, NEW given, NEW signatures, NEW first,
           MatchMultisig(Core(script)), ScriptError(script) = "ok",
           RightSignatures(signatures, script, i),
           Core(script).kind = "pkh" =>
               KeyItem(mode, given, Core(script).key, first) = PublicKey(Core(script).key)
    PROVE  \/ Unlocks(Spending(script, mode, given, signatures, first), script, i)
           \/ LegacyRedeem(script)
<1> DEFINE core == Core(script)
           inner == Redeemed(script)
           items == Items(core, mode, given, signatures, first)
           in == Spending(script, mode, given, signatures, first)
<1>1. core.kind \in {"pk", "pkh", "multi"}
  BY SignableKinds
<1>2. IsList(items)
  BY <1>1, ItemsList DEF RightSignatures
<1>3. Satisfies(items, core, i, Version(script)) /\ (core.kind = "pkh" => Len(items) = 2)
  BY <1>1, ItemsSatisfy
<1>4. in = IF InWitness(script)
           THEN [script |-> RedeemPush(script), witness |-> items \o WitnessPush(script)]
           ELSE [script |-> items \o RedeemPush(script) \o RedeemPush(script), witness |-> <<>>]
  BY SpendingIs
<1>5. CASE InWitness(script)
  <2>1. Version(script) = "witness" /\ inner.kind \in {"wpkh", "wsh"}
    BY <1>5 DEF Version, InWitness
  <2>2. in.script = RedeemPush(script) /\ in.witness = items \o WitnessPush(script)
    BY <1>4, <1>5
  <2>3. WitnessSatisfies(in.witness, inner, i)
    <3>1. CASE inner.kind = "wpkh"
      <4>1. core = [kind |-> "pkh", key |-> inner.key]
        BY <3>1 DEF Core
      <4>2. in.witness = items
        BY <1>2, <2>2, <3>1, ListEnds DEF WitnessPush
      <4>3. Len(items) = 2 /\ Satisfies(items, core, i, "witness")
        BY <1>3, <2>1, <4>1
      <4> HIDE DEF items, in, inner, core
      <4> QED
        BY <3>1, <4>1, <4>2, <4>3 DEF WitnessSatisfies
    <3>2. CASE inner.kind = "wsh"
      <4>1. core = inner.of
        BY <3>2 DEF Core
      <4>2. in.witness = items \o <<Bytes(core)>>
        BY <2>2, <3>2 DEF WitnessPush
      <4>3. /\ in.witness # <<>> /\ Last(in.witness) = Bytes(inner.of)
            /\ Front(in.witness) = items
        BY <1>2, <4>1, <4>2, ListEnds
      <4> HIDE DEF items, in, inner, core
      <4> QED
        BY <1>3, <2>1, <3>2, <4>1, <4>3 DEF WitnessSatisfies
    <3> QED
      BY <2>1, <3>1, <3>2
  <2>4. CASE script.kind = "sh"
    <3>1. inner = script.of /\ in.script = <<Bytes(script.of)>>
      BY <2>2, <2>4 DEF Redeemed, RedeemPush
    <3> HIDE DEF in, inner
    <3>2. Unlocks(in, script, i)
      BY <2>1, <2>3, <2>4, <3>1 DEF Unlocks
    <3> QED
      BY <3>2 DEF in
  <2>5. CASE script.kind # "sh"
    <3>1. inner = script /\ in.script = <<>>
      BY <2>2, <2>5 DEF Redeemed, RedeemPush
    <3> HIDE DEF in, inner
    <3>2. Unlocks(in, script, i)
      BY <2>1, <2>3, <2>5, <3>1 DEF Unlocks
    <3> QED
      BY <3>2 DEF in
  <2> QED
    BY <2>4, <2>5
<1>6. CASE ~InWitness(script) /\ script.kind # "sh"
  <2>1. inner = script /\ RedeemPush(script) = <<>> /\ script.kind \notin {"wpkh", "wsh"}
    BY <1>6 DEF Redeemed, RedeemPush, InWitness
  <2>2. core = script
    BY <2>1 DEF Core
  <2>3. in.script = items /\ in.witness = <<>>
    <3>1. in.script = items \o <<>> \o <<>> /\ in.witness = <<>>
      BY <1>4, <1>6, <2>1
    <3> QED
      BY <1>2, <3>1, ListEnds
  <2>4. Version(script) = IF request.hashType = "fork" THEN "witness" ELSE "base"
    BY <1>6 DEF Version
  <2> HIDE DEF in, items, inner, core
  <2>5. Unlocks(in, script, i)
    BY <1>3, <1>6, <2>1, <2>2, <2>3, <2>4 DEF Unlocks
  <2> QED
    BY <2>5 DEF in
<1>7. CASE ~InWitness(script) /\ script.kind = "sh"
  BY <1>7 DEF LegacyRedeem
<1> QED
  BY <1>5, <1>6, <1>7

-------------------------------------------------------------------------------
(* What each input of a transaction signed without error is given. *)
LEMMA InputsAre ==
    ASSUME Ready, NEW mode, NEW given, NEW f, Results(mode, given, Len(plan.utxos), f),
           f[Len(plan.utxos)].error = "ok"
    PROVE  LET inputs == f[Len(plan.utxos)].inputs
           IN  /\ IsList(inputs) /\ Len(inputs) = Len(plan.utxos)
               /\ \A k \in 1..Len(plan.utxos) :
                     /\ LeftUnsigned(mode, k) => inputs[k] = Unsigned
                     /\ ~LeftUnsigned(mode, k) => /\ Failure(mode, given, f[k - 1], k) = "ok"
                                            /\ inputs[k] = Spent(mode, given, f[k - 1], k)
<1> DEFINE n == Len(plan.utxos)
           Given(k, in) == /\ LeftUnsigned(mode, k) => in = Unsigned
                           /\ ~LeftUnsigned(mode, k) => /\ Failure(mode, given, f[k - 1], k) = "ok"
                                                  /\ in = Spent(mode, given, f[k - 1], k)
           P(i) == \A k \in 1..i : Given(k, f[i].inputs[k])
           G == {i \in 0..n : P(i)}
<1>n. n \in Nat /\ n \in 0..n
  BY ReadyScripts
<1>o. \A i \in 0..n : f[i].error = "ok" /\ IsList(f[i].inputs) /\ Len(f[i].inputs) = i
  BY <1>n, ResultLists
<1>1. 0 \in G
  BY <1>n
<1>2. ASSUME NEW i \in 1..n, i - 1 \in G
      PROVE  i \in G
  <2> DEFINE d == f[i - 1].inputs
             r == f[i].inputs
  <2>1. i - 1 \in 0..n /\ i \in 0..n
    BY <1>n
  <2>2. PICK in : r = Append(d, in) /\ Given(i, in)
    <3>1. f[i - 1].error = "ok" /\ f[i].error = "ok" /\ Follows(mode, given, f[i - 1], i, f[i])
      BY <1>o, <2>1 DEF Results
    <3>2. CASE LeftUnsigned(mode, i)
      BY <3>1, <3>2 DEF Follows
    <3>3. CASE ~LeftUnsigned(mode, i)
      BY <3>1, <3>3 DEF Follows
    <3> QED
      BY <3>2, <3>3
  <2>3. IsList(d) /\ Len(d) = i - 1
    BY <1>o, <2>1
  <2>4. (\A k \in 1..(i - 1) : r[k] = d[k]) /\ r[i] = in
    <3> HIDE DEF d, r
    <3>1. Len(d) + 1 = i
      BY <1>n, <2>3
    <3>2. (\A k \in 1..Len(d) : Append(d, in)[k] = d[k]) /\ Append(d, in)[Len(d) + 1] = in
      BY <2>3, AppendList
    <3> QED
      BY <2>2, <2>3, <3>1, <3>2
  <2>5. ASSUME NEW k \in 1..i
        PROVE  Given(k, r[k])
    <3>1. CASE k = i
      BY <2>2, <2>4, <3>1
    <3>2. CASE k # i
      <4>1. k \in 1..(i - 1)
        BY <1>n, <3>2
      <4>2. Given(k, d[k]) /\ r[k] = d[k]
        BY <1>2, <2>4, <4>1
      <4> HIDE DEF Given, d, r
      <4> QED
        BY <4>2
    <3> QED
      BY <3>1, <3>2
  <2>6. P(i)
    BY <2>5
  <2> HIDE DEF P
  <2> QED
    BY <2>1, <2>6
<1>3. G = 0..n
  <2>1. G \subseteq 0..n
    OBVIOUS
  <2> HIDE DEF G
  <2> QED
    BY <1>n, <1>1, <1>2, <2>1, UpTo
<1> QED
  BY <1>n, <1>o, <1>3

LEMMA OneSigner ==
    ASSUME NEW script, NEW i, MatchMultisig(Core(script)), Core(script).kind = "pkh"
    PROVE  Len(Asked(script, i)) = 1 /\ Asked(script, i)[1].key = Core(script).key
<1>1. Core(script).kind # "multi"
  OBVIOUS
<1>2. Len(Signers(Core(script))) = 1 /\ Signers(Core(script))[1] = Core(script).key
  BY <1>1, SignersList
<1> DEFINE asked == Asked(script, i)
<1>3. Len(asked) = 1
  BY <1>2, AskedList
<1>4. \A j \in 1..Len(asked) :
         asked[j] = [key |-> Signers(Core(script))[j],
                     hash |-> [script |-> Core(script), input |-> i, version |-> Version(script)]]
  BY AskedList
<1> HIDE DEF asked
<1>5. asked[1].key = Signers(Core(script))[1]
  BY <1>3, <1>4
<1> QED
  BY <1>2, <1>3, <1>5 DEF asked

(* The keys of a request, or the answers to the hashes collected, make the  *)
(* right signatures and the right public key for an input.                  *)
LEMMA SignedByKeys ==
    ASSUME NEW script, NEW i, NEW given, NEW first, MatchMultisig(Core(script)),
           \A j \in 1..Len(Asked(script, i)) : Asked(script, i)[j].key \in request.keys
    PROVE  /\ RightSignatures(Signatures("normal", given, Asked(script, i), first), script, i)
           /\ Core(script).kind = "pkh" =>
                 \A mode, any : KeyItem(mode, any, Core(script).key, first)
                                    = PublicKey(Core(script).key)
<1> DEFINE asked == Asked(script, i)
<1>1. Len(asked) \in Nat
  BY AskedList
<1>2. RightSignatures(Signatures("normal", given, asked, first), script, i)
  <2> HIDE DEF asked
  <2>1. /\ IsList(Signatures("normal", given, asked, first))
        /\ Len(Signatures("normal", given, asked, first)) = Len(asked)
        /\ \A j \in 1..Len(asked) :
              Signatures("normal", given, asked, first)[j] = Signature(asked[j])
    BY <1>1, SignaturesList
  <2> QED
    BY <2>1 DEF RightSignatures, asked
<1>3. ASSUME Core(script).kind = "pkh"
      PROVE  Core(script).key \in request.keys
  <2>1. Len(asked) = 1 /\ asked[1].key = Core(script).key
    BY <1>3, OneSigner
  <2> QED
    BY <2>1
<1> QED
  BY <1>2, <1>3 DEF KeyItem

LEMMA SignedByAnswers ==
    ASSUME Ready, NEW given, NEW c, Results("collect", given, Len(plan.utxos), c),
           NEW i \in 1..Len(plan.utxos), c[i].error = "ok", ~LeftUnsigned("collect", i)
    PROVE  LET script == request.scripts[i]
               all == c[Len(plan.utxos)].hashes
               first == Len(c[i - 1].hashes)
           IN  /\ RightSignatures(Signatures("external", all, Asked(script, i), first), script, i)
               /\ Core(script).kind = "pkh" =>
                     KeyItem("external", all, Core(script).key, first) = PublicKey(Core(script).key)
<1> DEFINE script == request.scripts[i]
           asked == Asked(script, i)
           all == c[Len(plan.utxos)].hashes
           first == Len(c[i - 1].hashes)
<1>1. Len(asked) \in Nat /\ \A j \in 1..Len(asked) : all[first + j] = asked[j]
  BY AskedInPlace
<1>2. RightSignatures(Signatures("external", all, asked, first), script, i)
  <2> HIDE DEF asked, all, first
  <2>1. /\ IsList(Signatures("external", all, asked, first))
        /\ Len(Signatures("external", all, asked, first)) = Len(asked)
        /\ \A j \in 1..Len(asked) :
              Signatures("external", all, asked, first)[j] = Signature(all[first + j])
    BY <1>1, SignaturesList
  <2> QED
    BY <1>1, <2>1 DEF RightSignatures, asked
<1>3. ASSUME Core(script).kind = "pkh"
      PROVE  KeyItem("external", all, Core(script).key, first) = PublicKey(Core(script).key)
  <2>1. Len(asked) = 1 /\ asked[1].key = Core(script).key
    BY <1>3, ReadyScripts, OneSigner
  <2>2. all[first + 1] = asked[1]
    BY <1>1, <2>1
  <2> HIDE DEF asked, all, first
  <2> QED
    BY <2>1, <2>2 DEF KeyItem
<1> QED
  BY <1>2, <1>3

LEMMA RightSignaturesAlike ==
    ASSUME NEW script, NEW i, NEW s, NEW t,
           RightSignatures(s, script, i), RightSignatures(t, script, i)
    PROVE  s = t
<1>1. PICK S : s \in Seq(S)
  BY DEF RightSignatures, IsList
<1>2. PICK T : t \in Seq(T)
  BY DEF RightSignatures, IsList
<1>3. s \in Seq(S \cup T) /\ t \in Seq(S \cup T)
  BY <1>1, <1>2
<1>4. Len(s) = Len(t) /\ \A j \in 1..Len(s) : s[j] = t[j]
  BY DEF RightSignatures
<1> QED
  BY <1>3, <1>4, SeqEqual

(* Whoever holds the keys of all hashes signs as he compiles. *)
LEMMA BothWays ==
    ASSUME Ready,
           NEW c, Results("collect", <<>>, Len(plan.utxos), c),
           NEW f, Results("external", c[Len(plan.utxos)].hashes, Len(plan.utxos), f),
           NEW g, Results("normal", <<>>, Len(plan.utxos), g),
           {c[Len(plan.utxos)].hashes[j].key : j \in 1..Len(c[Len(plan.utxos)].hashes)}
               \subseteq request.keys
    PROVE  \A i \in 0..Len(plan.utxos) :
              g[i].error = f[i].error /\ g[i].hashes = f[i].hashes /\ g[i].inputs = f[i].inputs
<1> DEFINE n == Len(plan.utxos)
           all == c[n].hashes
           P(i) == g[i].error = f[i].error /\ g[i].hashes = f[i].hashes /\ g[i].inputs = f[i].inputs
           G == {i \in 0..n : P(i)}
<1>n. n \in Nat
  BY ReadyScripts
<1>1. 0 \in G
  BY <1>n DEF Results
<1>2. ASSUME NEW i \in 1..n, i - 1 \in G
      PROVE  i \in G
  <2> DEFINE script == request.scripts[i]
             asked == Asked(script, i)
             first == Len(c[i - 1].hashes)
  <2>1. P(i - 1) /\ i - 1 \in 0..n /\ i \in 0..n
    BY <1>n, <1>2
  <2>2. /\ Follows("external", all, f[i - 1], i, f[i])
        /\ Follows("normal", <<>>, g[i - 1], i, g[i])
    BY DEF Results
  <2>3. /\ f[i - 1].error = c[i - 1].error /\ f[i - 1].hashes = c[i - 1].hashes
        /\ f[i].error = c[i].error
    BY <2>1, CompiledAsCollected
  <2>4. First(f[i - 1], i) = first /\ First(g[i - 1], i) = first
    BY <2>1, <2>3 DEF First
  <2>u. /\ LeftUnsigned("external", i) <=> LeftUnsigned("collect", i)
        /\ LeftUnsigned("normal", i) <=> LeftUnsigned("collect", i)
    BY LeftAlike
  <2>5. CASE f[i - 1].error # "ok" \/ LeftUnsigned("collect", i)
    <3>1. P(i)
      BY <2>1, <2>2, <2>5, <2>u DEF Follows
    <3> QED
      BY <2>1, <3>1
  <2>6. CASE f[i - 1].error = "ok" /\ ~LeftUnsigned("collect", i) /\ ScriptError(script) # "ok"
    <3>1. /\ Failure("external", all, f[i - 1], i) = ScriptError(script)
          /\ Failure("normal", <<>>, g[i - 1], i) = ScriptError(script)
      BY <2>6 DEF Failure
    <3>2. P(i)
      BY <2>1, <2>2, <2>6, <2>u, <3>1 DEF Follows
    <3> QED
      BY <2>1, <3>2
  <2>7. CASE f[i - 1].error = "ok" /\ ~LeftUnsigned("collect", i) /\ ScriptError(script) = "ok"
    <3>1. c[i].error = "ok"
      <4>1. Follows("collect", <<>>, c[i - 1], i, c[i])
        BY DEF Results
      <4>2. Failure("collect", <<>>, c[i - 1], i) = "ok"
        BY <2>7 DEF Failure, SigningError
      <4> QED
        BY <2>3, <2>7, <4>1, <4>2 DEF Follows
    <3>2. Failure("external", all, f[i - 1], i) = "ok"
      BY <2>2, <2>3, <2>7, <2>u, <3>1 DEF Follows
    <3>3. MatchMultisig(Core(script)) /\ Len(asked) \in Nat
      BY ReadyScripts
    <3>4. \A j \in 1..Len(asked) : asked[j].key \in request.keys
      <4>1. /\ Len(all) \in Nat
            /\ \A j \in 1..Len(asked) :
                  first + j \in 1..Len(all) /\ all[first + j] = asked[j]
        BY <2>7, <3>1, AskedInPlace
      <4> HIDE DEF asked, all, first
      <4>2. \A j \in 1..Len(all) : all[j].key \in request.keys
        BY DEF all
      <4> QED
        BY <4>1, <4>2
    <3>5. Failure("normal", <<>>, g[i - 1], i) = "ok"
      BY <2>7, <3>4 DEF Failure, SigningError
    <3> DEFINE direct == Signatures("normal", <<>>, asked, first)
               compiled == Signatures("external", all, asked, first)
    <3>6. /\ direct = compiled
          /\ Core(script).kind = "pkh" =>
                KeyItem("normal", <<>>, Core(script).key, first)
                    = KeyItem("external", all, Core(script).key, first)
      <4>1. /\ RightSignatures(direct, script, i)
            /\ Core(script).kind = "pkh" =>
                  KeyItem("normal", <<>>, Core(script).key, first) = PublicKey(Core(script).key)
        BY <3>3, <3>4, SignedByKeys
      <4>2. /\ RightSignatures(compiled, script, i)
            /\ Core(script).kind = "pkh" =>
                  KeyItem("external", all, Core(script).key, first) = PublicKey(Core(script).key)
        BY <2>7, <3>1, SignedByAnswers
      <4> HIDE DEF direct, compiled, script
      <4> QED
        BY <4>1, <4>2, RightSignaturesAlike
    <3>7. Items(Core(script), "normal", <<>>, direct, first)
              = Items(Core(script), "external", all, compiled, first)
      <4>1. Core(script).kind \in {"pk", "pkh", "multi"}
        BY <2>7, SignableKinds
      <4> HIDE DEF direct, compiled, script, all, first
      <4> QED
        BY <3>6, <4>1 DEF Items
    <3>8. Spending(script, "normal", <<>>, direct, first)
              = Spending(script, "external", all, compiled, first)
      <4> HIDE DEF direct, compiled, script, all, first
      <4> QED
        BY <3>7, SpendingIs
    <3>9. Spent("normal", <<>>, g[i - 1], i) = Spent("external", all, f[i - 1], i)
      BY <2>4, <3>8 DEF Spent
    <3>10. P(i)
      BY <2>1, <2>2, <2>7, <2>u, <3>2, <3>5, <3>9 DEF Follows
    <3> QED
      BY <2>1, <3>10
  <2> QED
    BY <2>5, <2>6, <2>7
<1>3. G = 0..n
  <2>1. G \subseteq 0..n
    OBVIOUS
  <2> HIDE DEF G
  <2> QED
    BY <1>n, <1>1, <1>2, <2>1, UpTo
<1> QED
  BY <1>3

LEMMA ItemsLength ==
    ASSUME NEW core, core.kind \in {"pk", "pkh", "multi"}, NEW mode, NEW given,
           NEW signatures, IsList(signatures), NEW first
    PROVE  /\ IsList(Items(core, mode, given, signatures, first))
           /\ Len(Items(core, mode, given, signatures, first))
                  = Len(signatures) + IF core.kind = "pk" THEN 0 ELSE 1
<1> DEFINE items == Items(core, mode, given, signatures, first)
<1>n. Len(signatures) \in Nat
  BY ConcatList
<1>1. CASE core.kind = "pk"
  <2>1. items = signatures
    BY <1>1 DEF Items
  <2> HIDE DEF items
  <2> QED
    BY <1>n, <1>1, <2>1 DEF items
<1>2. CASE core.kind = "pkh"
  <2>1. items = Append(signatures, KeyItem(mode, given, core.key, first))
    BY <1>2 DEF Items
  <2>2. IsList(items) /\ Len(items) = Len(signatures) + 1
    BY <2>1, AppendList
  <2> QED
    BY <1>2, <2>2
<1>3. CASE core.kind = "multi"
  <2>1. items = <<Empty>> \o signatures
    BY <1>3 DEF Items
  <2>2. IsList(items) /\ Len(items) = 1 + Len(signatures)
    BY <2>1, FrontAdded
  <2> HIDE DEF items
  <2> QED
    BY <1>n, <1>3, <2>2 DEF items
<1> QED
  BY <1>1, <1>2, <1>3

(* The size of what an input is given does not depend on the mode. *)
LEMMA SpendingSize ==
    ASSUME NEW script, ScriptError(script) = "ok",
           NEW m1, NEW g1, NEW s1, NEW o1, NEW m2, NEW g2, NEW s2, NEW o2,
           IsList(s1), IsList(s2), Len(s1) = Len(s2)
    PROVE  LET in1 == Spending(script, m1, g1, s1, o1)
               in2 == Spending(script, m2, g2, s2, o2)
           IN  Len(in1.script) = Len(in2.script) /\ Len(in1.witness) = Len(in2.witness)
<1> DEFINE i1 == Items(Core(script), m1, g1, s1, o1)
           i2 == Items(Core(script), m2, g2, s2, o2)
           in1 == Spending(script, m1, g1, s1, o1)
           in2 == Spending(script, m2, g2, s2, o2)
           r == RedeemPush(script)
           w == WitnessPush(script)
<1>1. IsList(i1) /\ IsList(i2) /\ Len(i1) = Len(i2)
  <2>1. Core(script).kind \in {"pk", "pkh", "multi"}
    BY SignableKinds
  <2> DEFINE more == IF Core(script).kind = "pk" THEN 0 ELSE 1
  <2>2. IsList(i1) /\ Len(i1) = Len(s1) + more
    BY <2>1, ItemsLength
  <2>3. IsList(i2) /\ Len(i2) = Len(s2) + more
    BY <2>1, ItemsLength
  <2> HIDE DEF more
  <2> HIDE DEF i1, i2
  <2> QED
    BY <2>2, <2>3
<1>2. IsList(r) /\ IsList(w)
  BY ShortLists DEF RedeemPush, WitnessPush
<1>3. /\ in1 = IF InWitness(script)
               THEN [script |-> r, witness |-> i1 \o w]
               ELSE [script |-> i1 \o r \o r, witness |-> <<>>]
      /\ in2 = IF InWitness(script)
               THEN [script |-> r, witness |-> i2 \o w]
               ELSE [script |-> i2 \o r \o r, witness |-> <<>>]
  BY SpendingIs
<1>4. Len(i1 \o w) = Len(i2 \o w)
  <2> HIDE DEF i1, i2, w
  <2>1. Len(i1 \o w) = Len(i1) + Len(w) /\ Len(i2 \o w) = Len(i2) + Len(w)
    BY <1>1, <1>2, ConcatList
  <2> QED
    BY <1>1, <2>1
<1>5. Len(i1 \o r \o r) = Len(i2 \o r \o r)
  <2> HIDE DEF i1, i2, r
  <2>1. /\ IsList(i1 \o r) /\ Len(i1 \o r) = Len(i1) + Len(r)
        /\ IsList(i2 \o r) /\ Len(i2 \o r) = Len(i2) + Len(r)
    BY <1>1, <1>2, ConcatList
  <2>2. /\ Len(i1 \o r \o r) = Len(i1 \o r) + Len(r)
        /\ Len(i2 \o r \o r) = Len(i2 \o r) + Len(r)
    BY <1>2, <2>1, ConcatList
  <2> QED
    BY <1>1, <2>1, <2>2
<1>6. Len(in1.script) = Len(in2.script) /\ Len(in1.witness) = Len(in2.witness)
  <2> HIDE DEF i1, i2, r, w, in1, in2
  <2>1. CASE InWitness(script)
    BY <1>3, <1>4, <2>1
  <2>2. CASE ~InWitness(script)
    BY <1>3, <1>5, <2>2
  <2> QED
    BY <2>1, <2>2
<1> QED
  BY <1>6

(* A mode other than the trial, which leaves no less unsigned. *)
RealMode(m) ==
    /\ m # "estimate"
    /\ \A i \in 1..Len(plan.utxos) : LeftUnsigned("estimate", i) => LeftUnsigned(m, i)

(* The trial goes as far as the real signing, and further only at inputs    *)
(* that the real one leaves unsigned; up to where it goes it has its items. *)
LEMMA TrialHasTheItems ==
    ASSUME Ready,
           NEW m, RealMode(m),
           NEW given, NEW f, Results(m, given, Len(plan.utxos), f),
           f[Len(plan.utxos)].error = "ok",
           NEW t, Results("estimate", <<>>, Len(plan.utxos), t)
    PROVE  LET n == Len(plan.utxos)
           IN  /\ \/ t[n].error = "ok" /\ Len(t[n].inputs) = n
                  \/ \E i \in 1..n : LeftUnsigned(m, i)
               /\ \A i \in 1..Len(t[n].inputs) :
                     \/ LeftUnsigned(m, i)
                     \/ /\ Len(t[n].inputs[i].script) = Len(f[n].inputs[i].script)
                        /\ Len(t[n].inputs[i].witness) = Len(f[n].inputs[i].witness)
<1> DEFINE n == Len(plan.utxos)
           real == f[n].inputs
           Alike(k, in) == \/ LeftUnsigned(m, k)
                           \/ /\ Len(in.script) = Len(real[k].script)
                              /\ Len(in.witness) = Len(real[k].witness)
           P(i) == /\ \A k \in 1..Len(t[i].inputs) : Alike(k, t[i].inputs[k])
                   /\ t[i].error = "ok" \/ \E k \in 1..i : LeftUnsigned(m, k)
           G == {i \in 0..n : P(i)}
<1>n. n \in Nat /\ n \in 0..n
  BY ReadyScripts
<1>o. \A i \in 0..n : IsList(t[i].inputs) /\ (t[i].error = "ok" => Len(t[i].inputs) = i)
  BY ResultLists
<1>1. 0 \in G
  <2>1. t[0].error = "ok" /\ t[0].inputs = <<>>
    BY DEF Results
  <2>2. Len(t[0].inputs) = 0
    BY <2>1
  <2> HIDE DEF Alike
  <2> QED
    BY <1>n, <2>1, <2>2
<1>2. ASSUME NEW i \in 1..n, i - 1 \in G
      PROVE  i \in G
  <2> DEFINE d == t[i - 1]
             r == t[i]
  <2>1. P(i - 1) /\ i - 1 \in 0..n /\ i \in 0..n
    BY <1>n, <1>2
  <2>2. Follows("estimate", <<>>, d, i, r)
    BY DEF Results
  <2>3. LeftUnsigned("estimate", i) => LeftUnsigned(m, i)
    BY DEF RealMode
  <2>4. ~LeftUnsigned(m, i) =>
           /\ Failure("estimate", <<>>, d, i) = "ok"
           /\ Alike(i, Spent("estimate", <<>>, d, i))
    <3> SUFFICES ASSUME ~LeftUnsigned(m, i)
                 PROVE  /\ Failure("estimate", <<>>, d, i) = "ok"
                        /\ Alike(i, Spent("estimate", <<>>, d, i))
      OBVIOUS
    <3> DEFINE script == request.scripts[i]
               asked == Asked(script, i)
               s1 == Signatures(m, given, asked, First(f[i - 1], i))
               s2 == Signatures("estimate", <<>>, asked, First(d, i))
    <3>1. Failure(m, given, f[i - 1], i) = "ok" /\ real[i] = Spent(m, given, f[i - 1], i)
      BY InputsAre
    <3>2. ScriptError(script) = "ok"
      BY <3>1 DEF Failure
    <3>3. Len(asked) \in Nat
      BY ReadyScripts
    <3>4. IsList(s1) /\ IsList(s2) /\ Len(s1) = Len(s2)
      BY <3>3, SignaturesList
    <3>5. /\ real[i] = Spending(script, m, given, s1, First(f[i - 1], i))
          /\ Spent("estimate", <<>>, d, i)
                = Spending(script, "estimate", <<>>, s2, First(d, i))
      BY <3>1 DEF Spent
    <3>6. Failure("estimate", <<>>, d, i) = "ok"
      BY <3>2 DEF Failure, SigningError
    <3> HIDE DEF real, script, s1, s2, d
    <3>7. Alike(i, Spent("estimate", <<>>, d, i))
      BY <3>2, <3>4, <3>5, SpendingSize
    <3> QED
      BY <3>6, <3>7
  <2>5. CASE d.error # "ok"
    <3>1. r = d
      BY <2>2, <2>5 DEF Follows
    <3>2. \A k \in 1..(i - 1) : k \in 1..i
      BY <1>n
    <3> HIDE DEF d, r, Alike
    <3>3. /\ \A k \in 1..Len(r.inputs) : Alike(k, r.inputs[k])
          /\ \E k \in 1..i : LeftUnsigned(m, k)
      BY <2>1, <2>5, <3>1, <3>2 DEF d
    <3> QED
      BY <2>1, <3>3 DEF r
  <2>6. CASE d.error = "ok" /\ r.error # "ok"
    <3>1. LeftUnsigned(m, i) /\ r.inputs = d.inputs
      BY <2>2, <2>4, <2>6 DEF Follows
    <3> HIDE DEF d, r, Alike
    <3>2. \A k \in 1..Len(r.inputs) : Alike(k, r.inputs[k])
      BY <2>1, <3>1 DEF d
    <3> QED
      BY <2>1, <3>1, <3>2 DEF r
  <2>7. CASE d.error = "ok" /\ r.error = "ok"
    <3>1. PICK in : r.inputs = Append(d.inputs, in) /\ Alike(i, in)
      <4>1. CASE LeftUnsigned("estimate", i)
        BY <2>2, <2>3, <2>7, <4>1 DEF Follows
      <4>2. CASE ~LeftUnsigned("estimate", i)
        <5>1. r.inputs = Append(d.inputs, Spent("estimate", <<>>, d, i))
          BY <2>2, <2>7, <4>2 DEF Follows
        <5>2. Alike(i, Spent("estimate", <<>>, d, i))
          BY <2>4
        <5> HIDE DEF d, r, Alike
        <5> QED
          BY <5>1, <5>2
      <4> QED
        BY <4>1, <4>2
    <3>2. IsList(d.inputs) /\ Len(d.inputs) = i - 1
      BY <1>o, <2>1, <2>7
    <3> DEFINE e == d.inputs
    <3>3. /\ Len(Append(e, in)) = Len(e) + 1 /\ Append(e, in)[Len(e) + 1] = in
          /\ \A k \in 1..Len(e) : Append(e, in)[k] = e[k]
      BY <3>2, AppendList
    <3>4. \A k \in 1..Len(e) : Alike(k, e[k])
      BY <2>1
    <3>5. Len(e) = i - 1 /\ r.inputs = Append(e, in)
      BY <3>1, <3>2
    <3> HIDE DEF d, r, e, Alike
    <3>6. ASSUME NEW k \in 1..Len(Append(e, in))
          PROVE  Alike(k, Append(e, in)[k])
      <4>1. CASE k = i
        BY <1>n, <3>1, <3>3, <3>5, <4>1
      <4>2. CASE k # i
        <5>1. k \in 1..Len(e)
          BY <1>n, <3>3, <3>5, <4>2
        <5> QED
          BY <3>3, <3>4, <5>1
      <4> QED
        BY <4>1, <4>2
    <3>7. \A k \in 1..Len(r.inputs) : Alike(k, r.inputs[k])
      BY <3>5, <3>6
    <3> QED
      BY <2>1, <2>7, <3>7 DEF r
  <2> QED
    BY <2>5, <2>6, <2>7
<1>3. G = 0..n
  <2>1. G \subseteq 0..n
    OBVIOUS
  <2> HIDE DEF G
  <2> QED
    BY <1>n, <1>1, <1>2, <2>1, UpTo
<1>4. P(n)
  BY <1>n, <1>3
<1>5. t[n].error = "ok" => Len(t[n].inputs) = n
  BY <1>n, <1>o
<1> QED
  BY <1>4, <1>5

(* Every input of a transaction signed with the keys, or compiled from the  *)
(* signatures of the hashes, is left unsigned or unlocks its output.        *)
UnlocksOrNot(in, i) ==
    \/ Unlocks(in, request.scripts[i], i)
    \/ LegacyRedeem(request.scripts[i])
    \/ LeftUnsigned("normal", i)

LEMMA DirectUnlocks ==
    ASSUME Ready, NEW g, Results("normal", <<>>, Len(plan.utxos), g),
           g[Len(plan.utxos)].error = "ok"
    PROVE  \A i \in 1..Len(plan.utxos) : UnlocksOrNot(g[Len(plan.utxos)].inputs[i], i)
<1> SUFFICES ASSUME NEW i \in 1..Len(plan.utxos), ~LeftUnsigned("normal", i)
             PROVE  UnlocksOrNot(g[Len(plan.utxos)].inputs[i], i)
  BY DEF UnlocksOrNot
<1> DEFINE script == request.scripts[i]
           asked == Asked(script, i)
           first == First(g[i - 1], i)
           signatures == Signatures("normal", <<>>, asked, first)
           in == g[Len(plan.utxos)].inputs[i]
<1>1. Failure("normal", <<>>, g[i - 1], i) = "ok" /\ in = Spent("normal", <<>>, g[i - 1], i)
  BY InputsAre
<1>2. ScriptError(script) = "ok" /\ SigningError("normal", <<>>, asked, first) = "ok"
  BY <1>1 DEF Failure
<1>3. MatchMultisig(Core(script))
  BY ReadyScripts
<1>4. \A j \in 1..Len(asked) : asked[j].key \in request.keys
  BY <1>2 DEF SigningError
<1>5. /\ RightSignatures(signatures, script, i)
      /\ Core(script).kind = "pkh" =>
            KeyItem("normal", <<>>, Core(script).key, first) = PublicKey(Core(script).key)
  BY <1>3, <1>4, SignedByKeys
<1>6. in = Spending(script, "normal", <<>>, signatures, first)
  BY <1>1 DEF Spent
<1> HIDE DEF script, asked, first, signatures, in
<1>7. Unlocks(in, script, i) \/ LegacyRedeem(script)
  BY <1>2, <1>3, <1>5, <1>6, SpendingUnlocks
<1> QED
  BY <1>7 DEF UnlocksOrNot, script, in

LEMMA CompiledUnlocks ==
    ASSUME Ready,
           NEW c, Results("collect", <<>>, Len(plan.utxos), c),
           NEW f, Results("external", c[Len(plan.utxos)].hashes, Len(plan.utxos), f),
           f[Len(plan.utxos)].error = "ok"
    PROVE  \A i \in 1..Len(plan.utxos) : UnlocksOrNot(f[Len(plan.utxos)].inputs[i], i)
<1> SUFFICES ASSUME NEW i \in 1..Len(plan.utxos), ~LeftUnsigned("normal", i)
             PROVE  UnlocksOrNot(f[Len(plan.utxos)].inputs[i], i)
  BY DEF UnlocksOrNot
<1> DEFINE script == request.scripts[i]
           asked == Asked(script, i)
           all == c[Len(plan.utxos)].hashes
           first == Len(c[i - 1].hashes)
           signatures == Signatures("external", all, asked, first)
           in == f[Len(plan.utxos)].inputs[i]
<1>n. /\ Len(plan.utxos) \in Nat /\ Len(plan.utxos) \in 0..Len(plan.utxos)
      /\ i \in 0..Len(plan.utxos) /\ i - 1 \in 0..Len(plan.utxos)
  BY ReadyScripts
<1>u. ~LeftUnsigned("external", i) /\ ~LeftUnsigned("collect", i)
  BY LeftAlike
<1>1. Failure("external", all, f[i - 1], i) = "ok" /\ in = Spent("external", all, f[i - 1], i)
  BY <1>u, InputsAre
<1>2. ScriptError(script) = "ok"
  BY <1>1 DEF Failure
<1>3. MatchMultisig(Core(script))
  BY ReadyScripts
<1>4. c[i].error = "ok"
  <2>1. f[i].error = "ok"
    BY <1>n, ResultLists
  <2> QED
    BY <1>n, <2>1, CompiledAsCollected
<1>5. First(f[i - 1], i) = first
  BY <1>n, CompiledAsCollected DEF First
<1>6. /\ RightSignatures(signatures, script, i)
      /\ Core(script).kind = "pkh" =>
            KeyItem("external", all, Core(script).key, first) = PublicKey(Core(script).key)
  BY <1>4, <1>u, SignedByAnswers
<1>7. in = Spending(script, "external", all, signatures, first)
  BY <1>1, <1>5 DEF Spent
<1> HIDE DEF script, asked, all, first, signatures, in
<1>8. Unlocks(in, script, i) \/ LegacyRedeem(script)
  BY <1>2, <1>3, <1>6, <1>7, SpendingUnlocks
<1> QED
  BY <1>8 DEF UnlocksOrNot, script, in

-------------------------------------------------------------------------------
(* What the answers of any state are, and what the attempt to sign that led *)
(* to it came to.                                                           *)
LEMMA AnswersLength ==
    ASSUME IsList(hashes), answers \in Answers
    PROVE  Len(answers) \in Nat
<1>1. PICK S : hashes \in Seq(S)
  BY DEF IsList
<1>2. CASE answers = hashes
  BY <1>1, <1>2
<1>3. CASE hashes # <<>> /\ answers = Front(hashes)
  <2>1. SubSeq(hashes, 1, Len(hashes) - 1) \in Seq(S)
    BY <1>1, <1>3
  <2> QED
    BY <1>3, <2>1 DEF Front
<1>4. ASSUME NEW j \in 1..(Len(hashes) - 1),
             answers = [hashes EXCEPT ![j] = hashes[j + 1], ![j + 1] = hashes[j]]
      PROVE  Len(answers) \in Nat
  <2>1. Len(hashes) \in Nat /\ hashes \in [1..Len(hashes) -> S]
    BY <1>1
  <2>2. hashes[j] \in S /\ hashes[j + 1] \in S
    BY <2>1
  <2>3. answers \in [1..Len(hashes) -> S]
    BY <1>4, <2>1, <2>2
  <2> QED
    BY <2>1, <2>3
<1> QED
  BY <1>2, <1>3, <1>4 DEF Answers

Doable == plan.error = "ok" /\ Buildable(input, plan.change)

LEMMA SignAllResult ==
    ASSUME Ready, Doable, NEW mode, mode # "estimate", NEW given
    PROVE  /\ Results(mode, given, Len(plan.utxos), SignUpTo(mode, given))
           /\ SignAll(mode, given) = SignUpTo(mode, given)[Len(plan.utxos)]
<1>1. Results(mode, given, Len(plan.utxos), SignUpTo(mode, given))
  BY ResultsOfInputs DEF Ready
<1> QED
  BY <1>1, SignAllIs DEF Doable, PlanOf

LEMMA NotDoable ==
    ASSUME ~Doable, NEW mode, mode # "estimate", NEW given
    PROVE  /\ SignAll(mode, given).error # "ok"
           /\ SignAll(mode, given).error \in {plan.error, "missing_input_utxos"}
           /\ \A m, g : m # "estimate" => SignAll(m, g).error = SignAll(mode, given).error
<1>1. CASE plan.error # "ok"
  BY <1>1, SignAllIs
<1>2. CASE plan.error = "ok" /\ ~Buildable(input, plan.change)
  <2>1. \A m, g : m # "estimate" => SignAll(m, g).error = "missing_input_utxos"
    BY <1>2, SignAllIs DEF PlanOf
  <2> QED
    BY <2>1
<1> QED
  BY <1>1, <1>2 DEF Doable

(* A state in which the transaction is signed. *)
LEMMA SignedCame ==
    ASSUME TypeOK, SignerInv, stage = "signed"
    PROVE  /\ Ready /\ Doable /\ tx = Build(input, plan)
           /\ \/ /\ way = "direct"
                 /\ SignAll("normal", <<>>).error = "ok"
                 /\ signed = SignAll("normal", <<>>).inputs
              \/ /\ way = "compiled" /\ answers \in Answers
                 /\ hashes = SignAll("collect", <<>>).hashes
                 /\ SignAll("external", answers).error = "ok"
                 /\ signed = SignAll("external", answers).inputs
<1>1. Ready
  BY DEF TypeOK, SignerInv, Ready
<1>2. way \in {"direct", "compiled"}
  BY DEF SignerInv
<1>3. CASE way = "direct"
  <2>1. /\ error = "ok" /\ SignAll("normal", <<>>).error = "ok"
        /\ tx = Build(input, plan) /\ signed = SignAll("normal", <<>>).inputs
    BY <1>3 DEF SignerInv, CameOf
  <2>2. Doable
    BY <2>1, NotDoable
  <2> QED
    BY <1>1, <1>3, <2>1, <2>2
<1>4. CASE way = "compiled"
  <2>1. /\ error = "ok" /\ SignAll("external", answers).error = "ok"
        /\ tx = Build(input, plan) /\ signed = SignAll("external", answers).inputs
        /\ answers \in Answers /\ hashes = SignAll("collect", <<>>).hashes
    BY <1>4 DEF SignerInv, CameOf
  <2>2. Doable
    BY <2>1, NotDoable
  <2> QED
    BY <1>1, <1>4, <2>1, <2>2
<1> QED
  BY <1>2, <1>3, <1>4

(* SignatureBuilder refuses to compile while a hash lacks its signature or  *)
(* has the signature of another, whatever the caller gave back.             *)
LEMMA HashesAreAnswered ==
    ASSUME TypeOK, SignerInv
    PROVE  EveryHashAnswered
<1> SUFFICES ASSUME way = "compiled", stage = "signed"
             PROVE  /\ Len(hashes) <= Len(answers)
                    /\ \A j \in 1..Len(hashes) : answers[j].hash = hashes[j].hash
  BY DEF EveryHashAnswered
<1> DEFINE n == Len(plan.utxos)
           c == SignUpTo("collect", <<>>)
           f == SignUpTo("external", answers)
<1>1. /\ Ready /\ Doable /\ answers \in Answers
      /\ hashes = SignAll("collect", <<>>).hashes /\ SignAll("external", answers).error = "ok"
  BY SignedCame
<1>2. n \in Nat /\ n \in 0..n
  BY <1>1, ReadyScripts
<1>3. /\ Results("collect", <<>>, n, c) /\ hashes = c[n].hashes
      /\ Results("external", answers, n, f) /\ f[n].error = "ok"
  BY <1>1, SignAllResult
<1> HIDE DEF n, c, f
<1>4. Len(answers) \in Nat
  <2>1. IsList(c[n].hashes)
    BY <1>1, <1>2, <1>3, ResultLists DEF n
  <2> QED
    BY <1>1, <1>3, <2>1, AnswersLength
<1>5. c[n].error = "ok"
  BY <1>1, <1>2, <1>3, LenientCollect DEF n
<1>6. c[n].hashes = f[n].hashes
  BY <1>1, <1>2, <1>3, <1>5, HashesAlike DEF n
<1>7. /\ Len(f[n].hashes) <= Len(answers)
      /\ \A j \in 1..Len(f[n].hashes) : answers[j].hash = f[n].hashes[j].hash
  BY <1>1, <1>2, <1>3, <1>4, AnsweredSoFar DEF n
<1> QED
  BY <1>3, <1>6, <1>7

(* With the right signatures compile fails only where no signature helps. *)
LEMMA AnswersCompile ==
    ASSUME TypeOK, SignerInv
    PROVE  RightAnswersCompile
<1> SUFFICES ASSUME way = "compiled", stage = "failed", answers = hashes
             PROVE  error \notin {"signing", "missing_private_key"}
  BY DEF RightAnswersCompile
<1>1. /\ Ready /\ hashes = SignAll("collect", <<>>).hashes
      /\ error = SignAll("external", answers).error
  BY DEF TypeOK, SignerInv, CameOf, Ready
<1>2. CASE Doable
  <2> DEFINE n == Len(plan.utxos)
             c == SignUpTo("collect", <<>>)
             f == SignUpTo("external", hashes)
  <2>1. /\ Results("collect", <<>>, n, c) /\ hashes = c[n].hashes
        /\ Results("external", hashes, n, f) /\ error = f[n].error
    BY <1>1, <1>2, SignAllResult
  <2>2. n \in 0..n
    BY <1>1, ReadyScripts
  <2>3. Results("external", c[n].hashes, n, f)
    BY <2>1
  <2> HIDE DEF n, c, f
  <2>4. f[n].error \notin {"signing", "missing_private_key"}
    BY <1>1, <2>1, <2>2, <2>3, CompiledAsCollected DEF n
  <2> QED
    BY <2>1, <2>4
<1>3. CASE ~Doable
  BY <1>1, <1>3, NotDoable DEF SignerInv, PlanErrors
<1> QED
  BY <1>2, <1>3

(* Whoever holds the keys of all hashes gets the same from both ways. *)
LEMMA WaysAreAlike ==
    ASSUME TypeOK, SignerInv
    PROVE  BothWaysAlike
<1> SUFFICES ASSUME way = "compiled", answers = hashes,
                    {hashes[j].key : j \in 1..Len(hashes)} \subseteq request.keys
             PROVE  /\ SignAll("normal", <<>>).error = error
                    /\ stage = "signed" => SignAll("normal", <<>>).inputs = signed
  BY Zenon DEF BothWaysAlike
<1>1. /\ Ready /\ hashes = SignAll("collect", <<>>).hashes
      /\ error = SignAll("external", answers).error
      /\ stage = "signed" => signed = SignAll("external", answers).inputs
  <2>1. CameOf("external", answers) /\ hashes = SignAll("collect", <<>>).hashes
    BY DEF SignerInv
  <2>2. stage \in {"signed", "failed"} /\ Ready
    BY <2>1 DEF CameOf, TypeOK, SignerInv, Ready
  <2> QED
    BY <2>1, <2>2 DEF CameOf
<1>2. CASE Doable
  <2> DEFINE n == Len(plan.utxos)
             c == SignUpTo("collect", <<>>)
             f == SignUpTo("external", hashes)
             g == SignUpTo("normal", <<>>)
  <2>1. /\ Results("collect", <<>>, n, c) /\ hashes = c[n].hashes
        /\ Results("external", hashes, n, f) /\ SignAll("external", answers) = f[n]
        /\ Results("normal", <<>>, n, g) /\ SignAll("normal", <<>>) = g[n]
    BY <1>1, <1>2, SignAllResult
  <2>2. n \in 0..n
    BY <1>1, ReadyScripts
  <2>3. /\ Results("external", c[n].hashes, n, f)
        /\ {c[n].hashes[j].key : j \in 1..Len(c[n].hashes)} \subseteq request.keys
    BY <2>1
  <2> HIDE DEF n, c, f, g
  <2>4. g[n].error = f[n].error /\ g[n].inputs = f[n].inputs
    BY <1>1, <2>1, <2>2, <2>3, BothWays DEF n
  <2> QED
    BY <1>1, <2>1, <2>4
<1>3. CASE ~Doable
  <2>1. stage # "signed"
    BY <1>3, SignedCame
  <2>2. SignAll("normal", <<>>).error = SignAll("external", answers).error
    BY <1>3, NotDoable
  <2> QED
    BY <1>1, <2>1, <2>2
<1> QED
  BY <1>2, <1>3

LEMMA OutputsOf ==
    ASSUME NEW in, NEW p
    PROVE  Len(Build(in, p).outputs)
              = 1 + (IF p.change > 0 THEN 1 ELSE 0) + (IF in.opReturn THEN 1 ELSE 0)
<1> DEFINE recipient == <<[to |-> "recipient", amount |-> p.amount]>>
           change == IF p.change > 0 THEN <<[to |-> "change", amount |-> p.change]>> ELSE <<>>
           data == IF in.opReturn THEN <<[to |-> "data", amount |-> 0]>> ELSE <<>>
<1>1. /\ IsList(recipient) /\ Len(recipient) = 1
      /\ IsList(change) /\ Len(change) = IF p.change > 0 THEN 1 ELSE 0
      /\ IsList(data) /\ Len(data) = IF in.opReturn THEN 1 ELSE 0
  BY ShortLists
<1>2. Build(in, p).outputs = recipient \o change \o data
  BY DEF Build
<1> HIDE DEF recipient, change, data
<1>3. IsList(recipient \o change) /\ Len(recipient \o change) = Len(recipient) + Len(change)
  BY <1>1, ConcatList
<1>4. Len(recipient \o change \o data) = Len(recipient \o change) + Len(data)
  BY <1>1, <1>3, ConcatList
<1> QED
  BY <1>1, <1>2, <1>3, <1>4

(* The plan before its fee has no fewer outputs: a change that is left was  *)
(* larger then, for the amount is cut only where no change is left.         *)
LEMMA OutputsBeforeFee ==
    ASSUME TypeOK, Planned, PlanBalances, ShortOnlyWithoutChange
    PROVE  \A i \in Nat : \A m : LeftUnsigned("estimate", i) => LeftUnsigned(m, i)
<1> DEFINE before == Preliminary(input, plan.utxos)
           available == Total(plan.utxos)
<1>1. /\ {available, input.amount, plan.amount, plan.fee, plan.change} \subseteq Nat
      /\ plan.amount + plan.fee + plan.change = available
      /\ MaxAmount(input) => plan.change = 0
      /\ ~MaxAmount(input) /\ plan.change # 0 => plan.amount = input.amount
  <2>1. /\ {plan.available, plan.amount, plan.fee, plan.change} \subseteq Nat
        /\ input.amount \in Nat
    BY InputType DEF TypeOK
  <2>2. /\ plan.available = available
        /\ plan.amount + plan.fee + plan.change = plan.available
        /\ MaxAmount(input) => plan.change = 0
    BY DEF PlanBalances
  <2>3. ~MaxAmount(input) => /\ plan.amount <= input.amount
                             /\ plan.amount < input.amount => plan.change = 0
    BY DEF ShortOnlyWithoutChange
  <2> HIDE DEF available
  <2> QED
    BY <2>1, <2>2, <2>3
<1>2. before.change = available - (IF MaxAmount(input) THEN available ELSE input.amount)
  BY DEF Preliminary
<1>3. plan.change > 0 => before.change > 0
  <2> HIDE DEF before, available
  <2> QED
    BY <1>1, <1>2
<1>4. /\ Len(Build(input, plan).outputs)
            = 1 + (IF plan.change > 0 THEN 1 ELSE 0) + (IF input.opReturn THEN 1 ELSE 0)
      /\ Len(Build(input, before).outputs)
            = 1 + (IF before.change > 0 THEN 1 ELSE 0) + (IF input.opReturn THEN 1 ELSE 0)
  <2> HIDE DEF before
  <2> QED
    BY OutputsOf
<1>5. /\ Len(Build(input, plan).outputs) \in Nat /\ Len(Build(input, before).outputs) \in Nat
      /\ Len(Build(input, plan).outputs) <= Len(Build(input, before).outputs)
  <2> DEFINE now == IF plan.change > 0 THEN 1 ELSE 0
             then == IF before.change > 0 THEN 1 ELSE 0
             data == IF input.opReturn THEN 1 ELSE 0
             few == Len(Build(input, plan).outputs)
             many == Len(Build(input, before).outputs)
  <2> HIDE DEF before
  <2>1. {now, then, data} \subseteq Nat /\ now <= then
    BY <1>3
  <2>2. few = 1 + now + data /\ many = 1 + then + data
    BY <1>4
  <2> HIDE DEF now, then, data, few, many
  <2>3. few \in Nat /\ many \in Nat /\ few <= many
    BY <2>1, <2>2
  <2> QED
    BY <2>3 DEF few, many
<1>6. ASSUME NEW i \in Nat, NEW m, LeftUnsigned("estimate", i)
      PROVE  LeftUnsigned(m, i)
  <2>1. request.hashType = "single" /\ i > Len(Build(input, before).outputs)
    BY <1>6 DEF LeftUnsigned, PlanOf
  <2> HIDE DEF before
  <2>2. i > Len(Build(input, plan).outputs)
    BY <1>5, <2>1
  <2>3. PlanOf(m) = plan \/ PlanOf(m) = before
    BY DEF PlanOf, before
  <2> QED
    BY <2>1, <2>2, <2>3 DEF LeftUnsigned
<1> QED
  BY <1>6

(* The trial signature has the items of the real one. *)
LEMMA TrialIsTrue ==
    ASSUME TypeOK, SignerInv, PlanBalances, ShortOnlyWithoutChange
    PROVE  EstimateHasTheItems
<1> DEFINE trial == SignAll("estimate", <<>>)
           Beyond(i) == request.hashType = "single" /\ i > Len(tx.outputs)
<1> SUFFICES ASSUME stage = "signed", Buildable(input, PlanOf("estimate").change)
             PROVE  /\ \/ trial.error = "ok" /\ Len(trial.inputs) = Len(signed)
                       \/ \E i \in 1..Len(signed) : Beyond(i)
                    /\ \A i \in 1..Len(trial.inputs) :
                          \/ Beyond(i)
                          \/ /\ Len(trial.inputs[i].script) = Len(signed[i].script)
                             /\ Len(trial.inputs[i].witness) = Len(signed[i].witness)
  BY DEF EstimateHasTheItems
<1> DEFINE n == Len(plan.utxos)
           t == SignUpTo("estimate", <<>>)
<1>1. Ready /\ Doable /\ tx = Build(input, plan) /\ n \in Nat /\ n \in 0..n
  BY SignedCame, ReadyScripts
<1>2. PICK mode, given : /\ mode # "estimate"
                         /\ SignAll(mode, given).error = "ok"
                         /\ signed = SignAll(mode, given).inputs
  <2>1. \/ SignAll("normal", <<>>).error = "ok" /\ signed = SignAll("normal", <<>>).inputs
        \/ SignAll("external", answers).error = "ok" /\ signed = SignAll("external", answers).inputs
    BY SignedCame
  <2>2. "normal" # "estimate" /\ "external" # "estimate"
    OBVIOUS
  <2> QED
    BY <2>1, <2>2
<1> DEFINE f == SignUpTo(mode, given)
<1>3. Results(mode, given, n, f) /\ SignAll(mode, given) = f[n]
  BY <1>1, <1>2, SignAllResult
<1>4. Results("estimate", <<>>, n, t) /\ trial = t[n]
  <2>1. Results("estimate", <<>>, n, t)
    BY <1>1, ResultsOfInputs DEF Ready
  <2> QED
    BY <1>1, <2>1, SignAllIs DEF Doable
<1>5. \A i \in 1..n : LeftUnsigned("estimate", i) => LeftUnsigned(mode, i)
  <2>1. Planned
    BY <1>1 DEF Doable, Planned
  <2>2. \A i \in 1..n : i \in Nat
    BY <1>1
  <2> HIDE DEF n
  <2> QED
    BY <2>1, <2>2, OutputsBeforeFee
<1>6. \A i : LeftUnsigned(mode, i) <=> Beyond(i)
  BY <1>1, <1>2 DEF LeftUnsigned, PlanOf
<1> HIDE DEF n, f, t, trial, Beyond
<1>7. Len(f[n].inputs) = n
  BY <1>1, <1>2, <1>3, InputsAre DEF n
<1>8. /\ \/ t[n].error = "ok" /\ Len(t[n].inputs) = n
         \/ \E i \in 1..n : LeftUnsigned(mode, i)
      /\ \A i \in 1..Len(t[n].inputs) :
            \/ LeftUnsigned(mode, i)
            \/ /\ Len(t[n].inputs[i].script) = Len(f[n].inputs[i].script)
               /\ Len(t[n].inputs[i].witness) = Len(f[n].inputs[i].witness)
  <2>1. f[n].error = "ok"
    BY <1>2, <1>3
  <2>2. Results(mode, given, Len(plan.utxos), f) /\ Results("estimate", <<>>, Len(plan.utxos), t)
    BY <1>3, <1>4 DEF n
  <2>3. RealMode(mode)
    BY <1>2, <1>5 DEF RealMode, n
  <2>4. Ready /\ f[Len(plan.utxos)].error = "ok"
    BY <1>1, <2>1 DEF n
  <2> QED
    BY <2>2, <2>3, <2>4, TrialHasTheItems DEF n
<1> QED
  BY <1>2, <1>3, <1>4, <1>6, <1>7, <1>8

(* Every input of a signed transaction unlocks its output. *)
LEMMA SignedIsUnlocked ==
    ASSUME TypeOK, SignerInv
    PROVE  SignedUnlocks
<1> SUFFICES ASSUME stage = "signed", answers = hashes
             PROVE  /\ Len(signed) = Len(tx.inputs)
                    /\ \A i \in 1..Len(signed) :
                          \/ Unlocks(signed[i], request.scripts[i], i)
                          \/ LegacyRedeem(request.scripts[i])
                          \/ request.hashType = "single" /\ i > Len(tx.outputs)
  BY DEF SignedUnlocks
<1> DEFINE n == Len(plan.utxos)
<1>1. /\ Ready /\ Doable /\ tx = Build(input, plan)
      /\ \/ /\ SignAll("normal", <<>>).error = "ok"
            /\ signed = SignAll("normal", <<>>).inputs
         \/ /\ hashes = SignAll("collect", <<>>).hashes
            /\ SignAll("external", answers).error = "ok"
            /\ signed = SignAll("external", answers).inputs
  BY SignedCame
<1>2. Len(signed) = n /\ \A i \in 1..n : UnlocksOrNot(signed[i], i)
  <2>1. CASE /\ SignAll("normal", <<>>).error = "ok"
             /\ signed = SignAll("normal", <<>>).inputs
    <3> DEFINE g == SignUpTo("normal", <<>>)
    <3>1. /\ Results("normal", <<>>, n, g)
          /\ g[n].error = "ok" /\ signed = g[n].inputs
      BY <1>1, <2>1, SignAllResult
    <3> HIDE DEF n, g
    <3> QED
      BY <1>1, <3>1, InputsAre, DirectUnlocks DEF n
  <2>2. CASE /\ hashes = SignAll("collect", <<>>).hashes
             /\ SignAll("external", answers).error = "ok"
             /\ signed = SignAll("external", answers).inputs
    <3> DEFINE c == SignUpTo("collect", <<>>)
               f == SignUpTo("external", hashes)
    <3>1. /\ Results("collect", <<>>, n, c) /\ hashes = c[n].hashes
          /\ Results("external", hashes, n, f)
          /\ f[n].error = "ok" /\ signed = f[n].inputs
      BY <1>1, <2>2, SignAllResult
    <3>2. Results("external", c[n].hashes, n, f)
      BY <3>1
    <3> HIDE DEF n, c, f
    <3> QED
      BY <1>1, <3>1, <3>2, InputsAre, CompiledUnlocks DEF n
  <2> QED
    BY <1>1, <2>1, <2>2
<1>3. Len(tx.inputs) = n
  BY <1>1 DEF Build
<1>4. \A i : LeftUnsigned("normal", i) <=> request.hashType = "single" /\ i > Len(tx.outputs)
  BY <1>1 DEF LeftUnsigned, PlanOf
<1> HIDE DEF n
<1> QED
  BY <1>2, <1>3, <1>4 DEF UnlocksOrNot

LEMMA SignerTypeCorrect == SignerSpec => []TypeOK
BY SignerImplementsPlan, PlanTypeCorrect, PTL

(* No transaction is compiled while a hash lacks its own signature          *)
(* (SignatureBuilder.cpp, createSignature).                                 *)
THEOREM HashesAnswered == SignerSpec => []EveryHashAnswered
BY SignerTypeCorrect, SignerInvCorrect, HashesAreAnswered, PTL

(* The signatures of the hashes, in order, are those compile looks for. *)
THEOREM RightAnswersAreTaken == SignerSpec => []RightAnswersCompile
BY SignerTypeCorrect, SignerInvCorrect, AnswersCompile, PTL

(* preImageHashes and compile make the transaction that sign makes.         *)
THEOREM SameEitherWay == SignerSpec => []BothWaysAlike
BY SignerTypeCorrect, SignerInvCorrect, WaysAreAlike, PTL

(* The trial transaction the fee is taken from, made of the plan before its *)
(* fee (TransactionBuilder.cpp:48-52 and 143-153), lacks no input of the    *)
(* real one and no item of an input, except where SIGHASH_SINGLE leaves an  *)
(* input of the real one without items.                                     *)
THEOREM EstimateIsTrue == SignerSpec => []EstimateHasTheItems
<1>1. SignerSpec => [](PlanBalances /\ ShortOnlyWithoutChange)
  BY SignerImplementsPlan, EveryPlanBalances, NeverShortWithChange, PTL
<1> QED
  BY <1>1, SignerTypeCorrect, SignerInvCorrect, TrialIsTrue, PTL

(* What is signed, whatever the scripts, keys, hash type and way, can be    *)
(* spent, old redeem scripts and unsigned inputs excepted.                  *)
THEOREM SignedCanBeSpent == SignerSpec => []SignedUnlocks
BY SignerTypeCorrect, SignerInvCorrect, SignedIsUnlocked, PTL
================================================================================
