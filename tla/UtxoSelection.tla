----------------------------- MODULE UtxoSelection -----------------------------
(***************************************************************************)
(* How wallet-core picks the unspent outputs that pay for a Bitcoin        *)
(* transfer: InputSelector.cpp and FeeCalculator.cpp of src/Bitcoin.  An   *)
(* unspent output is its amount; a list of them is a sequence.  Amounts    *)
(* are far below 2^62, so no sum or double of them wraps.                  *)
(***************************************************************************)
EXTENDS Integers, Sequences, FiniteSets

CONSTANTS
    InputQuarters,   \* bytesPerInput of the coin's calculator, in quarters
    OutputBytes,     \* bytesPerOutput
    BaseBytes        \* bytesBase

ASSUME CalculatorAssumption ==
    /\ InputQuarters \in Nat
    /\ OutputBytes \in Nat
    /\ BaseBytes \in Nat

-------------------------------------------------------------------------------
(* The calculator: std::ceil of the estimated size, times the price.        *)
CeilOfQuarters(q) == (q + 3) \div 4

Calculate(inputs, outputs, byteFee) ==
    (CeilOfQuarters(InputQuarters * inputs) + OutputBytes * outputs + BaseBytes) * byteFee

SingleInput(byteFee) == CeilOfQuarters(InputQuarters) * byteFee

-------------------------------------------------------------------------------
(* Lists of unspent outputs. *)
Total(utxos) ==
    LET sum[i \in 0..Len(utxos)] == IF i = 0 THEN 0 ELSE sum[i - 1] + utxos[i]
    IN  sum[Len(utxos)]

(* Mutant: an output that is worth exactly what spending it costs is kept. *)
KeepAtLimit(utxos, limit) ==
    LET kept[i \in 0..Len(utxos)] ==
            IF i = 0 THEN <<>>
            ELSE IF utxos[i] >= limit THEN Append(kept[i - 1], utxos[i]) ELSE kept[i - 1]
    IN  kept[Len(utxos)]

FilterThreshold(utxos, limit) ==
    LET kept[i \in 0..Len(utxos)] ==
            IF i = 0 THEN <<>>
            ELSE IF utxos[i] > limit THEN Append(kept[i - 1], utxos[i]) ELSE kept[i - 1]
    IN  kept[Len(utxos)]

FilterOutDust(utxos, byteFee) == FilterThreshold(utxos, SingleInput(byteFee))

(* Mutant: the search goes from the largest size down. *)
Largest(S) == CHOOSE m \in S : \A n \in S : n <= m

Least(S) == CHOOSE m \in S : \A n \in S : m <= n

(* The list in increasing order: at place k the least amount that with the  *)
(* smaller ones fills k places.                                             *)
Sorted(utxos) ==
    LET places == 1..Len(utxos)
        upTo(a) == Cardinality({i \in places : utxos[i] <= a})
    IN  [k \in places |-> Least({a \in {utxos[i] : i \in places} : upTo(a) >= k})]

Slice(sorted, size, i) == SubSeq(sorted, i, i + size - 1)

-------------------------------------------------------------------------------
(* Mutant: the sum runs one output beyond the slice. *)
EnoughWithNext(sorted, size, total) ==
    {i \in 1..(Len(sorted) - size) : Total(Slice(sorted, size + 1, i)) >= total}

(* The places in the sorted list at which a slice of this size has at least *)
(* the given total.                                                         *)
Enough(sorted, size, total) ==
    {i \in 1..(Len(sorted) - size + 1) : Total(Slice(sorted, size, i)) >= total}

(* The sizes for which there is such a slice. *)
Sizes(sorted, needed) ==
    {size \in 1..Len(sorted) : Enough(sorted, size, needed[size]) # {}}

Distance(a, b) == IF a > b THEN a - b ELSE b - a

(* select(): the sets of outputs it may return, as std::sort may leave any  *)
(* of several slices that are equally close to twice the target in front.   *)
Select(utxos, target, byteFee, outputs) ==
    LET sorted == Sorted(utxos)
        withFee == [size \in 1..Len(sorted) |-> target + Calculate(size, outputs, byteFee)]
        withFeeAndDust == [size \in 1..Len(sorted) |-> withFee[size] + SingleInput(byteFee)]
        far(size, i) == Distance(Total(Slice(sorted, size, i)), 2 * target)
        clean == Sizes(sorted, withFeeAndDust)
        dusty == Sizes(sorted, withFee)
    IN  IF target = 0 \/ Total(utxos) < target THEN {<<>>}
        ELSE IF clean # {} THEN
            LET size == Least(clean)
                enough == Enough(sorted, size, withFeeAndDust[size])
            IN  {FilterOutDust(Slice(sorted, size, i), byteFee) :
                    i \in {j \in enough : \A k \in enough : far(size, j) <= far(size, k)}}
        ELSE IF dusty # {} THEN
            LET size == Least(dusty)
                first == Least(Enough(sorted, size, withFee[size]))
            IN  {FilterOutDust(Slice(sorted, size, first), byteFee)}
        ELSE {<<>>}

(* selectSimple(): the outputs above dust in the order they come, until     *)
(* they hold a tenth more than the target, the fee of all and 1000.         *)
SelectSimple(utxos, target, byteFee, outputs) ==
    LET worthy == FilterOutDust(utxos, byteFee)
        increased == (target * 11) \div 10 + Calculate(Len(utxos), outputs, byteFee) + 1000
        reached == {i \in 1..Len(worthy) : Total(SubSeq(worthy, 1, i)) >= increased}
    IN  IF target = 0 \/ reached = {} THEN <<>> ELSE SubSeq(worthy, 1, Least(reached))

SelectMaxAmount(utxos, byteFee) == FilterOutDust(utxos, byteFee)
================================================================================
