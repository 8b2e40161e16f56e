--------------------------- MODULE NeoTransfer_proof ---------------------------
(***************************************************************************)
(* What the plan and the signed transaction of a NEO transfer are worth,   *)
(* for any assets, requests and sizes.                                     *)
(***************************************************************************)
EXTENDS NeoTransfer, ListInduction, SequenceTheorems

-------------------------------------------------------------------------------
(* What a list holds of an asset.                                           *)

Worth(coin, asset) == IF coin.asset = asset THEN coin.value ELSE 0

HeldSums(coins, asset, sum) ==
    /\ sum \in [0..Len(coins) -> Nat]
    /\ sum[0] = 0
    /\ \A i \in 1..Len(coins) : sum[i] = sum[i - 1] + Worth(coins[i], asset)

LEMMA CoinOf ==
    ASSUME NEW coins \in Seq(Input), NEW asset
    PROVE  /\ Len(coins) \in Nat
           /\ \A i \in 1..Len(coins) :
                coins[i] \in Input /\ Worth(coins[i], asset) \in Nat
<1>1. \A i \in 1..Len(coins) : coins[i] \in Input
  OBVIOUS
<1> QED
  BY <1>1 DEF Worth, Input

(* Held is the last of the partial sums.                                    *)
LEMMA HeldIsSum ==
    ASSUME NEW coins \in Seq(Input), NEW asset
    PROVE  \E sum : HeldSums(coins, asset, sum) /\ Held(coins, asset) = sum[Len(coins)]
<1> DEFINE n == Len(coins)
           Add(i) == IF coins[i].asset = asset THEN coins[i].value ELSE 0
           Is(f) == f = [i \in 0..n |-> IF i = 0 THEN 0 ELSE f[i - 1] + Add(i)]
           F == [i \in 1..n |-> [x \in Nat |-> x + Add(i)]]
<1>1. n \in Nat /\ \A i \in 1..n : Add(i) \in Nat /\ Add(i) = Worth(coins[i], asset)
  BY CoinOf DEF Worth
<1> HIDE DEF Add
<1>2. F \in [1..n -> [Nat -> Nat]]
  BY <1>1
<1>3. PICK f : Solves(f, n, Nat, 0, F)
  <2> HIDE DEF F
  <2> QED
    BY <1>1, <1>2, Recursion
<1>4. Is(f)
  <2>1. ASSUME NEW i \in 1..n
        PROVE  f[i] = f[i - 1] + Add(i)
    <3>1. i - 1 \in 0..n
      BY <1>1
    <3>2. f[i - 1] \in Nat /\ f[i] = F[i][f[i - 1]]
      <4> HIDE DEF F
      <4> QED
        BY <1>3, <3>1 DEF Solves
    <3> QED
      BY <3>1, <3>2
  <2>2. f = [i \in 0..n |-> f[i]]
    BY <1>3 DEF Solves
  <2>3. \A i \in 0..n : f[i] = IF i = 0 THEN 0 ELSE f[i - 1] + Add(i)
    BY <2>1, <1>1, <1>3 DEF Solves
  <2> QED
    BY <2>2, <2>3
<1> DEFINE sum == CHOOSE g : Is(g)
<1>5. Is(sum)
  BY <1>4
<1>6. Held(coins, asset) = sum[n]
  BY DEF Held, Add
<1> HIDE DEF sum
<1>7. sum[0] = 0 /\ \A i \in 1..n : sum[i] = sum[i - 1] + Add(i)
  <2>1. \A i \in 0..n : sum[i] = IF i = 0 THEN 0 ELSE sum[i - 1] + Add(i)
    BY <1>5
  <2> QED
    BY <1>1, <2>1
<1>8. \A i \in 0..n : sum[i] \in Nat
  <2> DEFINE G == {i \in 0..n : sum[i] \in Nat}
  <2>1. 0 \in G /\ G \subseteq 0..n
    BY <1>7, <1>1
  <2>2. \A i \in 1..n : i - 1 \in G => i \in G
    BY <1>7, <1>1
  <2>3. G = 0..n
    <3> HIDE DEF G
    <3> QED
      BY <2>1, <2>2, <1>1, UpTo
  <2> QED
    BY <2>3
<1>9. sum \in [0..n -> Nat]
  <2>1. sum = [i \in 0..n |-> sum[i]]
    BY <1>5
  <2> QED
    BY <2>1, <1>8
<1> QED
  BY <1>1, <1>6, <1>7, <1>9 DEF HeldSums

LEMMA HeldType ==
    ASSUME NEW coins \in Seq(Input), NEW asset
    PROVE  Held(coins, asset) \in Nat
BY HeldIsSum, CoinOf DEF HeldSums

LEMMA HeldEmpty ==
    ASSUME NEW asset
    PROVE  Held(<<>>, asset) = 0
<1>1. <<>> \in Seq(Input) /\ Len(<<>>) = 0
  BY EmptySeq
<1> QED
  BY <1>1, HeldIsSum DEF HeldSums

(* What each further coin adds.                                             *)
LEMMA HeldAppend ==
    ASSUME NEW coins \in Seq(Input), NEW coin \in Input, NEW asset
    PROVE  Held(Append(coins, coin), asset) = Held(coins, asset) + Worth(coin, asset)
<1> DEFINE more == Append(coins, coin)
           n == Len(coins)
<1>1. /\ more \in Seq(Input) /\ n \in Nat /\ Len(more) = n + 1
      /\ more[n + 1] = coin /\ \A i \in 1..n : more[i] = coins[i]
  BY AppendProperties, CoinOf
<1> HIDE DEF more, n
<1>2. PICK f : HeldSums(coins, asset, f) /\ Held(coins, asset) = f[n]
  BY HeldIsSum DEF n
<1>3. PICK g : HeldSums(more, asset, g) /\ Held(more, asset) = g[n + 1]
  BY <1>1, HeldIsSum
<1> DEFINE G == {i \in 0..n : f[i] = g[i]}
<1>4. 0 \in G /\ G \subseteq 0..n
  BY <1>1, <1>2, <1>3 DEF HeldSums
<1>5. ASSUME NEW i \in 1..n, i - 1 \in G
      PROVE  i \in G
  <2>1. f[i] = f[i - 1] + Worth(coins[i], asset)
    BY <1>2 DEF HeldSums, n
  <2>2. g[i] = g[i - 1] + Worth(more[i], asset)
    BY <1>1, <1>3 DEF HeldSums
  <2> QED
    BY <1>1, <1>5, <2>1, <2>2
<1>6. n \in G
  <2>1. G = 0..n
    <3> HIDE DEF G
    <3> QED
      BY <1>1, <1>4, <1>5, UpTo
  <2> QED
    BY <1>1, <2>1
<1>7. g[n + 1] = g[n] + Worth(coin, asset)
  <2>1. n + 1 \in 1..Len(more) /\ (n + 1) - 1 = n
    BY <1>1
  <2>2. g[n + 1] = g[(n + 1) - 1] + Worth(more[n + 1], asset)
    BY <1>3, <2>1 DEF HeldSums
  <2> QED
    BY <1>1, <2>1, <2>2
<1> QED
  BY <1>2, <1>3, <1>6, <1>7 DEF more

(* A list without a coin of an asset holds nothing of it.                   *)
LEMMA HeldNone ==
    ASSUME NEW coins \in Seq(Input), NEW asset, ~Has(coins, asset)
    PROVE  Held(coins, asset) = 0
<1> DEFINE n == Len(coins)
<1>1. PICK sum : HeldSums(coins, asset, sum) /\ Held(coins, asset) = sum[n]
  BY HeldIsSum
<1>2. n \in Nat
  BY CoinOf
<1> DEFINE G == {i \in 0..n : sum[i] = 0}
<1>3. 0 \in G /\ G \subseteq 0..n
  BY <1>1, <1>2 DEF HeldSums
<1>4. ASSUME NEW i \in 1..n, i - 1 \in G
      PROVE  i \in G
  <2>1. sum[i] = sum[i - 1] + Worth(coins[i], asset)
    BY <1>1 DEF HeldSums
  <2>2. Worth(coins[i], asset) = 0
    BY DEF Has, Worth
  <2> QED
    BY <1>4, <2>1, <2>2
<1>5. G = 0..n
  <2> HIDE DEF G, n
  <2> QED
    BY <1>2, <1>3, <1>4, UpTo
<1> QED
  BY <1>1, <1>2, <1>5

-------------------------------------------------------------------------------
(* Selection.                                                               *)

LEMMA RequestParts ==
    ASSUME NEW r \in Requests
    PROVE  /\ r.inputs \in Seq(Input) /\ Len(r.inputs) \in Nat
           /\ r.outputs \in Seq(Output) /\ Len(r.outputs) \in Nat
           /\ r.fee \in Nat
           /\ r.valid \in BOOLEAN
           /\ \A i \in 1..Len(r.inputs) : r.inputs[i] \in Input
           /\ \A i \in 1..Len(r.outputs) : r.outputs[i] \in Output
BY NeoAssumption, LenProperties, ElementOfSeq

(* What has been taken after each input of the request.                     *)
Taken(r, taken) ==
    /\ taken \in [0..Len(r.inputs) -> Seq(Input)]
    /\ taken[0] = <<>>
    /\ \A i \in 1..Len(r.inputs) :
          taken[i] = IF Enough(r, taken[i - 1], r.inputs[i].asset)
                     THEN taken[i - 1]
                     ELSE Append(taken[i - 1], r.inputs[i])

LEMMA SelectedSteps ==
    ASSUME NEW r \in Requests
    PROVE  \E taken : Taken(r, taken) /\ Selected(r) = taken[Len(r.inputs)]
<1> DEFINE n == Len(r.inputs)
           Step(i, x) == IF Enough(r, x, r.inputs[i].asset) THEN x ELSE Append(x, r.inputs[i])
           Is(f) == f = [i \in 0..n |-> IF i = 0 THEN <<>> ELSE Step(i, f[i - 1])]
           F == [i \in 1..n |-> [x \in Seq(Input) |-> Step(i, x)]]
<1>1. n \in Nat /\ \A i \in 1..n : r.inputs[i] \in Input
  BY RequestParts
<1>2. \A i \in 1..n : \A x \in Seq(Input) : Step(i, x) \in Seq(Input)
  BY <1>1, AppendProperties
<1>3. F \in [1..n -> [Seq(Input) -> Seq(Input)]]
  <2> HIDE DEF Step
  <2> QED
    BY <1>2
<1>4. PICK f : Solves(f, n, Seq(Input), <<>>, F)
  <2>1. <<>> \in Seq(Input)
    BY EmptySeq
  <2> HIDE DEF F
  <2> QED
    BY <1>1, <1>3, <2>1, Recursion
<1>5. Is(f)
  <2> HIDE DEF Step
  <2>1. ASSUME NEW i \in 1..n
        PROVE  f[i] = Step(i, f[i - 1])
    <3>1. i - 1 \in 0..n
      BY <1>1
    <3>2. f[i - 1] \in Seq(Input) /\ f[i] = F[i][f[i - 1]]
      <4> HIDE DEF F
      <4> QED
        BY <1>4, <3>1 DEF Solves
    <3> QED
      BY <3>1, <3>2
  <2>2. f = [i \in 0..n |-> f[i]]
    BY <1>4 DEF Solves
  <2>3. \A i \in 0..n : f[i] = IF i = 0 THEN <<>> ELSE Step(i, f[i - 1])
    BY <2>1, <1>1, <1>4 DEF Solves
  <2> QED
    BY <2>2, <2>3
<1> DEFINE taken == CHOOSE g : Is(g)
<1>6. Is(taken)
  BY <1>5
<1>7. Selected(r) = taken[n]
  BY DEF Selected
<1> HIDE DEF taken
<1>8. taken[0] = <<>> /\ \A i \in 1..n : taken[i] = Step(i, taken[i - 1])
  <2> HIDE DEF Step
  <2>1. \A i \in 0..n : taken[i] = IF i = 0 THEN <<>> ELSE Step(i, taken[i - 1])
    BY <1>6
  <2> QED
    BY <1>1, <2>1
<1>9. \A i \in 0..n : taken[i] \in Seq(Input)
  <2> DEFINE G == {i \in 0..n : taken[i] \in Seq(Input)}
  <2> HIDE DEF Step
  <2>1. 0 \in G /\ G \subseteq 0..n
    <3>1. taken[0] \in Seq(Input)
      BY <1>8, EmptySeq, Zenon
    <3> QED
      BY <1>1, <3>1
  <2>2. \A i \in 1..n : i - 1 \in G => i \in G
    BY <1>8, <1>1, <1>2
  <2>3. G = 0..n
    <3> HIDE DEF G
    <3> QED
      BY <2>1, <2>2, <1>1, UpTo
  <2> QED
    BY <2>3
<1>10. taken \in [0..n -> Seq(Input)]
  <2> HIDE DEF Step
  <2>1. taken = [i \in 0..n |-> taken[i]]
    BY <1>6
  <2> QED
    BY <2>1, <1>9
<1> QED
  BY <1>7, <1>8, <1>10 DEF Taken

LEMMA SelectedType ==
    ASSUME NEW r \in Requests
    PROVE  Selected(r) \in Seq(Input)
BY SelectedSteps, RequestParts DEF Taken

(* Each input of an asset that is not GAS was needed when it was taken.     *)
Needed(r, inputs) ==
    \A n \in 1..Len(inputs) :
        LET a == inputs[n].asset
            before == SubSeq(inputs, 1, n - 1)
        IN  a # Gas /\ Has(before, a) => Held(before, a) <= Required(r, a)

LEMMA AppendNeeded ==
    ASSUME NEW r, NEW inputs \in Seq(Input), NEW coin \in Input, Needed(r, inputs),
           ~Enough(r, inputs, coin.asset), Required(r, coin.asset) \in Nat
    PROVE  Needed(r, Append(inputs, coin))
<1> DEFINE more == Append(inputs, coin)
<1>1. /\ more \in Seq(Input) /\ Len(inputs) \in Nat /\ Len(more) = Len(inputs) + 1
      /\ more[Len(inputs) + 1] = coin /\ \A i \in 1..Len(inputs) : more[i] = inputs[i]
  BY AppendProperties, CoinOf
<1>2. \A n \in 1..Len(more) : SubSeq(more, 1, n - 1) = SubSeq(inputs, 1, n - 1)
  OBVIOUS
<1>3. SubSeq(inputs, 1, Len(inputs)) = inputs
  BY SubSeqFull
<1> HIDE DEF more
<1>4. ASSUME NEW n \in 1..Len(more), more[n].asset # Gas,
             Has(SubSeq(more, 1, n - 1), more[n].asset)
      PROVE  Held(SubSeq(more, 1, n - 1), more[n].asset) <= Required(r, more[n].asset)
  <2>1. CASE n \in 1..Len(inputs)
    BY <1>1, <1>2, <1>4, <2>1 DEF Needed
  <2>2. CASE n = Len(inputs) + 1
    <3>1. SubSeq(more, 1, n - 1) = inputs /\ more[n] = coin
      BY <1>1, <1>2, <1>3, <2>2
    <3>2. ~(Required(r, coin.asset) < Held(inputs, coin.asset))
      BY <1>4, <3>1 DEF Enough
    <3>3. Held(inputs, coin.asset) \in Nat
      BY HeldType
    <3>4. Held(inputs, coin.asset) <= Required(r, coin.asset)
      BY <3>2, <3>3
    <3> QED
      BY <3>1, <3>4, Zenon
  <2> QED
    BY <1>1, <2>1, <2>2
<1> QED
  BY <1>4 DEF Needed, more

LEMMA LargestOf ==
    ASSUME NEW n \in Nat, NEW S, S \subseteq 1..n, S # {}
    PROVE  \E i \in S : \A j \in S : j <= i
<1> DEFINE Above == {m \in Nat : \A j \in S : j <= m}
<1>1. n \in Above
  OBVIOUS
<1>2. PICK m \in Above : \A k \in Above : m <= k
  <2>1. Above \subseteq Nat /\ Above # {}
    BY <1>1
  <2> HIDE DEF Above
  <2> QED
    BY <2>1, LeastNumber
<1>3. m \in S
  <2>1. ASSUME m \notin S PROVE FALSE
    <3>1. PICK j \in S : TRUE
      OBVIOUS
    <3>2. m # 0 /\ m \in Nat
      BY <1>2, <2>1, <3>1
    <3>3. m - 1 \in Above
      BY <1>2, <2>1, <3>2
    <3> QED
      BY <1>2, <3>2, <3>3
  <2> QED
    BY <2>1
<1> QED
  BY <1>2, <1>3

LEMMA RequiredType ==
    ASSUME NEW r \in Requests, NEW asset
    PROVE  Required(r, asset) \in Nat
<1> DEFINE S == OutputsOf(r, asset)
<1>1. S \subseteq 1..Len(r.outputs) /\ Len(r.outputs) \in Nat
  BY RequestParts DEF OutputsOf
<1> HIDE DEF S
<1>2. CASE S = {}
  BY <1>2 DEF Required, S
<1>3. CASE S # {}
  <2> DEFINE last == CHOOSE i \in S : \A j \in S : j <= i
  <2>1. last \in S
    BY <1>1, <1>3, LargestOf
  <2>2. Required(r, asset) = r.outputs[last].amount
    BY <1>3 DEF Required, S
  <2> HIDE DEF last
  <2>3. r.outputs[last] \in Output
    BY <1>1, <2>1, RequestParts
  <2> QED
    BY <2>2, <2>3 DEF Output
<1> QED
  BY <1>2, <1>3

(* What an asset that has one output requires is the amount of that output. *)
LEMMA RequiredOfOne ==
    ASSUME NEW r \in Requests, NEW asset, NEW i \in 1..Len(r.outputs),
           OutputsOf(r, asset) = {i}
    PROVE  Required(r, asset) = r.outputs[i].amount
<1>1. (CHOOSE j \in {i} : \A k \in {i} : k <= j) = i
  BY RequestParts
<1> QED
  BY <1>1 DEF Required

LEMMA SelectedNeeded ==
    ASSUME NEW r \in Requests
    PROVE  Needed(r, Selected(r))
<1> DEFINE n == Len(r.inputs)
<1>1. PICK taken : Taken(r, taken) /\ Selected(r) = taken[n]
  BY SelectedSteps
<1>2. n \in Nat /\ \A i \in 1..n : r.inputs[i] \in Input
  BY RequestParts
<1> DEFINE G == {i \in 0..n : Needed(r, taken[i])}
<1>3. 0 \in G /\ G \subseteq 0..n
  BY <1>1, <1>2 DEF Taken, Needed
<1>4. ASSUME NEW i \in 1..n, i - 1 \in G
      PROVE  i \in G
  <2>1. taken[i - 1] \in Seq(Input) /\ Needed(r, taken[i - 1])
    BY <1>1, <1>4 DEF Taken
  <2>2. taken[i] = IF Enough(r, taken[i - 1], r.inputs[i].asset)
                   THEN taken[i - 1] ELSE Append(taken[i - 1], r.inputs[i])
    BY <1>1 DEF Taken
  <2>3. Needed(r, taken[i])
    BY <1>2, <2>1, <2>2, AppendNeeded, RequiredType
  <2> QED
    BY <2>3
<1>5. G = 0..n
  <2> HIDE DEF G, n
  <2> QED
    BY <1>2, <1>3, <1>4, UpTo
<1> QED
  BY <1>1, <1>2, <1>5

(* Of GAS nothing is left out, nor of an asset of which not more than is    *)
(* required was taken.                                                      *)
LEMMA SelectedHolds ==
    ASSUME NEW r \in Requests, NEW asset
    PROVE  \/ Held(Selected(r), asset) = Held(r.inputs, asset)
           \/ asset # Gas /\ Required(r, asset) < Held(Selected(r), asset)
<1> DEFINE n == Len(r.inputs)
           More(k) == asset # Gas /\ Required(r, asset) < k
<1>1. PICK taken : Taken(r, taken) /\ Selected(r) = taken[n]
  BY SelectedSteps
<1>2. n \in Nat /\ r.inputs \in Seq(Input) /\ \A i \in 1..n : r.inputs[i] \in Input
  BY RequestParts
<1>3. PICK sum : HeldSums(r.inputs, asset, sum) /\ Held(r.inputs, asset) = sum[n]
  BY <1>2, HeldIsSum
<1> DEFINE Held_(i) == Held(taken[i], asset)
           G == {i \in 0..n : Held_(i) = sum[i] \/ More(Held_(i))}
<1>4. 0 \in G /\ G \subseteq 0..n
  BY <1>1, <1>2, <1>3, HeldEmpty DEF Taken, HeldSums
<1>5. ASSUME NEW i \in 1..n, i - 1 \in G
      PROVE  i \in G
  <2>1. i - 1 \in 0..n
    BY <1>2
  <2>2. taken[i - 1] \in Seq(Input) /\ Held_(i - 1) \in Nat /\ sum[i - 1] \in Nat
    BY <1>1, <1>3, <2>1, HeldType DEF Taken, HeldSums
  <2>3. sum[i] = sum[i - 1] + Worth(r.inputs[i], asset)
    BY <1>3 DEF HeldSums
  <2>4. Worth(r.inputs[i], asset) \in Nat /\ Required(r, asset) \in Nat
    BY <1>2, CoinOf, RequiredType
  <2>5. CASE ~Enough(r, taken[i - 1], r.inputs[i].asset)
    <3>1. taken[i] = Append(taken[i - 1], r.inputs[i])
      BY <1>1, <2>5 DEF Taken
    <3>2. Held_(i) = Held_(i - 1) + Worth(r.inputs[i], asset)
      BY <1>2, <2>2, <3>1, HeldAppend
    <3> QED
      BY <1>5, <2>2, <2>3, <2>4, <3>2
  <2>6. CASE Enough(r, taken[i - 1], r.inputs[i].asset)
    <3>1. taken[i] = taken[i - 1]
      BY <1>1, <2>6 DEF Taken
    <3>2. CASE r.inputs[i].asset = asset
      BY <2>6, <3>1, <3>2 DEF Enough
    <3>3. CASE r.inputs[i].asset # asset
      BY <1>5, <2>2, <2>3, <3>1, <3>3 DEF Worth
    <3> QED
      BY <3>2, <3>3
  <2> QED
    BY <2>5, <2>6
<1>6. n \in G
  <2>1. G = 0..n
    <3> HIDE DEF G, n
    <3> QED
      BY <1>2, <1>4, <1>5, UpTo
  <2> QED
    BY <1>2, <2>1
<1> QED
  BY <1>1, <1>3, <1>6

-------------------------------------------------------------------------------
(* The outputs of the transaction.                                          *)

(* An output of the plan that pays something pays it of an asset.           *)
Payable == {out \in OutputPlan :
                out.asset \in Assets \/ (out.amount = 0 /\ out.change = 0)}

Positive(amount) == IF amount > 0 THEN amount ELSE 0

LEMMA PayableParts ==
    ASSUME NEW out \in Payable
    PROVE  /\ out.amount \in Nat /\ out.change \in Int /\ out.available \in Int
           /\ out.amount > 0 => out.asset \in Assets
           /\ out.change > 0 => out.asset \in Assets
BY DEF Payable, OutputPlan

(* What a list paid out of an output, with one more amount, is worth.       *)
PaysMore(more, coins, out, amount, asset) ==
    /\ more \in Seq(Input)
    /\ Len(more) = Len(coins) + (IF amount > 0 THEN 1 ELSE 0)
    /\ Held(more, asset)
         = Held(coins, asset) + (IF out.asset = asset THEN Positive(amount) ELSE 0)

LEMMA PaidType ==
    ASSUME NEW coins \in Seq(Input), NEW out, NEW amount \in Int,
           amount > 0 => out.asset \in Assets, NEW asset
    PROVE  PaysMore(coins \o Paid(out, amount), coins, out, amount, asset)
<1>1. Len(coins) \in Nat /\ Held(coins, asset) \in Nat
  BY CoinOf, HeldType
<1>2. CASE amount > 0
  <2> DEFINE coin == [asset |-> out.asset, value |-> amount]
  <2>1. coin \in Input /\ Worth(coin, asset) = IF out.asset = asset THEN amount ELSE 0
    BY <1>2 DEF Input, Worth
  <2>2. Paid(out, amount) = <<coin>>
    BY <1>2 DEF Paid
  <2> HIDE DEF coin
  <2>3. coins \o <<coin>> = Append(coins, coin)
    BY <2>1, AppendIsConcat
  <2>4. Append(coins, coin) \in Seq(Input) /\ Len(Append(coins, coin)) = Len(coins) + 1
    BY <2>1, AppendProperties
  <2>5. Held(Append(coins, coin), asset) = Held(coins, asset) + Worth(coin, asset)
    BY <2>1, HeldAppend
  <2>6. coins \o Paid(out, amount) = Append(coins, coin)
    BY <2>2, <2>3, Zenon
  <2> HIDE DEF Paid
  <2>7. Worth(coin, asset) = IF out.asset = asset THEN Positive(amount) ELSE 0
    BY <1>2, <2>1 DEF Positive
  <2> QED
    BY <1>2, <2>4, <2>5, <2>6, <2>7 DEF PaysMore
<1>3. CASE ~(amount > 0)
  <2>1. coins \o Paid(out, amount) = coins
    BY <1>3, ConcatEmptySeq DEF Paid
  <2> QED
    BY <1>1, <1>3, <2>1 DEF Positive, PaysMore
<1> QED
  BY <1>2, <1>3

PaidNext(coins, out) == coins \o Paid(out, out.amount) \o Paid(out, out.change)

PaidBy(out) == (IF out.amount > 0 THEN 1 ELSE 0) + (IF out.change > 0 THEN 1 ELSE 0)

PaidOf(out, asset) ==
    IF out.asset = asset THEN Positive(out.amount) + Positive(out.change) ELSE 0

LEMMA PaidNextType ==
    ASSUME NEW coins \in Seq(Input), NEW out \in Payable, NEW asset
    PROVE  /\ PaidNext(coins, out) \in Seq(Input)
           /\ Len(PaidNext(coins, out)) = Len(coins) + PaidBy(out)
           /\ Held(PaidNext(coins, out), asset) = Held(coins, asset) + PaidOf(out, asset)
<1> DEFINE first == coins \o Paid(out, out.amount)
<1>1. /\ out.amount \in Int /\ out.change \in Int
      /\ out.amount > 0 => out.asset \in Assets
      /\ out.change > 0 => out.asset \in Assets
  BY PayableParts
<1>2. PaysMore(first, coins, out, out.amount, asset)
  BY <1>1, PaidType
<1> HIDE DEF first
<1> DEFINE both == first \o Paid(out, out.change)
<1>3. PaysMore(both, first, out, out.change, asset)
  <2>1. first \in Seq(Input)
    BY <1>2 DEF PaysMore
  <2> QED
    BY <1>1, <2>1, PaidType
<1>4. PaidNext(coins, out) = both
  BY DEF PaidNext, first
<1> HIDE DEF both
<1>5. Held(coins, asset) \in Nat /\ Len(coins) \in Nat
  BY HeldType, CoinOf
<1>6. Len(both) = Len(coins) + PaidBy(out)
  <2>1. Len(first) = Len(coins) + (IF out.amount > 0 THEN 1 ELSE 0)
    BY <1>2, Zenon DEF PaysMore
  <2>2. Len(both) = Len(first) + (IF out.change > 0 THEN 1 ELSE 0)
    BY <1>3, Zenon DEF PaysMore
  <2> DEFINE one == IF out.amount > 0 THEN 1 ELSE 0
             two == IF out.change > 0 THEN 1 ELSE 0
  <2>3. one \in Nat /\ two \in Nat /\ PaidBy(out) = one + two
    BY DEF PaidBy
  <2> HIDE DEF one, two
  <2>4. Len(first) = Len(coins) + one
    BY <2>1 DEF one
  <2>5. Len(both) = Len(first) + two
    BY <2>2 DEF two
  <2> QED
    BY <1>5, <2>3, <2>4, <2>5
<1>7. Held(both, asset)
        = Held(coins, asset) + PaidOf(out, asset)
  <2>1. Positive(out.amount) \in Nat /\ Positive(out.change) \in Nat
    BY <1>1 DEF Positive
  <2> QED
    BY <1>2, <1>3, <1>5, <2>1 DEF PaysMore, PaidOf
<1>8. both \in Seq(Input)
  BY <1>3 DEF PaysMore
<1> QED
  BY <1>4, <1>6, <1>7, <1>8, Zenon

(* What has been paid after each output of the plan.                        *)
PaidLists(outs, paid) ==
    /\ paid \in [0..Len(outs) -> Seq(Input)]
    /\ paid[0] = <<>>
    /\ \A i \in 1..Len(outs) : paid[i] = PaidNext(paid[i - 1], outs[i])

LEMMA PaidSteps ==
    ASSUME NEW outs \in Seq(Payable)
    PROVE  \E paid : PaidLists(outs, paid) /\ PaidOutputs(outs) = paid[Len(outs)]
<1> DEFINE n == Len(outs)
           Step(i, x) == x \o Paid(outs[i], outs[i].amount) \o Paid(outs[i], outs[i].change)
           Is(f) == f = [i \in 0..n |-> IF i = 0 THEN <<>> ELSE Step(i, f[i - 1])]
           F == [i \in 1..n |-> [x \in Seq(Input) |-> Step(i, x)]]
<1>1. n \in Nat /\ \A i \in 1..n : outs[i] \in Payable
  BY LenProperties, ElementOfSeq
<1>2. \A i \in 1..n : \A x \in Seq(Input) :
        Step(i, x) \in Seq(Input) /\ Step(i, x) = PaidNext(x, outs[i])
  BY <1>1, PaidNextType DEF PaidNext
<1>3. F \in [1..n -> [Seq(Input) -> Seq(Input)]]
  <2> HIDE DEF Step
  <2> QED
    BY <1>2
<1>4. PICK f : Solves(f, n, Seq(Input), <<>>, F)
  <2>1. <<>> \in Seq(Input)
    BY EmptySeq
  <2> HIDE DEF F
  <2> QED
    BY <1>1, <1>3, <2>1, Recursion
<1>5. Is(f)
  <2> HIDE DEF Step
  <2>1. ASSUME NEW i \in 1..n
        PROVE  f[i] = Step(i, f[i - 1])
    <3>1. i - 1 \in 0..n
      BY <1>1
    <3>2. f[i - 1] \in Seq(Input) /\ f[i] = F[i][f[i - 1]]
      <4> HIDE DEF F
      <4> QED
        BY <1>4, <3>1 DEF Solves
    <3> QED
      BY <3>1, <3>2
  <2>2. f = [i \in 0..n |-> f[i]]
    BY <1>4 DEF Solves
  <2>3. \A i \in 0..n : f[i] = IF i = 0 THEN <<>> ELSE Step(i, f[i - 1])
    BY <2>1, <1>1, <1>4 DEF Solves
  <2> QED
    BY <2>2, <2>3
<1> DEFINE paid == CHOOSE g : Is(g)
<1>6. Is(paid)
  BY <1>5
<1>7. PaidOutputs(outs) = paid[n]
  BY DEF PaidOutputs
<1> HIDE DEF paid
<1> HIDE DEF Step
<1>8. paid[0] = <<>> /\ \A i \in 1..n : paid[i] = Step(i, paid[i - 1])
  <2>1. \A i \in 0..n : paid[i] = IF i = 0 THEN <<>> ELSE Step(i, paid[i - 1])
    BY <1>6
  <2> QED
    BY <1>1, <2>1
<1>9. \A i \in 0..n : paid[i] \in Seq(Input)
  <2> DEFINE G == {i \in 0..n : paid[i] \in Seq(Input)}
  <2>1. 0 \in G /\ G \subseteq 0..n
    <3>1. paid[0] \in Seq(Input)
      BY <1>8, EmptySeq, Zenon
    <3> QED
      BY <1>1, <3>1
  <2>2. \A i \in 1..n : i - 1 \in G => i \in G
    BY <1>8, <1>1, <1>2
  <2>3. G = 0..n
    <3> HIDE DEF G
    <3> QED
      BY <2>1, <2>2, <1>1, UpTo
  <2> QED
    BY <2>3
<1>10. paid \in [0..n -> Seq(Input)]
  <2>1. paid = [i \in 0..n |-> paid[i]]
    BY <1>6
  <2> QED
    BY <2>1, <1>9
<1>11. \A i \in 1..n : paid[i] = PaidNext(paid[i - 1], outs[i])
  <2>1. \A i \in 1..n : i - 1 \in 0..n
    BY <1>1
  <2> QED
    BY <2>1, <1>2, <1>8, <1>9
<1> QED
  BY <1>7, <1>8, <1>10, <1>11 DEF PaidLists

LEMMA PaidOutputsType ==
    ASSUME NEW outs \in Seq(Payable)
    PROVE  PaidOutputs(outs) \in Seq(Input)
BY PaidSteps, LenProperties DEF PaidLists

(* An asset of one output of the plan is paid by that output alone.         *)
LEMMA PaidOfOne ==
    ASSUME NEW outs \in Seq(Payable), NEW i \in 1..Len(outs),
           \A j \in 1..Len(outs) : outs[j].asset = outs[i].asset => j = i
    PROVE  Held(PaidOutputs(outs), outs[i].asset)
             = Positive(outs[i].amount) + Positive(outs[i].change)
<1> DEFINE n == Len(outs)
           a == outs[i].asset
           all == Positive(outs[i].amount) + Positive(outs[i].change)
<1>1. PICK paid : PaidLists(outs, paid) /\ PaidOutputs(outs) = paid[n]
  BY PaidSteps
<1>2. n \in Nat /\ i \in 1..n /\ \A k \in 1..n : outs[k] \in Payable
  BY LenProperties, ElementOfSeq
<1>3. all \in Nat
  BY <1>2, PayableParts DEF Positive
<1> HIDE DEF all
<1> DEFINE G == {k \in 0..n : Held(paid[k], a) = IF k < i THEN 0 ELSE all}
<1>4. 0 \in G /\ G \subseteq 0..n
  BY <1>1, <1>2, HeldEmpty DEF PaidLists
<1>5. ASSUME NEW k \in 1..n, k - 1 \in G
      PROVE  k \in G
  <2>1. paid[k - 1] \in Seq(Input) /\ paid[k] = PaidNext(paid[k - 1], outs[k])
    BY <1>1, <1>5 DEF PaidLists
  <2>2. Held(paid[k], a) = Held(paid[k - 1], a) + PaidOf(outs[k], a)
    <3>1. outs[k] \in Payable
      BY <1>2
    <3> HIDE DEF a
    <3>2. Held(PaidNext(paid[k - 1], outs[k]), a)
            = Held(paid[k - 1], a) + PaidOf(outs[k], a)
      BY <2>1, <3>1, PaidNextType
    <3> QED
      BY <2>1, <3>2
  <2>3. CASE k = i
    BY <1>2, <1>3, <1>5, <2>2, <2>3 DEF all, PaidOf
  <2>4. CASE k # i
    <3>1. outs[k].asset # a
      BY <2>4
    <3>2. k - 1 < i <=> k < i
      BY <1>2, <2>4
    <3> QED
      BY <1>2, <1>3, <1>5, <2>2, <3>1, <3>2 DEF PaidOf
  <2> QED
    BY <2>3, <2>4
<1>6. n \in G
  <2>1. G = 0..n
    <3> HIDE DEF G, n
    <3> QED
      BY <1>2, <1>4, <1>5, UpTo
  <2> QED
    BY <1>2, <2>1
<1> QED
  BY <1>1, <1>2, <1>6 DEF all

(* Outputs with less change are paid with no more outputs.                  *)
LEMMA PaidLess ==
    ASSUME NEW outs \in Seq(Payable), NEW less \in Seq(Payable), Len(less) = Len(outs),
           \A i \in 1..Len(outs) :
              less[i].amount = outs[i].amount /\ less[i].change <= outs[i].change
    PROVE  Len(PaidOutputs(less)) <= Len(PaidOutputs(outs))
<1> DEFINE n == Len(outs)
<1>1. PICK f : PaidLists(outs, f) /\ PaidOutputs(outs) = f[n]
  BY PaidSteps
<1>2. PICK g : PaidLists(less, g) /\ PaidOutputs(less) = g[n]
  BY PaidSteps
<1>3. n \in Nat /\ \A k \in 1..n : outs[k] \in Payable /\ less[k] \in Payable
  BY LenProperties, ElementOfSeq
<1> DEFINE G == {k \in 0..n : Len(g[k]) <= Len(f[k])}
<1>4. 0 \in G /\ G \subseteq 0..n
  BY <1>1, <1>2, <1>3 DEF PaidLists
<1>5. ASSUME NEW k \in 1..n, k - 1 \in G
      PROVE  k \in G
  <2>1. f[k - 1] \in Seq(Input) /\ f[k] = PaidNext(f[k - 1], outs[k])
    BY <1>1, <1>5 DEF PaidLists
  <2>2. g[k - 1] \in Seq(Input) /\ g[k] = PaidNext(g[k - 1], less[k])
    BY <1>2, <1>5 DEF PaidLists
  <2>3. Len(f[k]) = Len(f[k - 1]) + PaidBy(outs[k]) /\ Len(f[k - 1]) \in Nat
    BY <1>3, <2>1, PaidNextType, CoinOf
  <2>4. Len(g[k]) = Len(g[k - 1]) + PaidBy(less[k]) /\ Len(g[k - 1]) \in Nat
    BY <1>3, <2>2, PaidNextType, CoinOf
  <2>5. /\ PaidBy(less[k]) \in Nat /\ PaidBy(outs[k]) \in Nat
        /\ PaidBy(less[k]) <= PaidBy(outs[k])
    BY <1>3, PayableParts DEF PaidBy
  <2> QED
    BY <1>5, <2>3, <2>4, <2>5
<1>6. n \in G
  <2>1. G = 0..n
    <3> HIDE DEF G, n
    <3> QED
      BY <1>3, <1>4, <1>5, UpTo
  <2> QED
    BY <1>3, <2>1
<1> QED
  BY <1>1, <1>2, <1>6

-------------------------------------------------------------------------------
(* The plan.                                                                *)

PlanType == [inputs : Seq(Input), outputs : Seq(Payable), fee : Nat, error : Errors]

(* The plan before its fee, and with the output that is added for one.      *)
Unpriced(r) ==
    [inputs |-> Selected(r), outputs |-> Outputs(r, Selected(r)), fee |-> 0, error |-> "none"]

WithGas(r) == WithGasChange(Unpriced(r), Held(Selected(r), Gas))

LEMMA PlannedType ==
    ASSUME NEW out \in Output, NEW available \in Nat
    PROVE  /\ Planned(out, available) \in Payable
           /\ Planned(out, available).asset = out.asset
           /\ Planned(out, available).amount = out.amount
           /\ Planned(out, available).available = available
           /\ Planned(out, available).change = available - out.amount
BY DEF Planned, Payable, OutputPlan, Output

LEMMA EmptyOutputType == EmptyOutput \in Payable
BY DEF EmptyOutput, Payable, OutputPlan

LEMMA OutputsType ==
    ASSUME NEW r \in Requests, NEW taken \in Seq(Input)
    PROVE  /\ Outputs(r, taken) \in Seq(Payable)
           /\ Len(Outputs(r, taken)) = Len(r.outputs)
           /\ \A i \in 1..Len(r.outputs) :
                Outputs(r, taken)[i]
                  = Planned(r.outputs[i], Held(taken, r.outputs[i].asset))
<1> DEFINE n == Len(r.outputs)
<1>1. n \in Nat /\ \A i \in 1..n : r.outputs[i] \in Output
  BY RequestParts
<1>2. \A i \in 1..n : Planned(r.outputs[i], Held(taken, r.outputs[i].asset)) \in Payable
  BY <1>1, PlannedType, HeldType
<1>3. Outputs(r, taken) \in [1..n -> Payable]
  BY <1>2 DEF Outputs
<1>4. \A i \in 1..n : Outputs(r, taken)[i]
                        = Planned(r.outputs[i], Held(taken, r.outputs[i].asset))
  BY DEF Outputs
<1> HIDE DEF n
<1> QED
  BY <1>1, <1>3, <1>4, IsASeq, LenProperties, SMTT(30) DEF n

LEMMA UnpricedType ==
    ASSUME NEW r \in Requests
    PROVE  /\ Unpriced(r) \in PlanType
           /\ Unpriced(r).inputs = Selected(r)
           /\ Unpriced(r).outputs = Outputs(r, Selected(r))
           /\ Unpriced(r).fee = 0
           /\ Unpriced(r).error = "none"
<1>1. Selected(r) \in Seq(Input) /\ Outputs(r, Selected(r)) \in Seq(Payable)
  BY SelectedType, OutputsType
<1> QED
  BY <1>1 DEF Unpriced, PlanType, Errors

GasChange(gas) == [asset |-> Gas, amount |-> 0, available |-> gas, change |-> gas]

LEMMA WithGasType ==
    ASSUME NEW r \in Requests
    PROVE  /\ WithGas(r) \in PlanType
           /\ WithGas(r).inputs = Selected(r)
           /\ WithGas(r).outputs
                = Append(Outputs(r, Selected(r)), GasChange(Held(Selected(r), Gas)))
           /\ WithGas(r).fee = 0
           /\ WithGas(r).error = "none"
<1> DEFINE gas == Held(Selected(r), Gas)
           outs == Outputs(r, Selected(r))
<1>1. gas \in Nat /\ outs \in Seq(Payable)
  BY SelectedType, HeldType, OutputsType
<1>2. GasChange(gas) \in Payable
  BY <1>1, NeoAssumption DEF GasChange, Payable, OutputPlan
<1>3. Append(outs, GasChange(gas)) \in Seq(Payable)
  BY <1>1, <1>2, AppendProperties
<1>4. WithGas(r) = [Unpriced(r) EXCEPT !.outputs = Append(outs, GasChange(gas))]
  BY UnpricedType DEF WithGas, WithGasChange, GasChange
<1> HIDE DEF gas, outs
<1> QED
  BY <1>3, <1>4, UnpricedType DEF PlanType, gas, outs

LEMMA Sizes ==
    /\ BaseBytes \in Nat /\ InputBytes \in Nat /\ OutputBytes \in Nat
    /\ SignatureSize \in Nat /\ LargeTxSize \in Nat
    /\ MinFeeForLargeTx \in Nat /\ FeeForByteOfTx \in Nat /\ MinGas \in Nat \ {0}
    /\ Gas \in Assets
BY NeoAssumption

LEMMA Products ==
    ASSUME NEW a \in Nat, NEW b \in Nat, NEW c \in Nat
    PROVE  /\ a * b \in Nat
           /\ b <= c => a * b <= a * c
OBVIOUS

(* The transaction of a plan, and its size.                                 *)
LEMMA PreparedType ==
    ASSUME NEW r \in Requests, NEW p \in PlanType, NEW validate \in BOOLEAN
    PROVE  /\ PrepareUnsigned(r, p, validate).inputs \in {<<>>, p.inputs}
           /\ PrepareUnsigned(r, p, validate).outputs \in {<<>>, PaidOutputs(p.outputs)}
           /\ PrepareUnsigned(r, p, validate).outputs \in Seq(Input)
           /\ Size(PrepareUnsigned(r, p, validate)) \in Nat
<1>1. p.inputs \in Seq(Input) /\ p.outputs \in Seq(Payable)
  BY DEF PlanType
<1>2. PaidOutputs(p.outputs) \in Seq(Input) /\ <<>> \in Seq(Input)
  BY <1>1, PaidOutputsType, EmptySeq
<1> DEFINE t == PrepareUnsigned(r, p, validate)
<1>3. t.inputs \in {<<>>, p.inputs} /\ t.outputs \in {<<>>, PaidOutputs(p.outputs)}
  BY DEF PrepareUnsigned, EmptyTx
<1> HIDE DEF t
<1>4. t.inputs \in Seq(Input) /\ t.outputs \in Seq(Input)
  BY <1>1, <1>2, <1>3, Zenon
<1>5. Len(t.inputs) \in Nat /\ Len(t.outputs) \in Nat
  BY <1>4, LenProperties
<1>6. Size(t) \in Nat
  <2> DEFINE ins == InputBytes * Len(t.inputs)
             outs == OutputBytes * Len(t.outputs)
  <2>1. ins \in Nat /\ outs \in Nat
    BY <1>5, Sizes, Products
  <2>2. Size(t) = BaseBytes + ins + outs + SignatureSize
    BY DEF Size
  <2> HIDE DEF ins, outs
  <2> QED
    BY <2>1, <2>2, Sizes
<1> QED
  BY <1>3, <1>4, <1>6 DEF t

LargeFeeOf(r, p) == LargeFee(Estimate(r, p))

LEMMA FeeType ==
    ASSUME NEW r \in Requests, NEW p \in PlanType
    PROVE  Estimate(r, p) \in Nat /\ LargeFeeOf(r, p) \in Nat
<1>1. Estimate(r, p) \in Nat
  BY PreparedType DEF Estimate
<1> QED
  <2>1. Estimate(r, p) * FeeForByteOfTx \in Nat
    BY <1>1, Sizes, Products
  <2> QED
    BY <1>1, <2>1, Sizes DEF LargeFeeOf, LargeFee

(* The fee comes off the change of one output of GAS.                       *)
IsCharged(q, p, last) ==
    /\ q.inputs = p.inputs /\ q.error = p.error
    /\ q.outputs \in Seq(Payable) /\ Len(q.outputs) = Len(p.outputs)
    /\ \A i \in 1..Len(p.outputs) :
          /\ q.outputs[i].asset = p.outputs[i].asset
          /\ q.outputs[i].amount = p.outputs[i].amount
          /\ q.outputs[i].available = p.outputs[i].available
          /\ i # last => q.outputs[i].change = p.outputs[i].change
    /\ q.outputs[last].change = p.outputs[last].change - q.fee

LEMMA WithFeeCharges ==
    ASSUME NEW r \in Requests, NEW p \in PlanType, GasOutputs(p) # {}
    PROVE  /\ WithFee(r, p) \in PlanType
           /\ WithFee(r, p).fee \in Nat
           /\ WithFee(r, p).fee >= r.fee
           /\ WithFee(r, p).fee >= LargeFeeOf(r, p)
           /\ \E last \in GasOutputs(p) : IsCharged(WithFee(r, p), p, last)
<1> DEFINE large == LargeFee(Estimate(r, p))
           fee == IF r.fee < large THEN large ELSE r.fee
           last == CHOOSE i \in GasOutputs(p) : \A j \in GasOutputs(p) : j <= i
           n == Len(p.outputs)
           q == WithFee(r, p)
           change == p.outputs[last].change - fee
           out == [p.outputs[last] EXCEPT !.change = change]
<1>1. p.outputs \in Seq(Payable) /\ n \in Nat /\ \A i \in 1..n : p.outputs[i] \in Payable
  <2>1. p.outputs \in Seq(Payable)
    BY DEF PlanType
  <2> QED
    BY <2>1, LenProperties, ElementOfSeq
<1>2. last \in GasOutputs(p)
  <2>1. GasOutputs(p) \subseteq 1..n
    BY DEF GasOutputs
  <2> QED
    BY <1>1, <2>1, LargestOf
<1>3. last \in 1..n /\ p.outputs[last].asset = Gas
  BY <1>2 DEF GasOutputs
<1>4. large \in Nat /\ r.fee \in Nat
  BY FeeType, RequestParts DEF LargeFeeOf
<1>5. fee \in Nat /\ fee >= large /\ fee >= r.fee
  BY <1>4
<1>6. q = [[p EXCEPT !.fee = fee] EXCEPT !.outputs = [p.outputs EXCEPT ![last] = out]]
  BY DEF WithFee, PlanType
<1> HIDE DEF large, fee, last, n
<1>7. /\ out \in Payable
      /\ out.asset = Gas /\ out.amount = p.outputs[last].amount
      /\ out.available = p.outputs[last].available
      /\ out.change = change
  <2>1. p.outputs[last] \in Payable
    BY <1>1, <1>3
  <2>2. p.outputs[last] \in OutputPlan
    BY <2>1 DEF Payable
  <2>3. change \in Int
    BY <1>5, <2>2 DEF OutputPlan
  <2> HIDE DEF change
  <2>4. /\ out \in OutputPlan
        /\ out.asset = p.outputs[last].asset /\ out.amount = p.outputs[last].amount
        /\ out.available = p.outputs[last].available /\ out.change = change
    BY <2>2, <2>3, Zenon DEF OutputPlan
  <2>5. out \in Payable
    BY <1>3, <2>4, Sizes DEF Payable
  <2> QED
    BY <1>3, <2>4, <2>5
<1> HIDE DEF out
<1> DEFINE outs == [p.outputs EXCEPT ![last] = out]
<1>8. /\ outs \in Seq(Payable) /\ Len(outs) = n /\ outs[last] = out
      /\ \A i \in 1..n : i # last => outs[i] = p.outputs[i]
  BY <1>1, <1>3, <1>7, ExceptSeq DEF n
<1> HIDE DEF outs
<1>9. /\ q \in PlanType /\ q.inputs = p.inputs /\ q.error = p.error
      /\ q.fee = fee /\ q.outputs = outs
  <2>1. q = [[p EXCEPT !.fee = fee] EXCEPT !.outputs = outs]
    BY <1>6 DEF outs
  <2> HIDE DEF q
  <2> QED
    BY <1>5, <1>8, <2>1 DEF PlanType
<1> HIDE DEF q
<1>10. IsCharged(q, p, last)
  BY <1>3, <1>7, <1>8, <1>9 DEF IsCharged, n, change
<1> QED
  BY <1>2, <1>5, <1>9, <1>10 DEF LargeFeeOf, large, q

(* Which plan is made.                                                      *)
LEMMA PlanCases ==
    ASSUME NEW r \in Requests, NEW found \in Lookups(r)
    PROVE  \/ /\ Short(r, Selected(r), found) # {}
              /\ PlanOf(r, found) = LowBalance(r, Selected(r), Short(r, Selected(r), found))
           \/ /\ Short(r, Selected(r), found) = {}
              /\ \/ /\ ~FeeNeeded(r, Unpriced(r))
                    /\ PlanOf(r, found) = Unpriced(r)
                 \/ /\ GasOutputs(Unpriced(r)) # {}
                    /\ PlanOf(r, found) = WithFee(r, Unpriced(r))
                 \/ /\ Held(Selected(r), Gas) < MinGas \/ ~Has(Selected(r), Gas)
                    /\ PlanOf(r, found) = TooBig(Unpriced(r))
                 \/ PlanOf(r, found) = WithFee(r, WithGas(r))
<1>1. Unpriced(r).inputs = Selected(r)
  BY UnpricedType
<1>2. PlanOf(r, found)
        = IF Short(r, Selected(r), found) # {}
          THEN LowBalance(r, Selected(r), Short(r, Selected(r), found))
          ELSE Priced(r, Unpriced(r))
  BY DEF PlanOf, Unpriced
<1>3. Priced(r, Unpriced(r))
        = IF ~FeeNeeded(r, Unpriced(r)) THEN Unpriced(r)
          ELSE IF GasOutputs(Unpriced(r)) # {} THEN WithFee(r, Unpriced(r))
          ELSE IF Held(Selected(r), Gas) < MinGas \/ ~Has(Selected(r), Gas)
          THEN TooBig(Unpriced(r))
          ELSE WithFee(r, WithGas(r))
  BY <1>1, Zenon DEF Priced, WithGas
<1> QED
  BY <1>2, <1>3, Zenon

LEMMA FirstOfType ==
    ASSUME NEW n \in Nat, NEW S, S \subseteq 1..n, S # {}
    PROVE  FirstOf(S) \in S
<1>1. S \subseteq Nat
  OBVIOUS
<1> QED
  BY <1>1, LeastNumber, Zenon DEF FirstOf

LEMMA LowBalanceType ==
    ASSUME NEW r \in Requests, NEW short, short # {}, short \subseteq 1..Len(r.outputs)
    PROVE  /\ LowBalance(r, Selected(r), short) \in PlanType
           /\ LowBalance(r, Selected(r), short).inputs = Selected(r)
           /\ LowBalance(r, Selected(r), short).error = "low_balance"
<1> DEFINE outs == Outputs(r, Selected(r))
           before == SubSeq(outs, 1, FirstOf(short) - 1)
<1>1. Len(r.outputs) \in Nat /\ FirstOf(short) \in 1..Len(r.outputs)
  BY RequestParts, FirstOfType
<1>2. Selected(r) \in Seq(Input) /\ outs \in Seq(Payable) /\ Len(outs) = Len(r.outputs)
  BY SelectedType, OutputsType
<1>3. \A i \in 1..(FirstOf(short) - 1) : outs[i] \in Payable
  <2> HIDE DEF outs
  <2> QED
    BY <1>1, <1>2
<1>4. before \in Seq(Payable)
  <2> HIDE DEF outs
  <2> QED
    BY <1>1, <1>3, SubSeqProperties
<1> HIDE DEF before
<1>5. Append(before, EmptyOutput) \in Seq(Payable)
  BY <1>4, EmptyOutputType, AppendProperties
<1> DEFINE all == Append(before, EmptyOutput)
<1>6. LowBalance(r, Selected(r), short)
        = [inputs |-> Selected(r), fee |-> 0, error |-> "low_balance", outputs |-> all]
  BY DEF LowBalance, before
<1> HIDE DEF all
<1> QED
  BY <1>2, <1>5, <1>6 DEF PlanType, Errors, all

LEMMA TooBigType ==
    ASSUME NEW r \in Requests
    PROVE  /\ TooBig(Unpriced(r)) \in PlanType
           /\ TooBig(Unpriced(r)).inputs = Selected(r)
           /\ TooBig(Unpriced(r)).error = "tx_too_big"
<1> DEFINE p == Unpriced(r)
           all == Append(p.outputs, EmptyOutput)
<1>1. /\ p \in PlanType /\ p.inputs = Selected(r)
      /\ p.outputs \in Seq(Payable)
  BY UnpricedType, SelectedType, OutputsType
<1>2. all \in Seq(Payable)
  BY <1>1, EmptyOutputType, AppendProperties
<1> HIDE DEF p
<1>3. TooBig(p) = [[p EXCEPT !.error = "tx_too_big"] EXCEPT !.outputs = all]
  BY DEF TooBig
<1> HIDE DEF all
<1> QED
  BY <1>1, <1>2, <1>3, Zenon DEF PlanType, Errors, p

(* What a plan without an error promises: what the inputs hold is available *)
(* to each output, the outputs of the request come first and keep the       *)
(* change of what is available, but for GAS, and any further one is of GAS. *)
PlanParts(r, p) ==
    /\ p \in PlanType
    /\ p.inputs = Selected(r)
    /\ p.error = "none"
    /\ Len(r.outputs) <= Len(p.outputs)
    /\ \A i \in 1..Len(p.outputs) :
          p.outputs[i].available = Held(Selected(r), p.outputs[i].asset)
    /\ \A i \in 1..Len(r.outputs) :
          /\ p.outputs[i].asset = r.outputs[i].asset
          /\ p.outputs[i].amount = r.outputs[i].amount
          /\ r.outputs[i].asset # Gas =>
                p.outputs[i].change
                  = Held(Selected(r), r.outputs[i].asset) - r.outputs[i].amount
    /\ \A i \in (Len(r.outputs) + 1)..Len(p.outputs) : p.outputs[i].asset = Gas

LEMMA UnpricedParts ==
    ASSUME NEW r \in Requests
    PROVE  PlanParts(r, Unpriced(r))
<1> DEFINE outs == Outputs(r, Selected(r))
           n == Len(r.outputs)
<1>1. n \in Nat /\ \A i \in 1..n : r.outputs[i] \in Output
  BY RequestParts
<1>2. \A a : Held(Selected(r), a) \in Nat
  BY SelectedType, HeldType
<1>3. Len(outs) = n
  BY SelectedType, OutputsType
<1>4. \A i \in 1..n :
        /\ outs[i].asset = r.outputs[i].asset
        /\ outs[i].amount = r.outputs[i].amount
        /\ outs[i].available = Held(Selected(r), r.outputs[i].asset)
        /\ outs[i].change = Held(Selected(r), r.outputs[i].asset) - r.outputs[i].amount
  <2> TAKE i \in 1..n
  <2>1. outs[i] = Planned(r.outputs[i], Held(Selected(r), r.outputs[i].asset))
    BY SelectedType, OutputsType
  <2> QED
    BY <1>1, <1>2, <2>1, PlannedType
<1> HIDE DEF outs, n
<1>5. /\ Unpriced(r) \in PlanType /\ Unpriced(r).inputs = Selected(r)
      /\ Unpriced(r).error = "none" /\ Unpriced(r).outputs = outs
  BY UnpricedType DEF outs
<1> QED
  BY <1>1, <1>3, <1>4, <1>5 DEF PlanParts, n

LEMMA WithGasParts ==
    ASSUME NEW r \in Requests
    PROVE  PlanParts(r, WithGas(r)) /\ GasOutputs(WithGas(r)) # {}
<1> DEFINE outs == Outputs(r, Selected(r))
           n == Len(r.outputs)
           gas == Held(Selected(r), Gas)
           all == Append(outs, GasChange(gas))
<1>1. n \in Nat
  BY RequestParts
<1>2. outs \in Seq(Payable) /\ Len(outs) = n
  BY SelectedType, OutputsType
<1>3. PlanParts(r, Unpriced(r)) /\ Unpriced(r).outputs = outs
  BY UnpricedParts, UnpricedType
<1>4. /\ WithGas(r) \in PlanType /\ WithGas(r).inputs = Selected(r)
      /\ WithGas(r).error = "none" /\ WithGas(r).outputs = all
  BY WithGasType
<1>5. GasChange(gas).asset = Gas /\ GasChange(gas).available = gas
  BY DEF GasChange
<1> HIDE DEF outs, n
<1>6. /\ Len(all) = n + 1 /\ all[n + 1] = GasChange(gas)
      /\ \A i \in 1..n : all[i] = outs[i]
  BY <1>1, <1>2
<1> HIDE DEF all
<1>7. \A i \in 1..Len(all) : all[i].available = Held(Selected(r), all[i].asset)
  <2> TAKE i \in 1..Len(all)
  <2>1. CASE i \in 1..n
    BY <1>2, <1>3, <1>6, <2>1 DEF PlanParts
  <2>2. CASE i = n + 1
    BY <1>5, <1>6, <2>2
  <2> QED
    BY <1>1, <1>6, <2>1, <2>2
<1>8. \A i \in 1..n :
         /\ all[i].asset = r.outputs[i].asset
         /\ all[i].amount = r.outputs[i].amount
         /\ r.outputs[i].asset # Gas =>
               all[i].change
                 = Held(Selected(r), r.outputs[i].asset) - r.outputs[i].amount
  BY <1>3, <1>6 DEF PlanParts, n
<1>9. n + 1 \in 1..Len(all) /\ all[n + 1].asset = Gas
  BY <1>1, <1>5, <1>6
<1>10. \A i \in (n + 1)..Len(all) : all[i].asset = Gas
  BY <1>1, <1>6, <1>9
<1>11. GasOutputs(WithGas(r)) # {}
  BY <1>4, <1>9 DEF GasOutputs
<1>12. n <= Len(all)
  BY <1>1, <1>6
<1> QED
  BY <1>4, <1>7, <1>8, <1>10, <1>11, <1>12 DEF PlanParts, n

LEMMA WithFeeParts ==
    ASSUME NEW r \in Requests, NEW p, PlanParts(r, p), GasOutputs(p) # {}
    PROVE  PlanParts(r, WithFee(r, p))
<1> DEFINE q == WithFee(r, p)
<1>1. p \in PlanType
  BY DEF PlanParts
<1>2. PICK last \in GasOutputs(p) : IsCharged(q, p, last)
  BY <1>1, WithFeeCharges
<1>3. q \in PlanType
  BY <1>1, WithFeeCharges
<1> HIDE DEF q
<1>4. Len(q.outputs) = Len(p.outputs) /\ Len(r.outputs) \in Nat /\ Len(p.outputs) \in Nat
  <2>1. p.outputs \in Seq(Payable)
    BY <1>1 DEF PlanType
  <2> QED
    BY <1>2, <2>1, RequestParts, LenProperties DEF IsCharged
<1>5. last \in 1..Len(p.outputs) /\ p.outputs[last].asset = Gas
  BY DEF GasOutputs
<1>6. \A i \in 1..Len(r.outputs) : i \in 1..Len(p.outputs)
  BY <1>4 DEF PlanParts
<1>7. \A i \in 1..Len(r.outputs) :
         /\ q.outputs[i].asset = r.outputs[i].asset
         /\ q.outputs[i].amount = r.outputs[i].amount
         /\ r.outputs[i].asset # Gas =>
               q.outputs[i].change
                 = Held(Selected(r), r.outputs[i].asset) - r.outputs[i].amount
  <2> TAKE i \in 1..Len(r.outputs)
  <2>1. r.outputs[i].asset # Gas => i # last
    BY <1>5 DEF PlanParts
  <2> QED
    BY <1>2, <1>6, <2>1 DEF PlanParts, IsCharged
<1>8. \A i \in 1..Len(q.outputs) :
         q.outputs[i].available = Held(Selected(r), q.outputs[i].asset)
  BY <1>2, <1>4 DEF PlanParts, IsCharged
<1>9. \A i \in (Len(r.outputs) + 1)..Len(q.outputs) : q.outputs[i].asset = Gas
  <2> TAKE i \in (Len(r.outputs) + 1)..Len(q.outputs)
  <2>1. i \in 1..Len(p.outputs) /\ i \in (Len(r.outputs) + 1)..Len(p.outputs)
    BY <1>4
  <2> QED
    BY <1>2, <2>1 DEF PlanParts, IsCharged
<1>10. Len(r.outputs) <= Len(q.outputs)
  BY <1>4 DEF PlanParts
<1> QED
  BY <1>2, <1>3, <1>7, <1>8, <1>9, <1>10 DEF PlanParts, IsCharged, q

LEMMA PlanTyped ==
    ASSUME NEW r \in Requests, NEW found \in Lookups(r)
    PROVE  /\ PlanOf(r, found) \in PlanType
           /\ PlanOf(r, found).inputs = Selected(r)
           /\ PlanOf(r, found).error = "none" => PlanParts(r, PlanOf(r, found))
<1> DEFINE p == PlanOf(r, found)
           short == Short(r, Selected(r), found)
<1>1. short \subseteq 1..Len(r.outputs)
  BY DEF Short
<1>2. CASE short # {} /\ p = LowBalance(r, Selected(r), short)
  BY <1>1, <1>2, LowBalanceType
<1>3. CASE p = Unpriced(r)
  BY <1>3, UnpricedParts DEF PlanParts
<1>4. CASE GasOutputs(Unpriced(r)) # {} /\ p = WithFee(r, Unpriced(r))
  BY <1>4, UnpricedParts, WithFeeParts DEF PlanParts
<1>5. CASE p = TooBig(Unpriced(r))
  BY <1>5, TooBigType
<1>6. CASE p = WithFee(r, WithGas(r))
  BY <1>6, WithGasParts, WithFeeParts DEF PlanParts
<1> QED
  BY <1>2, <1>3, <1>4, <1>5, <1>6, PlanCases

(* A plan without an error was made of enough for every output.             *)
LEMMA EnoughForEach ==
    ASSUME NEW r \in Requests, NEW found \in Lookups(r), PlanOf(r, found).error = "none"
    PROVE  \A i \in 1..Len(r.outputs) :
              r.outputs[i].amount <= Held(Selected(r), r.outputs[i].asset)
<1> DEFINE short == Short(r, Selected(r), found)
<1>1. short \subseteq 1..Len(r.outputs)
  BY DEF Short
<1>2. short = {}
  <2>1. ~(short # {} /\ PlanOf(r, found) = LowBalance(r, Selected(r), short))
    BY <1>1, LowBalanceType
  <2> QED
    BY <2>1, PlanCases
<1> TAKE i \in 1..Len(r.outputs)
<1>3. ~(Held(Selected(r), r.outputs[i].asset) < r.outputs[i].amount)
  BY <1>2 DEF Short
<1>4. Held(Selected(r), r.outputs[i].asset) \in Nat /\ r.outputs[i] \in Output
  BY SelectedType, HeldType, RequestParts
<1> QED
  BY <1>3, <1>4 DEF Output

-------------------------------------------------------------------------------
(* What the properties say of one request and one plan.                     *)

LEMMA PreparedInFull ==
    ASSUME NEW r, NEW p, PrepareUnsigned(r, p, TRUE) # EmptyTx
    PROVE  /\ PrepareUnsigned(r, p, TRUE).inputs = p.inputs
           /\ PrepareUnsigned(r, p, TRUE).outputs = PaidOutputs(p.outputs)
           /\ ~WrongFee(p)
BY DEF PrepareUnsigned

LEMMA Balance ==
    ASSUME NEW r \in Requests, NEW p, PlanParts(r, p),
           \A k \in 1..Len(r.outputs) :
              r.outputs[k].amount <= Held(Selected(r), r.outputs[k].asset),
           NEW t, t = PrepareUnsigned(r, p, TRUE), t # EmptyTx,
           NEW a \in Assets \ {Gas}, NEW i, OutputsOf(r, a) = {i}
    PROVE  Held(t.inputs, a) = Held(t.outputs, a)
<1>1. t.inputs = Selected(r) /\ t.outputs = PaidOutputs(p.outputs)
  <2>1. t.inputs = p.inputs /\ t.outputs = PaidOutputs(p.outputs)
    BY PreparedInFull, Zenon
  <2> QED
    BY <2>1, Zenon DEF PlanParts
<1>2. i \in 1..Len(r.outputs) /\ r.outputs[i].asset = a
  BY DEF OutputsOf
<1>3. p.outputs \in Seq(Payable)
  BY DEF PlanParts, PlanType
<1>4. Len(r.outputs) \in Nat /\ Len(p.outputs) \in Nat /\ Len(r.outputs) <= Len(p.outputs)
  BY <1>3, RequestParts, LenProperties DEF PlanParts
<1>5. i \in 1..Len(p.outputs) /\ p.outputs[i].asset = a
  BY <1>2, <1>4 DEF PlanParts
<1>6. ASSUME NEW j \in 1..Len(p.outputs), p.outputs[j].asset = a
      PROVE  j = i
  <2>1. CASE j \in 1..Len(r.outputs)
    BY <1>6, <2>1 DEF PlanParts, OutputsOf
  <2>2. CASE j \in (Len(r.outputs) + 1)..Len(p.outputs)
    BY <1>6, <2>2 DEF PlanParts
  <2> QED
    BY <1>4, <2>1, <2>2
<1>7. Held(PaidOutputs(p.outputs), a)
        = Positive(p.outputs[i].amount) + Positive(p.outputs[i].change)
  BY <1>3, <1>5, <1>6, PaidOfOne
<1>8. /\ p.outputs[i].amount = r.outputs[i].amount
      /\ p.outputs[i].change = Held(Selected(r), a) - r.outputs[i].amount
      /\ r.outputs[i].amount <= Held(Selected(r), a)
  BY <1>2 DEF PlanParts
<1>9. r.outputs[i].amount \in Nat /\ Held(Selected(r), a) \in Nat
  BY <1>2, RequestParts, SelectedType, HeldType DEF Output
<1>10. Positive(p.outputs[i].amount) + Positive(p.outputs[i].change) = Held(Selected(r), a)
  BY <1>8, <1>9 DEF Positive
<1> QED
  BY <1>1, <1>7, <1>10

LEMMA FeeLeft ==
    ASSUME NEW r \in Requests, NEW p, PlanParts(r, p),
           NEW t, t = PrepareUnsigned(r, p, TRUE), t # EmptyTx,
           NEW i, GasOutputs(p) = {i}, p.outputs[i].change >= 0
    PROVE  Held(t.inputs, Gas) - Held(t.outputs, Gas) = p.fee
<1>1. /\ t.inputs = Selected(r)
      /\ t.outputs = PaidOutputs(p.outputs)
      /\ ~WrongFee(p)
  <2>1. t.inputs = p.inputs /\ t.outputs = PaidOutputs(p.outputs) /\ ~WrongFee(p)
    BY PreparedInFull, Zenon
  <2> QED
    BY <2>1, Zenon DEF PlanParts
<1>2. i \in 1..Len(p.outputs) /\ p.outputs[i].asset = Gas
  BY DEF GasOutputs
<1>3. p.outputs \in Seq(Payable) /\ p.fee \in Nat
  BY DEF PlanParts, PlanType
<1>4. \A j \in 1..Len(p.outputs) : p.outputs[j].asset = Gas => j = i
  BY DEF GasOutputs
<1>5. Held(PaidOutputs(p.outputs), Gas)
        = Positive(p.outputs[i].amount) + Positive(p.outputs[i].change)
  BY <1>2, <1>3, <1>4, PaidOfOne
<1>6. p.outputs[i].amount + p.outputs[i].change + p.fee = Held(Selected(r), Gas)
  BY <1>1, <1>2 DEF WrongFee, PlanParts
<1>7. p.outputs[i].amount \in Nat /\ p.outputs[i].change \in Int
  BY <1>2, <1>3, PayableParts
<1>8. Positive(p.outputs[i].amount) + Positive(p.outputs[i].change)
        = p.outputs[i].amount + p.outputs[i].change
  BY <1>7 DEF Positive
<1>9. Held(t.inputs, Gas) = Held(Selected(r), Gas)
  BY <1>1, Zenon
<1>10. Held(t.outputs, Gas) = p.outputs[i].amount + p.outputs[i].change
  BY <1>1, <1>5, <1>8, Zenon
<1> DEFINE amount == p.outputs[i].amount
           change == p.outputs[i].change
           gas == Held(Selected(r), Gas)
           paid == Held(t.outputs, Gas)
<1>11. gas \in Nat
  BY SelectedType, HeldType
<1>12. amount \in Nat /\ change \in Int /\ amount + change + p.fee = gas
  BY <1>6, <1>7
<1>13. paid = amount + change
  BY <1>10
<1> HIDE DEF amount, change, gas, paid
<1>14. gas - paid = p.fee
  BY <1>3, <1>11, <1>12, <1>13
<1> QED
  BY <1>9, <1>14 DEF gas, paid

(* With valid addresses the estimate of a plan bounds the size of what is   *)
(* signed from one that pays no more outputs.                               *)
LEMMA SizeWithinEstimate ==
    ASSUME NEW r \in Requests, r.valid, NEW p \in PlanType, NEW q \in PlanType,
           q.inputs = p.inputs,
           Len(PaidOutputs(q.outputs)) <= Len(PaidOutputs(p.outputs))
    PROVE  Size(PrepareUnsigned(r, q, TRUE)) <= Estimate(r, p)
<1> DEFINE in == Len(p.inputs)
           more == Len(PaidOutputs(p.outputs))
           less == Len(PaidOutputs(q.outputs))
           Bytes(m, n) == BaseBytes + InputBytes * m + OutputBytes * n + SignatureSize
<1>1. in \in Nat /\ more \in Nat /\ less \in Nat
  <2>1. p.inputs \in Seq(Input) /\ p.outputs \in Seq(Payable) /\ q.outputs \in Seq(Payable)
    BY DEF PlanType
  <2> QED
    BY <2>1, PaidOutputsType, LenProperties
<1>2. Estimate(r, p) = Bytes(in, more)
  <2> DEFINE t == PrepareUnsigned(r, p, FALSE)
             outs == PaidOutputs(p.outputs)
  <2>1. t = [inputs |-> p.inputs, outputs |-> outs]
    BY DEF PrepareUnsigned
  <2>2. Estimate(r, p) = Size(t)
    BY DEF Estimate
  <2> HIDE DEF t, outs
  <2>3. t.inputs = p.inputs /\ t.outputs = outs
    BY <2>1
  <2> QED
    BY <2>2, <2>3, Zenon DEF Size, outs
<1>3. \/ Size(PrepareUnsigned(r, q, TRUE)) = Bytes(0, 0)
      \/ Size(PrepareUnsigned(r, q, TRUE)) = Bytes(in, less)
  <2> DEFINE t == PrepareUnsigned(r, q, TRUE)
  <2>1. CASE t = EmptyTx
    <3>1. Len(EmptyTx.inputs) = 0 /\ Len(EmptyTx.outputs) = 0
      BY DEF EmptyTx
    <3> QED
      BY <2>1, <3>1, Zenon DEF Size
  <2>2. CASE t # EmptyTx
    <3>1. t.inputs = p.inputs /\ t.outputs = PaidOutputs(q.outputs)
      BY <2>2, PreparedInFull
    <3> QED
      BY <3>1, Zenon DEF Size
  <2> QED
    BY <2>1, <2>2
<1> HIDE DEF in, more, less
<1>4. Bytes(0, 0) <= Bytes(in, more) /\ Bytes(in, less) <= Bytes(in, more)
  <2> DEFINE a == InputBytes * in
             b == OutputBytes * more
             c == OutputBytes * less
  <2>1. a \in Nat /\ b \in Nat /\ c \in Nat /\ c <= b
    BY <1>1, Sizes, Products DEF more, less
  <2>2. InputBytes * 0 = 0 /\ OutputBytes * 0 = 0
    BY Sizes
  <2> HIDE DEF a, b, c
  <2>3. /\ BaseBytes + 0 + 0 + SignatureSize <= BaseBytes + a + b + SignatureSize
        /\ BaseBytes + a + c + SignatureSize <= BaseBytes + a + b + SignatureSize
    BY <2>1, Sizes
  <2> QED
    BY <2>2, <2>3 DEF a, b, c
<1> HIDE DEF Bytes
<1> QED
  BY <1>2, <1>3, <1>4

LEMMA LargeFeeGrows ==
    ASSUME NEW m \in Nat, NEW n \in Nat, m <= n, m >= LargeTxSize
    PROVE  LargeFee(m) <= LargeFee(n)
<1> DEFINE a == m * FeeForByteOfTx
           b == n * FeeForByteOfTx
<1>1. a \in Nat /\ b \in Nat /\ a <= b
  BY Sizes
<1>2. n >= LargeTxSize
  BY Sizes
<1>3. LargeFee(m) = MinFeeForLargeTx + a /\ LargeFee(n) = MinFeeForLargeTx + b
  BY <1>2 DEF LargeFee
<1> HIDE DEF a, b
<1> QED
  BY <1>1, <1>3, Sizes

LEMMA ChargedPaysByTheByte ==
    ASSUME NEW r \in Requests, r.valid, NEW p \in PlanType, GasOutputs(p) # {},
           Size(PrepareUnsigned(r, WithFee(r, p), TRUE)) >= LargeTxSize
    PROVE  WithFee(r, p).fee >= LargeFee(Size(PrepareUnsigned(r, WithFee(r, p), TRUE)))
<1> DEFINE q == WithFee(r, p)
           size == Size(PrepareUnsigned(r, q, TRUE))
<1>1. /\ q \in PlanType /\ q.fee \in Nat /\ q.fee >= LargeFee(Estimate(r, p))
      /\ \E last \in GasOutputs(p) : IsCharged(q, p, last)
  BY WithFeeCharges DEF LargeFeeOf
<1>2. PICK last \in GasOutputs(p) : IsCharged(q, p, last)
  BY <1>1
<1> HIDE DEF q
<1>3. p.outputs \in Seq(Payable) /\ q.outputs \in Seq(Payable)
  BY <1>1 DEF PlanType
<1>4. /\ Len(p.outputs) \in Nat
      /\ \A i \in 1..Len(p.outputs) : p.outputs[i] \in Payable
  BY <1>3, LenProperties, ElementOfSeq
<1>5. \A i \in 1..Len(p.outputs) :
        q.outputs[i].amount = p.outputs[i].amount /\ q.outputs[i].change <= p.outputs[i].change
  <2> TAKE i \in 1..Len(p.outputs)
  <2>1. p.outputs[i].change \in Int
    BY <1>4, PayableParts
  <2> QED
    BY <1>1, <1>2, <2>1, SMTT(30) DEF IsCharged
<1>6. Len(PaidOutputs(q.outputs)) <= Len(PaidOutputs(p.outputs))
  BY <1>2, <1>3, <1>5, PaidLess DEF IsCharged
<1>7. size <= Estimate(r, p)
  BY <1>1, <1>2, <1>6, SizeWithinEstimate DEF IsCharged
<1>8. size \in Nat /\ Estimate(r, p) \in Nat
  BY <1>1, PreparedType, FeeType
<1>9. size >= LargeTxSize
  BY DEF q
<1> HIDE DEF size
<1>10. LargeFee(size) <= LargeFee(Estimate(r, p))
  BY <1>7, <1>8, <1>9, LargeFeeGrows
<1>11. LargeFee(size) \in Nat /\ LargeFee(Estimate(r, p)) \in Nat
  BY <1>8, Sizes, Products DEF LargeFee
<1>12. q.fee >= LargeFee(size)
  BY <1>1, <1>10, <1>11
<1> QED
  BY <1>12 DEF size, q

LEMMA PaysByTheByte ==
    ASSUME NEW r \in Requests, r.valid, NEW found \in Lookups(r),
           PlanOf(r, found).error = "none",
           Size(PrepareUnsigned(r, PlanOf(r, found), TRUE)) >= LargeTxSize
    PROVE  PlanOf(r, found).fee
             >= LargeFee(Size(PrepareUnsigned(r, PlanOf(r, found), TRUE)))
<1> DEFINE p == PlanOf(r, found)
           short == Short(r, Selected(r), found)
<1>1. short \subseteq 1..Len(r.outputs)
  BY DEF Short
<1>2. ~(short # {} /\ p = LowBalance(r, Selected(r), short))
  BY <1>1, LowBalanceType
<1>3. p # TooBig(Unpriced(r))
  BY TooBigType
<1>4. ~(~FeeNeeded(r, Unpriced(r)) /\ p = Unpriced(r))
  <2> SUFFICES ASSUME ~FeeNeeded(r, Unpriced(r)), p = Unpriced(r)
               PROVE  FALSE
    OBVIOUS
  <2> HIDE DEF p
  <2>1. Unpriced(r) \in PlanType
    BY UnpricedType
  <2>2. Size(PrepareUnsigned(r, p, TRUE)) <= Estimate(r, Unpriced(r))
    <3>1. Len(PaidOutputs(p.outputs)) \in Nat
      <4>1. p.outputs \in Seq(Payable)
        BY <2>1 DEF PlanType
      <4> QED
        BY <4>1, PaidOutputsType, LenProperties
    <3>2. Len(PaidOutputs(p.outputs)) <= Len(PaidOutputs(p.outputs))
      BY <3>1
    <3> QED
      BY <2>1, <3>2, SizeWithinEstimate
  <2>3. Size(PrepareUnsigned(r, p, TRUE)) \in Nat /\ Estimate(r, Unpriced(r)) \in Nat
    BY <2>1, PreparedType, FeeType
  <2>4. ~(Estimate(r, Unpriced(r)) >= LargeTxSize)
    BY DEF FeeNeeded
  <2>5. Size(PrepareUnsigned(r, p, TRUE)) >= LargeTxSize
    BY DEF p
  <2> DEFINE size == Size(PrepareUnsigned(r, p, TRUE))
             estimate == Estimate(r, Unpriced(r))
  <2>6. /\ size \in Nat /\ estimate \in Nat /\ size <= estimate
        /\ ~(estimate >= LargeTxSize) /\ size >= LargeTxSize
    BY <2>2, <2>3, <2>4, <2>5
  <2> HIDE DEF size, estimate
  <2> QED
    BY <2>6, Sizes
<1>5. CASE GasOutputs(Unpriced(r)) # {} /\ p = WithFee(r, Unpriced(r))
  BY <1>5, UnpricedType, ChargedPaysByTheByte
<1>6. CASE p = WithFee(r, WithGas(r))
  BY <1>6, WithGasType, WithGasParts, ChargedPaysByTheByte
<1> QED
  BY <1>2, <1>3, <1>4, <1>5, <1>6, PlanCases

LEMMA ShortOnlyWhenShort ==
    ASSUME NEW r \in Requests, NEW found \in Lookups(r),
           Len(r.outputs) <= Len(r.inputs),
           \A i, j \in 1..Len(r.outputs) : r.outputs[i].asset = r.outputs[j].asset => i = j,
           PlanOf(r, found).error = "low_balance"
    PROVE  \E i \in 1..Len(r.outputs) :
              Held(r.inputs, r.outputs[i].asset) < r.outputs[i].amount
<1> DEFINE short == Short(r, Selected(r), found)
<1>1. short # {}
  <2>1. /\ Unpriced(r).error # "low_balance"
        /\ TooBig(Unpriced(r)).error # "low_balance"
    BY UnpricedType, TooBigType
  <2>2. GasOutputs(Unpriced(r)) # {} => WithFee(r, Unpriced(r)).error # "low_balance"
    BY UnpricedParts, WithFeeParts DEF PlanParts
  <2>3. WithFee(r, WithGas(r)).error # "low_balance"
    BY WithGasParts, WithFeeParts DEF PlanParts
  <2> QED
    BY <2>1, <2>2, <2>3, PlanCases
<1>2. PICK i \in 1..Len(r.outputs) :
        ~found[i] \/ Held(Selected(r), r.outputs[i].asset) < r.outputs[i].amount
  BY <1>1 DEF Short
<1> DEFINE a == r.outputs[i].asset
<1>3. found[i]
  BY RequestParts DEF Lookups
<1>4. OutputsOf(r, a) = {i}
  BY DEF OutputsOf
<1>5. Required(r, a) = r.outputs[i].amount
  BY <1>4, RequiredOfOne
<1>6. r.outputs[i].amount \in Nat /\ Held(Selected(r), a) \in Nat
  BY RequestParts, SelectedType, HeldType DEF Output
<1>7. Held(Selected(r), a) = Held(r.inputs, a) \/ Required(r, a) < Held(Selected(r), a)
  BY SelectedHolds
<1> HIDE DEF a
<1>8. Held(Selected(r), a) < r.outputs[i].amount
  BY <1>2, <1>3 DEF a
<1>9. Held(r.inputs, a) < r.outputs[i].amount
  BY <1>5, <1>6, <1>7, <1>8
<1> QED
  BY <1>9 DEF a

LEMMA TooBigOnlyWhenShort ==
    ASSUME NEW r \in Requests, NEW found \in Lookups(r),
           PlanOf(r, found).error = "tx_too_big"
    PROVE  Held(r.inputs, Gas) < MinGas
<1> DEFINE short == Short(r, Selected(r), found)
<1>1. Held(Selected(r), Gas) < MinGas \/ ~Has(Selected(r), Gas)
  <2>1. Unpriced(r).error # "tx_too_big"
    BY UnpricedType
  <2>2. GasOutputs(Unpriced(r)) # {} => WithFee(r, Unpriced(r)).error # "tx_too_big"
    BY UnpricedParts, WithFeeParts DEF PlanParts
  <2>3. WithFee(r, WithGas(r)).error # "tx_too_big"
    BY WithGasParts, WithFeeParts DEF PlanParts
  <2>4. short # {} => LowBalance(r, Selected(r), short).error # "tx_too_big"
    BY LowBalanceType DEF Short
  <2> QED
    BY <2>1, <2>2, <2>3, <2>4, PlanCases
<1>2. Held(Selected(r), Gas) = Held(r.inputs, Gas)
  BY SelectedHolds
<1>3. ~Has(Selected(r), Gas) => Held(Selected(r), Gas) = 0
  BY SelectedType, HeldNone
<1> QED
  BY <1>1, <1>2, <1>3, Sizes

-------------------------------------------------------------------------------
(* What there is at each stage follows from the request: the plan is one    *)
(* that can be made for it, and the transaction the one of that plan.       *)
IInv ==
    /\ stage \in {"asked", "planned", "signed", "overrun"}
    /\ request \in Requests
    /\ stage \in {"asked", "overrun"} => plan = NoPlan
    /\ stage \in {"planned", "signed"} =>
          \E found \in Lookups(request) : plan = PlanOf(request, found)
    /\ tx = IF stage = "signed" THEN PrepareUnsigned(request, plan, TRUE) ELSE EmptyTx

LEMMA Inductive == Spec => []IInv
<1>1. Init => IInv
  BY DEF Init, IInv
<1>2. IInv /\ [Next]_vars => IInv'
  <2> SUFFICES ASSUME IInv, [Next]_vars PROVE IInv'
    OBVIOUS
  <2>1. CASE Plan
    BY <2>1 DEF IInv, Plan
  <2>2. CASE Overrun
    BY <2>2 DEF IInv, Overrun
  <2>3. CASE Sign
    BY <2>3 DEF IInv, Sign
  <2>4. CASE UNCHANGED vars
    BY <2>4 DEF IInv, vars
  <2> QED
    BY <2>1, <2>2, <2>3, <2>4 DEF Next
<1> QED
  BY <1>1, <1>2, PTL DEF Spec

(* The types of the plan and of the transaction, which takes the inputs of  *)
(* the plan or none at all.                                                 *)
THEOREM TypeCorrect == Spec => []TypeOK
<1>1. IInv => TypeOK
  <2> SUFFICES ASSUME IInv PROVE TypeOK
    OBVIOUS
  <2>1. plan \in PlanType
    <3>1. CASE stage \in {"asked", "overrun"}
      <4>1. <<>> \in Seq(Input) /\ <<>> \in Seq(Payable) /\ 0 \in Nat
        BY EmptySeq
      <4>2. NoPlan \in PlanType
        BY <4>1, Zenon DEF NoPlan, PlanType, Errors
      <4> QED
        BY <3>1, <4>2 DEF IInv
    <3>2. CASE stage \in {"planned", "signed"}
      BY <3>2, PlanTyped DEF IInv
    <3> QED
      BY <3>1, <3>2 DEF IInv
  <2>2. plan.outputs \in Seq(OutputPlan)
    <3>1. Payable \subseteq OutputPlan
      BY DEF Payable
    <3> QED
      BY <2>1, <3>1, SeqMonotonic DEF PlanType
  <2>3. tx.inputs \in {<<>>, plan.inputs} /\ tx.outputs \in Seq(Input)
    <3>1. CASE stage = "signed"
      <4>1. tx = PrepareUnsigned(request, plan, TRUE)
        BY <3>1 DEF IInv
      <4>2. request \in Requests
        BY DEF IInv
      <4> QED
        BY <2>1, <4>1, <4>2, PreparedType
    <3>2. CASE stage # "signed"
      BY <3>2, EmptySeq DEF IInv, EmptyTx
    <3> QED
      BY <3>1, <3>2
  <2> QED
    BY <2>1, <2>2, <2>3 DEF IInv, TypeOK, PlanType, Input
<1> QED
  BY <1>1, Inductive, PTL

(* Nothing of an asset that is paid to one address is created or lost       *)
(* between selection, plan and signature, whatever the request.             *)
THEOREM NothingIsLost == Spec => []AssetsBalance
<1>1. IInv => AssetsBalance
  <2> SUFFICES ASSUME IInv, stage = "signed", plan.error = "none", tx # EmptyTx,
                      NEW a \in Assets \ {Gas}, NEW i \in OutputsOf(request, a),
                      OutputsOf(request, a) = {i}
               PROVE  Held(tx.inputs, a) = Held(tx.outputs, a)
    BY DEF AssetsBalance
  <2>1. PICK found \in Lookups(request) : plan = PlanOf(request, found)
    BY DEF IInv
  <2>2. request \in Requests /\ tx = PrepareUnsigned(request, plan, TRUE)
    BY DEF IInv
  <2>3. PlanParts(request, plan)
    BY <2>1, <2>2, PlanTyped
  <2>4. \A k \in 1..Len(request.outputs) :
           request.outputs[k].amount <= Held(Selected(request), request.outputs[k].asset)
    BY <2>1, <2>2, EnoughForEach
  <2> QED
    BY <2>2, <2>3, <2>4, Balance
<1> QED
  BY <1>1, Inductive, PTL

(* The selection takes no input of an asset that is paid without need.      *)
THEOREM NoneTakenInVain == Spec => []LastInputNeeded
<1>1. IInv => LastInputNeeded
  <2> SUFFICES ASSUME IInv, Good PROVE Needed(request, plan.inputs)
    BY DEF LastInputNeeded, Needed
  <2>1. request \in Requests /\ plan.inputs = Selected(request)
    BY PlanTyped DEF IInv, Good
  <2> QED
    BY <2>1, SelectedNeeded
<1> QED
  BY <1>1, Inductive, PTL

(* A request whose assets each have one address and an input at its place   *)
(* fails only for what the wallet lacks.                                    *)
THEOREM FailsForWant == Spec => []FailsOnlyWhenShort
<1>1. IInv => FailsOnlyWhenShort
  <2> SUFFICES ASSUME IInv, stage = "planned", OneOutputEach,
                      Len(request.outputs) <= Len(request.inputs)
               PROVE  /\ plan.error = "low_balance" =>
                            \E i \in 1..Len(request.outputs) :
                                Held(request.inputs, request.outputs[i].asset)
                                  < request.outputs[i].amount
                      /\ plan.error = "tx_too_big" => Held(request.inputs, Gas) < MinGas
    BY DEF FailsOnlyWhenShort
  <2>1. PICK found \in Lookups(request) : plan = PlanOf(request, found)
    BY DEF IInv
  <2>2. request \in Requests
    BY DEF IInv
  <2> QED
    BY <2>1, <2>2, ShortOnlyWhenShort, TooBigOnlyWhenShort DEF OneOutputEach
<1> QED
  BY <1>1, Inductive, PTL

(* What the signed transaction leaves to the network is the fee of the      *)
(* plan, when the plan has one output of GAS and change is left in it.      *)
THEOREM FeeIsLeft == Spec => []FeeIsPaid
<1>1. IInv => FeeIsPaid
  <2> SUFFICES ASSUME IInv, Good, stage = "signed", tx # EmptyTx,
                      NEW i \in GasOutputs(plan), GasOutputs(plan) = {i},
                      plan.outputs[i].change >= 0
               PROVE  Held(tx.inputs, Gas) - Held(tx.outputs, Gas) = plan.fee
    BY DEF FeeIsPaid
  <2>1. request \in Requests /\ tx = PrepareUnsigned(request, plan, TRUE)
    BY DEF IInv
  <2>2. PlanParts(request, plan)
    BY <2>1, PlanTyped DEF IInv, Good
  <2> QED
    BY <2>1, <2>2, FeeLeft
<1> QED
  BY <1>1, Inductive, PTL

(* With valid addresses a transaction that is large pays by its size, for   *)
(* any sizes of inputs, outputs and signature: the fee only takes outputs   *)
(* away from the transaction its size was estimated on.                     *)
THEOREM LargePays == Spec => []LargePaysByTheByte
<1>1. IInv => LargePaysByTheByte
  <2> SUFFICES ASSUME IInv, Good, stage = "signed", request.valid,
                      Size(tx) >= LargeTxSize
               PROVE  plan.fee >= LargeFee(Size(tx))
    BY DEF LargePaysByTheByte
  <2>1. PICK found \in Lookups(request) : plan = PlanOf(request, found)
    BY DEF IInv
  <2>2. request \in Requests /\ tx = PrepareUnsigned(request, plan, TRUE)
    BY DEF IInv
  <2>3. plan.error = "none"
    BY DEF Good
  <2> QED
    BY <2>1, <2>2, <2>3, PaysByTheByte
<1> QED
  BY <1>1, Inductive, PTL
================================================================================
