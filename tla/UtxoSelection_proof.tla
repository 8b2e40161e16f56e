-------------------------- MODULE UtxoSelection_proof --------------------------
(***************************************************************************)
(* What the recursive functions of UtxoSelection compute, for lists of any *)
(* length, and that no set of outputs holds more than as many of the       *)
(* largest.  Each fact is proved by the least-number principle: a list on  *)
(* which it fails would have a shortest such beginning.                    *)
(***************************************************************************)
EXTENDS UtxoSelection, ListInduction, FiniteSetTheorems, FiniteSetsExt

(* Total is the last of the partial sums. *)
PartialSums(s, sum) ==
    /\ sum \in [0..Len(s) -> Nat]
    /\ sum[0] = 0
    /\ \A i \in 1..Len(s) : sum[i] = sum[i - 1] + s[i]

LEMMA TotalSums ==
    ASSUME NEW s \in Seq(Nat)
    PROVE  \E sum : PartialSums(s, sum) /\ Total(s) = sum[Len(s)]
<1> DEFINE n == Len(s)
           Is(f) == f = [i \in 0..n |-> IF i = 0 THEN 0 ELSE f[i - 1] + s[i]]
           F == [i \in 1..n |-> [x \in Nat |-> x + s[i]]]
<1>1. n \in Nat /\ \A i \in 1..n : s[i] \in Nat
  OBVIOUS
<1>2. F \in [1..n -> [Nat -> Nat]]
  BY <1>1
<1>3. PICK f : Solves(f, n, Nat, 0, F)
  <2> HIDE DEF F
  <2> QED
    BY <1>1, <1>2, Recursion
<1>4. Is(f)
  <2>1. ASSUME NEW i \in 1..n
        PROVE  i - 1 \in 0..n /\ f[i] = f[i - 1] + s[i]
    <3>1. i - 1 \in 0..n
      BY <1>1
    <3>2. f[i - 1] \in Nat /\ f[i] = F[i][f[i - 1]]
      <4> HIDE DEF F
      <4> QED
        BY <1>3, <3>1 DEF Solves
    <3>3. F[i][f[i - 1]] = f[i - 1] + s[i]
      BY <3>2
    <3> QED
      BY <3>1, <3>2, <3>3
  <2>2. f = [i \in 0..n |-> f[i]]
    BY <1>3 DEF Solves
  <2>3. \A i \in 0..n : f[i] = IF i = 0 THEN 0 ELSE f[i - 1] + s[i]
    BY <2>1, <1>1, <1>3 DEF Solves
  <2> QED
    BY <2>2, <2>3
<1> DEFINE sum == CHOOSE g : Is(g)
<1>5. Is(sum)
  BY <1>4
<1>6. Total(s) = sum[n]
  BY DEF Total
<1> HIDE DEF sum
<1>7. sum[0] = 0 /\ \A i \in 1..n : sum[i] = sum[i - 1] + s[i]
  BY <1>1, <1>5
<1>8. \A i \in 0..n : sum[i] \in Nat
  <2> DEFINE G == {i \in 0..n : sum[i] \in Nat}
  <2>1. 0 \in G
    BY <1>7, <1>1
  <2>2. \A i \in 1..n : i - 1 \in G => i \in G
    BY <1>7, <1>1, SMTT(30)
  <2>3. G \subseteq 0..n
    OBVIOUS
  <2>4. G = 0..n
    <3> HIDE DEF G
    <3> QED
      BY <2>1, <2>2, <2>3, <1>1, UpTo
  <2> QED
    BY <2>4
<1>9. sum \in [0..n -> Nat]
  <2>1. sum = [i \in 0..n |-> sum[i]]
    BY <1>5
  <2> QED
    BY <2>1, <1>8
<1> QED
  BY <1>6, <1>7, <1>9 DEF PartialSums

(* Partial sums are determined by the list. *)
LEMMA SumsUnique ==
    ASSUME NEW s \in Seq(Nat), NEW n \in 0..Len(s), NEW f, NEW g,
           f[0] = g[0],
           \A i \in 1..n : f[i] = f[i - 1] + s[i],
           \A i \in 1..n : g[i] = g[i - 1] + s[i]
    PROVE  f[n] = g[n]
<1> DEFINE G == {i \in 0..n : f[i] = g[i]}
<1>1. 0 \in G
  OBVIOUS
<1>2. \A i \in 1..n : i - 1 \in G => i \in G
  OBVIOUS
<1>3. G = 0..n
  <2>1. G \subseteq 0..n /\ n \in Nat
    OBVIOUS
  <2> HIDE DEF G
  <2> QED
    BY <1>1, <1>2, <2>1, UpTo
<1>4. n \in G
  <2>1. n \in 0..n
    OBVIOUS
  <2> HIDE DEF G
  <2> QED
    BY <1>3, <2>1
<1> QED
  BY <1>4

LEMMA TotalType ==
    ASSUME NEW s \in Seq(Nat)
    PROVE  Total(s) \in Nat
BY TotalSums DEF PartialSums

LEMMA TotalEmpty == Total(<<>>) = 0
<1>1. PICK sum : PartialSums(<<>>, sum) /\ Total(<<>>) = sum[Len(<<>>)]
  <2>1. <<>> \in Seq(Nat)
    OBVIOUS
  <2> QED
    BY <2>1, TotalSums
<1> QED
  BY <1>1 DEF PartialSums

LEMMA TotalOfFew ==
    ASSUME NEW s \in Seq(Nat), Len(s) \in 1..3
    PROVE  Total(s) = s[1] + (IF Len(s) > 1 THEN s[2] ELSE 0) + (IF Len(s) > 2 THEN s[3] ELSE 0)
<1>1. PICK sum : PartialSums(s, sum) /\ Total(s) = sum[Len(s)]
  BY TotalSums
<1>2. \A i \in 1..Len(s) : s[i] \in Nat
  OBVIOUS
<1>3. sum[0] = 0 /\ sum[1] = sum[0] + s[1]
  BY <1>1 DEF PartialSums
<1>4. CASE Len(s) = 1
  BY <1>1, <1>2, <1>3, <1>4
<1>5. CASE Len(s) = 2
  <2>1. sum[2] = sum[1] + s[2]
    BY <1>1, <1>5 DEF PartialSums
  <2> QED
    BY <1>1, <1>2, <1>3, <1>5, <2>1
<1>6. CASE Len(s) = 3
  <2>1. sum[2] = sum[1] + s[2] /\ sum[3] = sum[2] + s[3]
    BY <1>1, <1>6 DEF PartialSums
  <2> QED
    BY <1>1, <1>2, <1>3, <1>6, <2>1
<1> QED
  BY <1>4, <1>5, <1>6

LEMMA TotalAppend ==
    ASSUME NEW s \in Seq(Nat), NEW a \in Nat
    PROVE  Total(Append(s, a)) = Total(s) + a
<1> DEFINE t == Append(s, a)
           n == Len(s)
<1>1. t \in Seq(Nat) /\ Len(t) = n + 1 /\ t[n + 1] = a /\ \A i \in 1..n : t[i] = s[i]
  OBVIOUS
<1> HIDE DEF t
<1>2. PICK f : PartialSums(s, f) /\ Total(s) = f[n]
  BY TotalSums
<1>3. PICK g : PartialSums(t, g) /\ Total(t) = g[n + 1]
  BY <1>1, TotalSums
<1>4. \A i \in 1..n : g[i] = g[i - 1] + s[i]
  BY <1>1, <1>3 DEF PartialSums
<1>5. f[n] = g[n]
  <2>1. f[0] = g[0]
    BY <1>2, <1>3 DEF PartialSums
  <2>2. \A i \in 1..n : f[i] = f[i - 1] + s[i]
    BY <1>2 DEF PartialSums
  <2> QED
    BY <1>4, <2>1, <2>2, SumsUnique, SMTT(30)
<1>6. g[n + 1] = g[n] + a
  <2>1. n + 1 \in 1..Len(t) /\ (n + 1) - 1 = n
    BY <1>1
  <2>2. g[n + 1] = g[(n + 1) - 1] + t[n + 1]
    BY <1>3, <2>1 DEF PartialSums
  <2> QED
    BY <1>1, <2>1, <2>2
<1> QED
  BY <1>2, <1>3, <1>5, <1>6 DEF t

(* The lists filterThreshold builds, one for each beginning of the list. *)
Kept(s, limit, kept) ==
    /\ kept \in [0..Len(s) -> Seq(Nat)]
    /\ kept[0] = <<>>
    /\ \A i \in 1..Len(s) :
          kept[i] = IF s[i] > limit THEN Append(kept[i - 1], s[i]) ELSE kept[i - 1]

LEMMA FilterKeeps ==
    ASSUME NEW s \in Seq(Nat), NEW limit \in Nat
    PROVE  \E kept : Kept(s, limit, kept) /\ FilterThreshold(s, limit) = kept[Len(s)]
<1> DEFINE n == Len(s)
           Is(f) == f = [i \in 0..n |->
                            IF i = 0 THEN <<>>
                            ELSE IF s[i] > limit THEN Append(f[i - 1], s[i]) ELSE f[i - 1]]
           F == [i \in 1..n |->
                    [x \in Seq(Nat) |-> IF s[i] > limit THEN Append(x, s[i]) ELSE x]]
<1>1. n \in Nat /\ \A i \in 1..n : s[i] \in Nat
  OBVIOUS
<1>2. F \in [1..n -> [Seq(Nat) -> Seq(Nat)]]
  BY <1>1
<1>3. PICK f : Solves(f, n, Seq(Nat), <<>>, F)
  <2>1. <<>> \in Seq(Nat)
    OBVIOUS
  <2> HIDE DEF F
  <2> QED
    BY <1>1, <1>2, <2>1, Recursion
<1>4. ASSUME NEW i \in 1..n
      PROVE  f[i] = IF s[i] > limit THEN Append(f[i - 1], s[i]) ELSE f[i - 1]
  <2>1. i - 1 \in 0..n
    BY <1>1
  <2>2. f[i - 1] \in Seq(Nat) /\ f[i] = F[i][f[i - 1]]
    <3> HIDE DEF F
    <3> QED
      BY <1>3, <2>1 DEF Solves
  <2> QED
    BY <2>2
<1>5. f \in [0..n -> Seq(Nat)] /\ f[0] = <<>>
  <2> HIDE DEF F
  <2> QED
    BY <1>3 DEF Solves
<1>6. Is(f)
  <2>1. f = [i \in 0..n |-> f[i]]
    BY <1>5
  <2>2. \A i \in 0..n :
           f[i] = IF i = 0 THEN <<>>
                  ELSE IF s[i] > limit THEN Append(f[i - 1], s[i]) ELSE f[i - 1]
    <3>1. \A i \in 0..n : i = 0 \/ i \in 1..n
      BY <1>1
    <3>2. \A i \in 1..n : i # 0
      OBVIOUS
    <3> QED
      BY <1>4, <1>5, <3>1, <3>2
  <2> QED
    BY <2>1, <2>2
<1> DEFINE kept == CHOOSE g : Is(g)
<1>7. Is(kept)
  BY <1>6
<1>8. FilterThreshold(s, limit) = kept[n]
  BY DEF FilterThreshold
<1> HIDE DEF kept, F
<1>9. kept[0] = <<>>
  <2>1. 0 \in 0..n
    BY <1>1
  <2> QED
    BY <1>7, <2>1
<1>10. \A i \in 1..n :
          kept[i] = IF s[i] > limit THEN Append(kept[i - 1], s[i]) ELSE kept[i - 1]
  <2>1. \A i \in 1..n : i \in 0..n /\ i # 0
    BY <1>1
  <2> QED
    BY <1>7, <2>1
<1>11. \A i \in 0..n : kept[i] \in Seq(Nat)
  <2> DEFINE G == {i \in 0..n : kept[i] \in Seq(Nat)}
  <2>1. 0 \in G
    <3>1. 0 \in 0..n /\ <<>> \in Seq(Nat)
      BY <1>1
    <3> QED
      BY <1>9, <3>1
  <2>2. ASSUME NEW i \in 1..n, i - 1 \in G
        PROVE  i \in G
    <3>1. i \in 0..n /\ s[i] \in Nat /\ kept[i - 1] \in Seq(Nat)
      BY <1>1, <2>2
    <3>2. Append(kept[i - 1], s[i]) \in Seq(Nat)
      BY <3>1
    <3>3. kept[i] \in Seq(Nat)
      BY <1>10, <3>1, <3>2
    <3> QED
      BY <3>1, <3>3
  <2>3. G \subseteq 0..n
    OBVIOUS
  <2>4. G = 0..n
    <3> HIDE DEF G
    <3> QED
      BY <2>1, <2>2, <2>3, <1>1, UpTo
  <2> QED
    BY <2>4
<1>12. kept \in [0..n -> Seq(Nat)]
  <2>1. kept = [i \in 0..n |-> kept[i]]
    BY <1>7
  <2> QED
    BY <2>1, <1>11
<1> QED
  BY <1>8, <1>9, <1>10, <1>12 DEF Kept

(* What is left of a list of unspent outputs is no longer than the list, is *)
(* worth more than the limit, output by output, and what is taken away is   *)
(* worth at most the limit for each output taken away.                      *)
LEMMA FilterResult ==
    ASSUME NEW s \in Seq(Nat), NEW limit \in Nat
    PROVE  LET left == FilterThreshold(s, limit) IN
           /\ left \in Seq(Nat)
           /\ Len(left) <= Len(s)
           /\ \A j \in 1..Len(left) : left[j] > limit
           /\ Total(s) <= Total(left) + limit * (Len(s) - Len(left))
<1> DEFINE n == Len(s)
<1>1. n \in Nat /\ \A i \in 1..n : s[i] \in Nat
  OBVIOUS
<1>2. PICK kept : Kept(s, limit, kept) /\ FilterThreshold(s, limit) = kept[n]
  BY FilterKeeps
<1>3. PICK sum : PartialSums(s, sum) /\ Total(s) = sum[n]
  BY TotalSums
<1> DEFINE Above(t) == \A j \in 1..Len(t) : t[j] > limit
           G == {i \in 0..n : /\ Len(kept[i]) <= i
                              /\ Above(kept[i])
                              /\ sum[i] <= Total(kept[i]) + limit * (i - Len(kept[i]))}
<1>4. 0 \in G
  <2>1. kept[0] = <<>> /\ sum[0] = 0
    BY <1>2, <1>3 DEF Kept, PartialSums
  <2>2. Len(<<>>) = 0 /\ Above(<<>>) /\ 0 <= 0 + limit * (0 - 0) /\ 0 \in 0..n
    BY <1>1
  <2> QED
    BY <2>1, <2>2, TotalEmpty
<1>5. ASSUME NEW i \in 1..n, i - 1 \in G
      PROVE  i \in G
  <2> DEFINE t == kept[i - 1]
             u == kept[i]
             lost == limit * (i - Len(u))
             before == limit * (i - 1 - Len(t))
  <2>1. i \in 0..n /\ i - 1 \in 0..n /\ s[i] \in Nat
    BY <1>1
  <2>2. t \in Seq(Nat) /\ u \in Seq(Nat) /\ sum[i - 1] \in Nat
    BY <1>2, <1>3, <2>1 DEF Kept, PartialSums
  <2>3. sum[i] = sum[i - 1] + s[i]
    BY <1>3 DEF PartialSums
  <2>4. Len(t) <= i - 1 /\ Above(t) /\ sum[i - 1] <= Total(t) + before
    BY <1>5
  <2>5. u = IF s[i] > limit THEN Append(t, s[i]) ELSE t
    BY <1>2 DEF Kept
  <2>6. Total(t) \in Nat /\ Total(u) \in Nat
    BY <2>2, TotalType
  <2>7. /\ before \in Nat
        /\ Len(u) = Len(t) + 1 => lost = before
        /\ Len(u) = Len(t) => lost = before + limit
    <3> HIDE DEF t, u
    <3>1. i - 1 - Len(t) \in Nat /\ Len(t) \in Nat
      BY <2>1, <2>2, <2>4
    <3>2. limit * (i - 1 - Len(t)) \in Nat
      <4>1. \A x \in Nat : limit * x \in Nat
        OBVIOUS
      <4> QED
        BY <3>1, <4>1
    <3>3. Len(u) = Len(t) + 1 => i - Len(u) = i - 1 - Len(t)
      BY <2>1, <3>1
    <3>4. Len(u) = Len(t) => i - Len(u) = (i - 1 - Len(t)) + 1
      BY <2>1, <3>1
    <3>5. \A x \in Nat : limit * (x + 1) = limit * x + limit
      OBVIOUS
    <3> QED
      BY <3>1, <3>2, <3>3, <3>4, <3>5
  <2> HIDE DEF t, u, lost, before
  <2>8. CASE s[i] > limit
    <3>1. u = Append(t, s[i])
      BY <2>5, <2>8
    <3>2. Total(u) = Total(t) + s[i]
      BY <2>1, <2>2, <3>1, TotalAppend
    <3>3. Len(u) <= i /\ Len(u) = Len(t) + 1
      BY <2>1, <2>2, <2>4, <3>1
    <3>4. Above(u)
      BY <2>1, <2>2, <2>4, <2>8, <3>1
    <3>5. sum[i] <= Total(u) + lost
      <4>1. sum[i - 1] <= Total(t) + before /\ lost = before
        BY <2>4, <2>7, <3>3
      <4>2. \A x, y, z, w \in Nat : x <= y + w => x + z <= (y + z) + w
        OBVIOUS
      <4>3. sum[i - 1] + s[i] <= (Total(t) + s[i]) + before
        BY <2>1, <2>2, <2>6, <2>7, <4>1, <4>2
      <4> QED
        BY <2>3, <3>2, <4>1, <4>3
    <3> QED
      BY <2>1, <3>3, <3>4, <3>5 DEF u, lost
  <2>9. CASE ~(s[i] > limit)
    <3>1. u = t
      BY <2>5, <2>9
    <3>2. Len(u) <= i /\ Len(u) = Len(t)
      BY <2>1, <2>2, <2>4, <3>1
    <3>3. sum[i] <= Total(u) + lost
      <4>1. sum[i - 1] <= Total(t) + before /\ s[i] <= limit /\ lost = before + limit
        BY <2>1, <2>4, <2>7, <2>9, <3>2
      <4>2. \A x, y, z, w, v \in Nat : x <= y + w /\ z <= v => x + z <= y + (w + v)
        OBVIOUS
      <4>3. sum[i - 1] + s[i] <= Total(t) + (before + limit)
        BY <2>1, <2>2, <2>6, <2>7, <4>1, <4>2
      <4> QED
        BY <2>3, <3>1, <4>1, <4>3
    <3> QED
      BY <2>1, <2>4, <3>1, <3>2, <3>3 DEF u, lost
  <2> QED
    BY <2>8, <2>9
<1>6. G = 0..n
  <2>1. G \subseteq 0..n
    OBVIOUS
  <2> HIDE DEF G
  <2> QED
    BY <1>1, <1>4, <1>5, <2>1, UpTo
<1>7. n \in G
  <2>1. n \in 0..n
    BY <1>1
  <2> HIDE DEF G
  <2> QED
    BY <1>6, <2>1
<1>8. kept[n] \in Seq(Nat)
  BY <1>1, <1>2 DEF Kept
<1> QED
  BY <1>2, <1>3, <1>7, <1>8

(* A slice of a list of unspent outputs is one, of the length asked for. *)
LEMMA SliceType ==
    ASSUME NEW s \in Seq(Nat), NEW i \in 1..(Len(s) + 1), NEW m \in (i - 1)..Len(s)
    PROVE  LET part == SubSeq(s, i, m) IN
           /\ part \in Seq(Nat)
           /\ Len(part) = m - i + 1
           /\ \A j \in 1..Len(part) : part[j] = s[i + j - 1]
BY SMTT(30)

(* Some element of a list that is not empty is greatest. *)
LEMMA Greatest ==
    ASSUME NEW s \in Seq(Nat), Len(s) > 0
    PROVE  \E m \in 1..Len(s) : \A i \in 1..Len(s) : s[i] <= s[m]
<1> DEFINE n == Len(s)
           G == {i \in 0..n : i > 0 => \E m \in 1..n : \A j \in 1..i : s[j] <= s[m]}
<1>1. n \in Nat /\ \A i \in 1..n : s[i] \in Nat
  OBVIOUS
<1>2. 0 \in G
  BY <1>1
<1>3. ASSUME NEW i \in 1..n, i - 1 \in G
      PROVE  i \in G
  <2>1. CASE i = 1
    <3>1. \A j \in 1..i : s[j] <= s[1]
      BY <2>1, <1>1
    <3> QED
      BY <2>1, <3>1, <1>1
  <2>2. CASE i # 1
    <3>1. PICK m \in 1..n : \A j \in 1..(i - 1) : s[j] <= s[m]
      BY <1>3, <2>2
    <3>2. CASE s[i] <= s[m]
      <4>1. \A j \in 1..i : s[j] <= s[m]
        BY <3>1, <3>2
      <4> QED
        BY <4>1
    <3>3. CASE ~(s[i] <= s[m])
      <4>1. \A j \in 1..i : s[j] <= s[i]
        BY <1>1, <3>1, <3>3, SMTT(30)
      <4> QED
        BY <4>1
    <3> QED
      BY <3>2, <3>3
  <2> QED
    BY <2>1, <2>2
<1>4. G = 0..n
  <2>1. G \subseteq 0..n
    OBVIOUS
  <2> HIDE DEF G
  <2> QED
    BY <1>1, <1>2, <1>3, <2>1, UpTo
<1>5. n \in G
  <2>1. n \in 0..n
    BY <1>1
  <2> HIDE DEF G
  <2> QED
    BY <1>4, <2>1
<1> QED
  BY <1>5

LEMMA LeastIn ==
    ASSUME NEW S, S \subseteq Nat, S # {}
    PROVE  Least(S) \in S /\ \A n \in S : Least(S) <= n
BY LeastNumber DEF Least

(* Sorting keeps the length and the type. *)
LEMMA SortedType ==
    ASSUME NEW s \in Seq(Nat)
    PROVE  Sorted(s) \in Seq(Nat) /\ Len(Sorted(s)) = Len(s)
<1> DEFINE n == Len(s)
           places == 1..n
           upTo(a) == Cardinality({i \in places : s[i] <= a})
           values(k) == {a \in {s[i] : i \in places} : upTo(a) >= k}
<1>1. n \in Nat /\ \A i \in places : s[i] \in Nat
  OBVIOUS
<1>2. ASSUME NEW k \in places
      PROVE  Least(values(k)) \in Nat
  <2>1. PICK m \in places : \A i \in places : s[i] <= s[m]
    <3>1. n > 0
      BY <1>1
    <3> QED
      BY <3>1, Greatest
  <2>2. {i \in places : s[i] <= s[m]} = places
    BY <2>1
  <2>3. upTo(s[m]) = n
    <3>1. 1 \in Int /\ n \in Int /\ ~(1 > n)
      BY <1>1
    <3>2. Cardinality(places) = n
      <4>1. Cardinality(places) = IF 1 > n THEN 0 ELSE n - 1 + 1
        BY <3>1, FS_Interval
      <4> QED
        BY <1>1, <3>1, <4>1
    <3> QED
      BY <2>2, <3>2
  <2>4. s[m] \in values(k)
    <3> HIDE DEF upTo
    <3>1. upTo(s[m]) >= k
      BY <1>1, <2>3
    <3> QED
      BY <2>1, <3>1
  <2>5. values(k) \subseteq Nat
    BY <1>1
  <2> HIDE DEF values
  <2> QED
    BY <2>4, <2>5, LeastIn
<1>3. Sorted(s) = [k \in places |-> Least(values(k))]
  BY DEF Sorted
<1> HIDE DEF values
<1> QED
  BY <1>1, <1>2, <1>3

LEMMA CeilType ==
    ASSUME NEW q \in Nat
    PROVE  CeilOfQuarters(q) \in Nat
BY DEF CeilOfQuarters

LEMMA FeeType ==
    ASSUME NEW inputs \in Nat, NEW outputs \in Nat, NEW byteFee \in Nat
    PROVE  Calculate(inputs, outputs, byteFee) \in Nat /\ SingleInput(byteFee) \in Nat
<1>1. \A x, y \in Nat : x * y \in Nat
  OBVIOUS
<1>2. CeilOfQuarters(InputQuarters * inputs) \in Nat /\ CeilOfQuarters(InputQuarters) \in Nat
  BY <1>1, CalculatorAssumption, CeilType
<1>3. CeilOfQuarters(InputQuarters * inputs) + OutputBytes * outputs + BaseBytes \in Nat
  BY <1>1, <1>2, CalculatorAssumption
<1> QED
  BY <1>1, <1>2, <1>3 DEF Calculate, SingleInput

(* A calculator of whole bytes per input charges each input what it costs   *)
(* alone.  One that rounds up does not: a single input of 101.25 bytes      *)
(* costs 102, four of them 405.                                             *)
LEMMA WholeBytes ==
    ASSUME InputQuarters % 4 = 0,
           NEW outputs \in Nat, NEW byteFee \in Nat
    PROVE  \E base \in Nat : \A inputs \in Nat :
              Calculate(inputs, outputs, byteFee) = SingleInput(byteFee) * inputs + base
<1> DEFINE bytes == InputQuarters \div 4
           rest == OutputBytes * outputs + BaseBytes
<1>1. bytes \in Nat /\ InputQuarters = 4 * bytes
  BY CalculatorAssumption
<1>2. \A x, y \in Nat : x * y \in Nat
  OBVIOUS
<1>3. rest \in Nat
  BY <1>2, CalculatorAssumption
<1> HIDE DEF bytes, rest
<1>4. \A x \in Nat : CeilOfQuarters(4 * x) = x
  BY DEF CeilOfQuarters
<1>5. CeilOfQuarters(InputQuarters) = bytes
  BY <1>1, <1>4
<1>6. SingleInput(byteFee) = bytes * byteFee
  BY <1>5 DEF SingleInput
<1>7. ASSUME NEW inputs \in Nat
      PROVE  Calculate(inputs, outputs, byteFee) = SingleInput(byteFee) * inputs + rest * byteFee
  <2>1. bytes * inputs \in Nat /\ OutputBytes * outputs \in Nat
    BY <1>1, <1>2, CalculatorAssumption
  <2>2. CeilOfQuarters(InputQuarters * inputs) = bytes * inputs
    <3>1. InputQuarters * inputs = 4 * (bytes * inputs)
      BY <1>1
    <3> QED
      BY <1>4, <2>1, <3>1
  <2>3. Calculate(inputs, outputs, byteFee) = (bytes * inputs + rest) * byteFee
    <3> DEFINE ceil == CeilOfQuarters(InputQuarters * inputs)
    <3>1. Calculate(inputs, outputs, byteFee)
              = (ceil + OutputBytes * outputs + BaseBytes) * byteFee
      BY DEF Calculate
    <3>2. ceil = bytes * inputs
      BY <2>2
    <3>3. \A x, y, z \in Nat : x + y + z = x + (y + z)
      OBVIOUS
    <3> HIDE DEF ceil
    <3> QED
      BY <2>1, <3>1, <3>2, <3>3, CalculatorAssumption DEF rest
  <2>4. (bytes * inputs + rest) * byteFee = (bytes * byteFee) * inputs + rest * byteFee
    BY <1>1, <1>3
  <2> QED
    BY <1>6, <2>3, <2>4
<1>8. rest * byteFee \in Nat
  BY <1>2, <1>3
<1> QED
  BY <1>7, <1>8

(* Whatever select() returns is nothing, or what is above dust in some      *)
(* outputs of the list that hold the target and the fee of them all.        *)
LEMMA SelectFilters ==
    ASSUME NEW s \in Seq(Nat), NEW target \in Nat, NEW byteFee \in Nat,
           NEW outputs \in Nat, NEW chosen \in Select(s, target, byteFee, outputs)
    PROVE  \/ chosen = <<>>
           \/ \E part \in Seq(Nat) :
                 /\ Len(part) <= Len(s)
                 /\ Total(part) >= target + Calculate(Len(part), outputs, byteFee)
                 /\ chosen = FilterOutDust(part, byteFee)
<1> DEFINE sorted == Sorted(s)
           withFee == [size \in 1..Len(sorted) |-> target + Calculate(size, outputs, byteFee)]
           withFeeAndDust == [size \in 1..Len(sorted) |-> withFee[size] + SingleInput(byteFee)]
           far(size, i) == Distance(Total(Slice(sorted, size, i)), 2 * target)
           clean == Sizes(sorted, withFeeAndDust)
           dusty == Sizes(sorted, withFee)
           Holds(part) == /\ part \in Seq(Nat)
                          /\ Len(part) <= Len(s)
                          /\ Total(part) >= target + Calculate(Len(part), outputs, byteFee)
<1>1. sorted \in Seq(Nat) /\ Len(sorted) = Len(s) /\ Len(s) \in Nat
  BY SortedType
<1> HIDE DEF sorted
<1>2. ASSUME NEW size \in 1..Len(sorted), NEW i \in Enough(sorted, size, withFee[size])
      PROVE  Holds(Slice(sorted, size, i))
  <2>1. i \in 1..(Len(sorted) - size + 1)
        /\ Total(Slice(sorted, size, i)) >= target + Calculate(size, outputs, byteFee)
    BY <1>2 DEF Enough
  <2>2. i \in 1..(Len(sorted) + 1) /\ i + size - 1 \in (i - 1)..Len(sorted)
    BY <1>1, <2>1
  <2>3. Slice(sorted, size, i) \in Seq(Nat) /\ Len(Slice(sorted, size, i)) = size
    <3>1. Slice(sorted, size, i) \in Seq(Nat)
          /\ Len(Slice(sorted, size, i)) = (i + size - 1) - i + 1
      BY <1>1, <2>2, SliceType DEF Slice
    <3> QED
      BY <1>1, <2>1, <3>1
  <2> QED
    BY <1>1, <2>1, <2>3
<1>3. ASSUME NEW size \in 1..Len(sorted), NEW i \in Enough(sorted, size, withFeeAndDust[size])
      PROVE  i \in Enough(sorted, size, withFee[size])
  <2>1. i \in 1..(Len(sorted) - size + 1)
        /\ Total(Slice(sorted, size, i)) >= withFee[size] + SingleInput(byteFee)
    BY <1>3 DEF Enough
  <2>2. withFee[size] \in Nat /\ SingleInput(byteFee) \in Nat
    <3>1. size \in Nat
      BY <1>1
    <3>2. Calculate(size, outputs, byteFee) \in Nat /\ SingleInput(byteFee) \in Nat
      BY <3>1, FeeType
    <3> QED
      BY <3>2
  <2>3. Total(Slice(sorted, size, i)) \in Nat
    <3>1. i \in 1..(Len(sorted) + 1) /\ i + size - 1 \in (i - 1)..Len(sorted)
      BY <1>1, <2>1
    <3> QED
      BY <1>1, <3>1, SliceType, TotalType DEF Slice
  <2> HIDE DEF withFee
  <2> QED
    BY <2>1, <2>2, <2>3 DEF Enough
<1>4. /\ clean \subseteq 1..Len(sorted)
      /\ dusty \subseteq 1..Len(sorted)
      /\ \A size \in dusty : Enough(sorted, size, withFee[size]) # {}
  BY DEF Sizes
<1> HIDE DEF withFee, withFeeAndDust, Holds, far, clean, dusty
<1>5. CASE target = 0 \/ Total(s) < target
  BY <1>5 DEF Select
<1>6. CASE ~(target = 0 \/ Total(s) < target) /\ clean # {}
  <2> DEFINE size == Least(clean)
             enough == Enough(sorted, size, withFeeAndDust[size])
  <2>1. chosen \in {FilterOutDust(Slice(sorted, size, i), byteFee) :
                        i \in {j \in enough : \A k \in enough : far(size, j) <= far(size, k)}}
    BY <1>6 DEF Select, sorted, withFee, withFeeAndDust, far, clean, dusty
  <2>2. size \in 1..Len(sorted)
    <3>1. clean \subseteq Nat
      BY <1>1, <1>4
    <3> QED
      BY <1>4, <1>6, <3>1, LeastIn
  <2> HIDE DEF size
  <2>3. PICK i \in enough : chosen = FilterOutDust(Slice(sorted, size, i), byteFee)
    BY <2>1
  <2>4. Holds(Slice(sorted, size, i))
    BY <1>2, <1>3, <2>2, <2>3
  <2> QED
    BY <2>3, <2>4 DEF Holds
<1>7. CASE ~(target = 0 \/ Total(s) < target) /\ clean = {} /\ dusty # {}
  <2> DEFINE size == Least(dusty)
             first == Least(Enough(sorted, size, withFee[size]))
  <2>1. chosen = FilterOutDust(Slice(sorted, size, first), byteFee)
    BY <1>7 DEF Select, sorted, withFee, withFeeAndDust, far, clean, dusty
  <2>2. size \in dusty /\ size \in 1..Len(sorted)
    <3>1. dusty \subseteq Nat
      BY <1>1, <1>4
    <3> QED
      BY <1>4, <1>7, <3>1, LeastIn
  <2> HIDE DEF size
  <2>3. first \in Enough(sorted, size, withFee[size])
    <3>1. Enough(sorted, size, withFee[size]) # {}
      BY <1>4, <2>2
    <3>2. Enough(sorted, size, withFee[size]) \subseteq Nat
      BY DEF Enough
    <3> QED
      BY <3>1, <3>2, LeastIn
  <2> HIDE DEF first
  <2>4. Holds(Slice(sorted, size, first))
    BY <1>2, <2>2, <2>3
  <2> QED
    BY <2>1, <2>4 DEF Holds
<1>8. CASE ~(target = 0 \/ Total(s) < target) /\ clean = {} /\ dusty = {}
  BY <1>8 DEF Select, sorted, withFee, withFeeAndDust, far, clean, dusty
<1> QED
  BY <1>5, <1>6, <1>7, <1>8

(* selectSimple() returns nothing or a beginning of what is above dust,     *)
(* and that holds the target.                                               *)
LEMMA SimpleTakes ==
    ASSUME NEW s \in Seq(Nat), NEW target \in Nat, NEW byteFee \in Nat, NEW outputs \in Nat
    PROVE  LET chosen == SelectSimple(s, target, byteFee, outputs)
               worthy == FilterOutDust(s, byteFee)
           IN  \/ chosen = <<>>
               \/ \E i \in 1..Len(worthy) :
                     chosen = SubSeq(worthy, 1, i) /\ Total(chosen) >= target
<1> DEFINE worthy == FilterOutDust(s, byteFee)
           fee == Calculate(Len(s), outputs, byteFee)
           increased == (target * 11) \div 10 + fee + 1000
           reached == {i \in 1..Len(worthy) : Total(SubSeq(worthy, 1, i)) >= increased}
<1>1. fee \in Nat
  <2>1. Len(s) \in Nat
    OBVIOUS
  <2> QED
    BY <2>1, FeeType
<1>2. increased \in Nat /\ increased >= target
  <2> HIDE DEF fee
  <2> QED
    BY <1>1
<1>3. worthy \in Seq(Nat)
  <2>1. SingleInput(byteFee) \in Nat
    BY FeeType
  <2> QED
    BY <2>1, FilterResult DEF FilterOutDust
<1>4. SelectSimple(s, target, byteFee, outputs)
        = IF target = 0 \/ reached = {} THEN <<>> ELSE SubSeq(worthy, 1, Least(reached))
  BY DEF SelectSimple
<1> HIDE DEF worthy, increased
<1>5. ASSUME reached # {}
      PROVE  /\ Least(reached) \in 1..Len(worthy)
             /\ Total(SubSeq(worthy, 1, Least(reached))) >= target
  <2>1. reached \subseteq Nat
    OBVIOUS
  <2>2. PICK i : i = Least(reached) /\ i \in reached
    BY <1>5, <2>1, LeastIn
  <2>3. SubSeq(worthy, 1, i) \in Seq(Nat)
    <3>1. Len(worthy) \in Nat /\ i \in 1..Len(worthy)
      BY <1>3, <2>2
    <3>2. 1 \in 1..(Len(worthy) + 1) /\ i \in (1 - 1)..Len(worthy)
      BY <3>1
    <3> QED
      BY <1>3, <3>2, SliceType
  <2>4. Total(SubSeq(worthy, 1, i)) \in Nat
    BY <2>3, TotalType
  <2>5. i \in 1..Len(worthy) /\ Total(SubSeq(worthy, 1, i)) >= increased
    BY <2>2
  <2> HIDE DEF reached
  <2> QED
    BY <1>2, <2>2, <2>4, <2>5
<1> HIDE DEF reached
<1> QED
  BY <1>4, <1>5 DEF worthy
-------------------------------------------------------------------------------
(* Sets of the places of a list, and their sums. *)
LEMMA Places ==
    ASSUME NEW n \in Nat
    PROVE  /\ IsFiniteSet(1..n) /\ Cardinality(1..n) = n
           /\ \A S \in SUBSET (1..n) :
                 /\ IsFiniteSet(S) /\ Cardinality(S) \in 0..n
                 /\ Cardinality(S) = 0 <=> S = {}
                 /\ \A x \in S : Cardinality(S \ {x}) = Cardinality(S) - 1
<1>1. IsFiniteSet(1..n) /\ Cardinality(1..n) = n
  <2>1. IsFiniteSet(1..n) /\ Cardinality(1..n) = IF 1 > n THEN 0 ELSE n - 1 + 1
    BY FS_Interval
  <2> QED
    BY <2>1
<1>2. ASSUME NEW S \in SUBSET (1..n)
      PROVE  /\ IsFiniteSet(S) /\ Cardinality(S) \in 0..n
             /\ Cardinality(S) = 0 <=> S = {}
             /\ \A x \in S : Cardinality(S \ {x}) = Cardinality(S) - 1
  <2>1. IsFiniteSet(S) /\ Cardinality(S) <= n
    BY <1>1, FS_Subset
  <2>2. Cardinality(S) \in Nat
    BY <2>1, FS_CardinalityType
  <2>3. Cardinality(S) \in 0..n
    BY <2>1, <2>2
  <2>4. Cardinality(S) = 0 <=> S = {}
    BY <2>1, FS_EmptySet
  <2>5. \A x \in S : Cardinality(S \ {x}) = Cardinality(S) - 1
    BY <2>1, FS_RemoveElement
  <2> QED
    BY <2>1, <2>3, <2>4, <2>5
<1> QED
  BY <1>1, <1>2

(* h is the sum of the list over any set of places. *)
SetSums(s, h) ==
    /\ h \in [SUBSET (1..Len(s)) -> Nat]
    /\ h[{}] = 0
    /\ \A S \in SUBSET (1..Len(s)) : \A x \in S : h[S] = s[x] + h[S \ {x}]

Some(S) == CHOOSE x \in S : TRUE

LEMMA SetSumsExist ==
    ASSUME NEW s \in Seq(Nat)
    PROVE  \E h : SetSums(s, h)
<1> DEFINE n == Len(s)
           P == SUBSET (1..n)
           D == [P -> Nat]
           none == [S \in P |-> 0]
           add(h) == [S \in P |-> IF S = {} THEN 0 ELSE s[Some(S)] + h[S \ {Some(S)}]]
           F == [i \in 1..n |-> [h \in D |-> add(h)]]
<1>1. n \in Nat /\ \A i \in 1..n : s[i] \in Nat
  OBVIOUS
<1>2. \A S \in P : S # {} => Some(S) \in S /\ Some(S) \in 1..n /\ S \ {Some(S)} \in P
  BY DEF Some
<1>3. none \in D
  OBVIOUS
<1>4. ASSUME NEW h \in D
      PROVE  add(h) \in D
  <2>1. \A S \in P : (IF S = {} THEN 0 ELSE s[Some(S)] + h[S \ {Some(S)}]) \in Nat
    BY <1>1, <1>2, SMTT(30)
  <2> QED
    BY <2>1
<1> HIDE DEF D, none, add
<1>5. F \in [1..n -> [D -> D]]
  BY <1>4
<1>6. PICK f : Solves(f, n, D, none, F)
  <2> HIDE DEF F, n
  <2> QED
    BY <1>1, <1>3, <1>5, Recursion
<1>7. /\ f \in [0..n -> D] /\ f[0] = none
      /\ \A k \in 1..n : f[k] = add(f[k - 1])
  <2>1. f \in [0..n -> D] /\ f[0] = none /\ \A k \in 1..n : f[k] = F[k][f[k - 1]]
    BY <1>6 DEF Solves
  <2>2. \A k \in 1..n : f[k - 1] \in D
    BY <1>1, <2>1, SMTT(30)
  <2>3. \A k \in 1..n : F[k][f[k - 1]] = add(f[k - 1])
    BY <2>2
  <2> QED
    BY <2>1, <2>3
<1> DEFINE h == [S \in P |-> f[Cardinality(S)][S]]
<1>8. \A S \in P : Cardinality(S) \in 0..n /\ (Cardinality(S) = 0 <=> S = {})
  BY <1>1, Places
<1>9. h \in [P -> Nat]
  <2>1. \A S \in P : f[Cardinality(S)] \in D
    BY <1>7, <1>8
  <2>2. \A S \in P : f[Cardinality(S)][S] \in Nat
    BY <2>1 DEF D
  <2> QED
    BY <2>2
<1>10. h[{}] = 0
  <2>1. {} \in P /\ Cardinality({}) = 0
    BY <1>8
  <2>2. none[{}] = 0
    BY <2>1 DEF none
  <2> QED
    BY <1>7, <2>1, <2>2
<1>11. ASSUME NEW S \in P, S # {}
       PROVE  h[S] = s[Some(S)] + h[S \ {Some(S)}]
  <2> DEFINE k == Cardinality(S)
             T == S \ {Some(S)}
  <2>1. k \in 1..n /\ T \in P /\ Cardinality(T) = k - 1
    <3>1. k \in 0..n /\ k # 0
      BY <1>8, <1>11
    <3>2. Some(S) \in S /\ T \in P
      BY <1>2, <1>11
    <3>3. Cardinality(T) = k - 1
      BY <1>1, <3>2, Places
    <3> QED
      BY <1>1, <3>1, <3>2, <3>3
  <2>2. f[k] = add(f[k - 1])
    BY <1>7, <2>1
  <2>3. add(f[k - 1])[S] = s[Some(S)] + f[k - 1][T]
    BY <1>11 DEF add
  <2>4. h[S] = f[k][S] /\ h[T] = f[k - 1][T]
    <3>1. h[S] = f[Cardinality(S)][S] /\ h[T] = f[Cardinality(T)][T]
      BY <2>1
    <3> QED
      BY <2>1, <3>1
  <2> HIDE DEF k, T, h
  <2> QED
    BY <2>2, <2>3, <2>4 DEF T
<1> HIDE DEF h
<1> DEFINE Any(S) == \A x \in S : h[S] = s[x] + h[S \ {x}]
           K == {k \in 0..n : \A S \in P : Cardinality(S) = k => Any(S)}
<1>12. 0 \in K
  <2>1. \A S \in P : Cardinality(S) = 0 => Any(S)
    BY <1>8
  <2> HIDE DEF Any
  <2> QED
    BY <1>1, <2>1
<1>13. ASSUME NEW k \in 1..n, k - 1 \in K
       PROVE  k \in K
  <2>a. \A A \in P : Cardinality(A) = k - 1 => \A y \in A : h[A] = s[y] + h[A \ {y}]
    BY <1>13
  <2>1. ASSUME NEW S \in P, Cardinality(S) = k, NEW x \in S
        PROVE  h[S] = s[x] + h[S \ {x}]
    <3> DEFINE c == Some(S)
               T == S \ {c}
               X == S \ {x}
    <3>1. S # {} /\ c \in S /\ x \in 1..n /\ c \in 1..n
      BY <1>2
    <3>2. h[S] = s[c] + h[T]
      BY <1>11, <3>1
    <3>3. CASE x = c
      BY <3>2, <3>3
    <3>4. CASE x # c
      <4>1. T \in P /\ x \in T /\ T \ {x} \in P
        BY <3>1, <3>4
      <4>2. X \in P /\ c \in X
        BY <3>1, <3>4
      <4>3. X \ {c} = T \ {x}
        OBVIOUS
      <4>4. Cardinality(T) = k - 1
        BY <1>1, <2>1, <3>1, Places
      <4>5. Cardinality(X) = k - 1
        BY <1>1, <2>1, <3>1, Places
      <4> HIDE DEF K, P, T, X, c
      <4>6. h[T] = s[x] + h[T \ {x}]
        BY <2>a, <4>1, <4>4
      <4>7. h[X] = s[c] + h[X \ {c}]
        BY <2>a, <4>2, <4>5
      <4>8. h[X] = s[c] + h[T \ {x}]
        BY <4>3, <4>7
      <4>9. h[T \ {x}] \in Nat /\ s[x] \in Nat /\ s[c] \in Nat
        BY <1>1, <1>9, <3>1, <4>1
      <4>10. \A a, b, d \in Nat : a + (b + d) = b + (a + d)
        OBVIOUS
      <4>11. h[S] = s[x] + h[X]
        BY <3>2, <4>6, <4>8, <4>9, <4>10
      <4> QED
        BY <4>11 DEF X
    <3> QED
      BY <3>3, <3>4
  <2>2. \A S \in P : Cardinality(S) = k => Any(S)
    BY <2>1
  <2>3. k \in 0..n
    BY <1>1
  <2> HIDE DEF Any, P, n
  <2> QED
    BY <2>2, <2>3
<1>14. K = 0..n
  <2>1. K \subseteq 0..n
    OBVIOUS
  <2> HIDE DEF K, n
  <2> QED
    BY <1>1, <1>12, <1>13, <2>1, UpTo
<1>15. \A S \in P : Any(S)
  <2>1. \A S \in P : Cardinality(S) \in K
    <3> HIDE DEF K, P
    <3> QED
      BY <1>8, <1>14
  <2> HIDE DEF Any
  <2> QED
    BY <2>1
<1>16. \A S \in P : \A x \in S : h[S] = s[x] + h[S \ {x}]
  BY <1>15
<1> HIDE DEF Any, K
<1>17. SetSums(s, h)
  BY <1>9, <1>10, <1>16 DEF SetSums
<1> QED
  BY <1>17

(* The sum of the model is the one of the library. *)
LEMMA SetSumIs ==
    ASSUME NEW s \in Seq(Nat), NEW h, SetSums(s, h), NEW S \in SUBSET (1..Len(s))
    PROVE  MapThenSumSet(LAMBDA i : s[i], S) = h[S]
<1> DEFINE body(g) == [T \in SUBSET S |-> IF T = {} THEN 0 ELSE s[Some(T)] + g[T \ {Some(T)}]]
           Rec(g) == g = body(g)
           n == Len(s)
<1>1. MapThenSumSet(LAMBDA i : s[i], S) = (CHOOSE g : Rec(g))[S]
  BY DEF MapThenSumSet, MapThenFoldSet, Some
<1>2. /\ n \in Nat /\ SUBSET S \subseteq SUBSET (1..n)
      /\ \A T \in SUBSET S : T # {} => Some(T) \in T /\ T \ {Some(T)} \in SUBSET S
  BY DEF Some
<1>3. \A T \in SUBSET S : h[T] = IF T = {} THEN 0 ELSE s[Some(T)] + h[T \ {Some(T)}]
  BY <1>2 DEF SetSums
<1>4. Rec([T \in SUBSET S |-> h[T]])
  <2> DEFINE g == [T \in SUBSET S |-> h[T]]
  <2>1. \A T \in SUBSET S : g[T] = IF T = {} THEN 0 ELSE s[Some(T)] + g[T \ {Some(T)}]
    BY <1>2, <1>3
  <2>2. g = [T \in SUBSET S |-> g[T]]
    OBVIOUS
  <2> HIDE DEF g
  <2>3. g = body(g)
    BY <2>1, <2>2
  <2> QED
    BY <2>3 DEF g
<1> DEFINE g == CHOOSE f : Rec(f)
<1>5. Rec(g)
  <2> HIDE DEF Rec
  <2> QED
    BY <1>4
<1> HIDE DEF g
<1>6. \A T \in SUBSET S : g[T] = IF T = {} THEN 0 ELSE s[Some(T)] + g[T \ {Some(T)}]
  <2>1. \A T \in SUBSET S : body(g)[T] = IF T = {} THEN 0 ELSE s[Some(T)] + g[T \ {Some(T)}]
    OBVIOUS
  <2> HIDE DEF body
  <2> QED
    BY <1>5, <2>1
<1> DEFINE K == {k \in 0..n : \A T \in SUBSET S : Cardinality(T) = k => g[T] = h[T]}
<1> HIDE DEF body, Rec
<1>7. \A T \in SUBSET S :
         /\ Cardinality(T) \in 0..n /\ (Cardinality(T) = 0 <=> T = {})
         /\ T # {} => Cardinality(T \ {Some(T)}) = Cardinality(T) - 1
  BY <1>2, Places
<1>8. 0 \in K
  BY <1>2, <1>3, <1>6, <1>7
<1>9. ASSUME NEW k \in 1..n, k - 1 \in K
      PROVE  k \in K
  <2>1. ASSUME NEW T \in SUBSET S, Cardinality(T) = k
        PROVE  g[T] = h[T]
    <3>1. T # {} /\ T \ {Some(T)} \in SUBSET S /\ Cardinality(T \ {Some(T)}) = k - 1
      <4>1. k # 0
        BY <1>2
      <4>2. T # {} /\ Cardinality(T \ {Some(T)}) = Cardinality(T) - 1
        BY <1>7, <2>1, <4>1
      <4> QED
        BY <1>2, <2>1, <4>2
    <3>2. g[T \ {Some(T)}] = h[T \ {Some(T)}]
      BY <1>9, <3>1
    <3> QED
      BY <1>3, <1>6, <3>1, <3>2
  <2> QED
    BY <1>2, <2>1
<1>10. K = 0..n
  <2>1. K \subseteq 0..n
    OBVIOUS
  <2> HIDE DEF K, n
  <2> QED
    BY <1>2, <1>8, <1>9, <2>1, UpTo
<1>11. g[S] = h[S]
  <2>1. Cardinality(S) \in K
    <3> HIDE DEF K
    <3> QED
      BY <1>7, <1>10
  <2> QED
    BY <2>1
<1> QED
  BY <1>1, <1>11 DEF g

(* The sum of a slice is the difference of two partial sums. *)
LEMMA SliceTotal ==
    ASSUME NEW s \in Seq(Nat), NEW sum, PartialSums(s, sum),
           NEW i \in 1..(Len(s) + 1), NEW m \in (i - 1)..Len(s)
    PROVE  Total(SubSeq(s, i, m)) = sum[m] - sum[i - 1]
<1> DEFINE part == SubSeq(s, i, m)
           k == m - i + 1
           g == [j \in 0..k |-> sum[i - 1 + j] - sum[i - 1]]
<1>1. /\ part \in Seq(Nat) /\ Len(part) = k
      /\ \A j \in 1..k : part[j] = s[i + j - 1]
  BY SliceType
<1>2. k \in Nat /\ Len(s) \in Nat /\ \A j \in 0..k : i - 1 + j \in 0..Len(s)
  OBVIOUS
<1>v. /\ \A j \in 0..Len(s) : sum[j] \in Nat
      /\ \A j \in 1..Len(s) : s[j] \in Nat
      /\ i - 1 \in 0..Len(s)
  <2>1. \A j \in 0..Len(s) : sum[j] \in Nat
    BY DEF PartialSums
  <2>2. \A j \in 1..Len(s) : s[j] \in Nat
    OBVIOUS
  <2>3. i - 1 \in 0..Len(s)
    BY <1>2
  <2> QED
    BY <2>1, <2>2, <2>3
<1>3. PICK f : PartialSums(part, f) /\ Total(part) = f[k]
  BY <1>1, TotalSums
<1>4. f[0] = g[0] /\ g[0] = 0
  <2>1. sum[i - 1] \in Nat
    BY <1>v
  <2>2. g[0] = sum[i - 1 + 0] - sum[i - 1] /\ i - 1 + 0 = i - 1
    BY <1>2
  <2> HIDE DEF g
  <2> QED
    BY <1>3, <2>1, <2>2 DEF PartialSums
<1>5. ASSUME NEW j \in 1..k
      PROVE  g[j] = g[j - 1] + part[j]
  <2>1. /\ i - 1 + j \in 1..Len(s) /\ i - 1 + j = i + j - 1 /\ i - 1 + (j - 1) = (i - 1 + j) - 1
        /\ j \in 0..k /\ j - 1 \in 0..k
    BY <1>2
  <2>2. sum[i - 1 + j] = sum[(i - 1 + j) - 1] + s[i - 1 + j]
    BY <2>1 DEF PartialSums
  <2>3. g[j] = sum[i - 1 + j] - sum[i - 1] /\ g[j - 1] = sum[(i - 1 + j) - 1] - sum[i - 1]
    <3>1. g[j] = sum[i - 1 + j] - sum[i - 1] /\ g[j - 1] = sum[i - 1 + (j - 1)] - sum[i - 1]
      BY <2>1
    <3> HIDE DEF g
    <3> QED
      BY <2>1, <3>1
  <2>4. part[j] = s[i - 1 + j]
    BY <1>1, <2>1
  <2>5. /\ sum[i - 1 + j] \in Nat /\ sum[(i - 1 + j) - 1] \in Nat /\ sum[i - 1] \in Nat
        /\ s[i - 1 + j] \in Nat
    <3>1. (i - 1 + j) - 1 \in 0..Len(s) /\ i - 1 + j \in 0..Len(s)
      BY <1>2, <2>1
    <3> QED
      BY <1>v, <2>1, <3>1
  <2>6. \A a, b, c, d \in Nat : a = b + d => a - c = (b - c) + d
    OBVIOUS
  <2>7. sum[i - 1 + j] - sum[i - 1] = (sum[(i - 1 + j) - 1] - sum[i - 1]) + s[i - 1 + j]
    <3> DEFINE a == sum[i - 1 + j]
               b == sum[(i - 1 + j) - 1]
               c == sum[i - 1]
               d == s[i - 1 + j]
    <3>1. a \in Nat /\ b \in Nat /\ c \in Nat /\ d \in Nat /\ a = b + d
      BY <2>2, <2>5
    <3> HIDE DEF a, b, c, d
    <3>2. a - c = (b - c) + d
      BY <2>6, <3>1
    <3> QED
      BY <3>2 DEF a, b, c, d
  <2> HIDE DEF g, part
  <2> QED
    BY <2>3, <2>4, <2>7
<1>6. f[k] = g[k]
  <2>1. k \in 0..Len(part)
    BY <1>1, <1>2
  <2>2. \A j \in 1..k : f[j] = f[j - 1] + part[j]
    BY <1>1, <1>3 DEF PartialSums
  <2>3. \A j \in 1..k : g[j] = g[j - 1] + part[j]
    BY <1>5
  <2>4. part \in Seq(Nat)
    BY <1>1
  <2> HIDE DEF g, k, part
  <2> QED
    BY <1>4, <2>1, <2>2, <2>3, <2>4, SumsUnique, SMTT(30)
<1>7. g[k] = sum[m] - sum[i - 1]
  <2>1. k \in 0..k /\ i - 1 + k = m
    BY <1>2
  <2>2. g[k] = sum[i - 1 + k] - sum[i - 1]
    BY <2>1
  <2> HIDE DEF g
  <2> QED
    BY <2>1, <2>2
<1> HIDE DEF g, part
<1> QED
  BY <1>3, <1>6, <1>7 DEF part

(* If k outputs are worth x or more, so is the k-th largest. *)
LEMMA SortedAbove ==
    ASSUME NEW s \in Seq(Nat), NEW x \in Nat, NEW S \in SUBSET (1..Len(s)),
           \A i \in S : s[i] >= x, NEW k \in 1..Len(s), Cardinality(S) = k
    PROVE  Sorted(s)[Len(s) - k + 1] >= x
<1> DEFINE n == Len(s)
           places == 1..n
           upTo(a) == Cardinality({i \in places : s[i] <= a})
           values(m) == {a \in {s[i] : i \in places} : upTo(a) >= m}
           m == n - k + 1
           a == Least(values(m))
<1>1. n \in Nat /\ (\A i \in places : s[i] \in Nat) /\ m \in places /\ k \in Nat
  OBVIOUS
<1>2. Sorted(s)[m] = a
  <2>1. Sorted(s) = [j \in places |-> Least(values(j))]
    BY DEF Sorted
  <2> HIDE DEF values
  <2> QED
    BY <1>1, <2>1
<1>3. a \in values(m)
  <2>1. values(m) # {}
    <3>1. PICK t \in places : \A i \in places : s[i] <= s[t]
      <4>1. n > 0
        BY <1>1
      <4> QED
        BY <4>1, Greatest
    <3>2. {i \in places : s[i] <= s[t]} = places
      BY <3>1
    <3>3. upTo(s[t]) = n
      BY <1>1, <3>2, Places
    <3> HIDE DEF upTo
    <3>4. upTo(s[t]) >= m
      BY <1>1, <3>3
    <3> QED
      BY <3>1, <3>4
  <2>2. values(m) \subseteq Nat
    BY <1>1
  <2> HIDE DEF values
  <2> QED
    BY <2>1, <2>2, LeastIn
<1>4. a \in Nat /\ upTo(a) >= m
  BY <1>1, <1>3
<1> HIDE DEF a
<1>5. CASE a < x
  <2> DEFINE low == {i \in places : s[i] <= a}
  <2>1. low \cap S = {}
    BY <1>1, <1>4, <1>5
  <2>2. low \in SUBSET places /\ low \cup S \in SUBSET places
    OBVIOUS
  <2> HIDE DEF low
  <2>3. /\ IsFiniteSet(low) /\ IsFiniteSet(S) /\ Cardinality(low) \in Nat
        /\ Cardinality(low \cup S) \in 0..n
    <3>1. \A T \in SUBSET places : IsFiniteSet(T) /\ Cardinality(T) \in 0..n
      BY <1>1, Places
    <3> QED
      BY <1>1, <2>2, <3>1
  <2>4. Cardinality(low \cup S) = Cardinality(low) + Cardinality(S) - Cardinality({})
    BY <2>1, <2>3, FS_Union
  <2>5. Cardinality({}) = 0
    BY FS_EmptySet
  <2>6. Cardinality(low) >= m
    BY <1>4 DEF low
  <2> QED
    BY <1>1, <2>3, <2>4, <2>5, <2>6
<1> QED
  BY <1>2, <1>4, <1>5

(* No k outputs are worth more than the k largest. *)
LEMMA LargestHold ==
    ASSUME NEW s \in Seq(Nat), NEW h, SetSums(s, h)
    PROVE  \A S \in SUBSET (1..Len(s)) :
              h[S] <= Total(SubSeq(Sorted(s), Len(s) - Cardinality(S) + 1, Len(s)))
<1> DEFINE n == Len(s)
           P == SUBSET (1..n)
           sorted == Sorted(s)
           top(k) == Total(SubSeq(sorted, n - k + 1, n))
           K == {k \in 0..n : \A S \in P : Cardinality(S) = k => h[S] <= top(k)}
<1>1. /\ n \in Nat /\ (\A i \in 1..n : s[i] \in Nat)
      /\ sorted \in Seq(Nat) /\ Len(sorted) = n
  <2>1. n \in Nat /\ (\A i \in 1..n : s[i] \in Nat)
    OBVIOUS
  <2>2. sorted \in Seq(Nat) /\ Len(sorted) = n
    BY SortedType
  <2> HIDE DEF sorted, n
  <2> QED
    BY <2>1, <2>2
<1>2. PICK sum : PartialSums(sorted, sum)
  BY <1>1, TotalSums
<1> HIDE DEF sorted
<1>3. \A k \in 0..n : top(k) = sum[n] - sum[n - k]
  <2> SUFFICES ASSUME NEW k \in 0..n
               PROVE  top(k) = sum[n] - sum[n - k]
    OBVIOUS
  <2>1. n - k + 1 \in 1..(Len(sorted) + 1) /\ n \in ((n - k + 1) - 1)..Len(sorted)
        /\ (n - k + 1) - 1 = n - k
    BY <1>1
  <2>2. top(k) = sum[n] - sum[(n - k + 1) - 1]
    BY <1>1, <1>2, <2>1, SliceTotal
  <2> QED
    BY <2>1, <2>2
<1>4. \A i \in 0..n : sum[i] \in Nat
  BY <1>1, <1>2 DEF PartialSums
<1> HIDE DEF top
<1>5. 0 \in K
  <2>1. \A S \in P : Cardinality(S) = 0 => S = {}
    BY <1>1, Places
  <2>2. h[{}] = 0
    BY DEF SetSums
  <2>3. top(0) = 0
    <3>1. n \in 0..n /\ n - 0 = n /\ 0 \in 0..n
      BY <1>1
    <3> QED
      BY <1>3, <1>4, <3>1
  <2>4. \A S \in P : Cardinality(S) = 0 => h[S] <= top(0)
    <3>1. \A S \in P : Cardinality(S) = 0 => h[S] = top(0)
      <4> HIDE DEF P
      <4> QED
        BY <2>1, <2>2, <2>3
    <3>2. top(0) <= top(0)
      BY <2>3
    <3> QED
      BY <3>1, <3>2
  <2> HIDE DEF P
  <2> QED
    BY <1>1, <2>4
<1>6. ASSUME NEW k \in 1..n, k - 1 \in K
      PROVE  k \in K
  <2>1. ASSUME NEW S \in P, Cardinality(S) = k
        PROVE  h[S] <= top(k)
    <3>1. S # {}
      <4>1. k # 0
        BY <1>1
      <4> QED
        BY <1>1, <2>1, <4>1, Places
    <3>2. PICK x \in S : \A i \in S : s[i] >= s[x]
      <4> DEFINE V == {s[i] : i \in S}
      <4>1. V \subseteq Nat /\ V # {}
        BY <1>1, <3>1
      <4>2. PICK v \in V : \A w \in V : v <= w
        <5> HIDE DEF V
        <5> QED
          BY <4>1, LeastNumber
      <4>3. PICK x \in S : s[x] = v
        BY <4>2
      <4>4. \A i \in S : s[i] >= s[x]
        BY <1>1, <4>1, <4>2, <4>3
      <4> QED
        BY <4>4
    <3>3. x \in 1..n /\ s[x] \in Nat
      BY <1>1, <2>1
    <3>4. h[S] = s[x] + h[S \ {x}]
      BY <2>1 DEF SetSums
    <3>5. h[S \ {x}] <= top(k - 1) /\ h[S \ {x}] \in Nat
      <4>1. S \ {x} \in P
        BY <2>1
      <4>2. Cardinality(S \ {x}) = k - 1
        BY <1>1, <2>1, Places
      <4> QED
        BY <1>6, <4>1, <4>2 DEF SetSums
    <3>6. sorted[n - k + 1] >= s[x]
      BY <2>1, <3>2, <3>3, SortedAbove DEF sorted
    <3>7. /\ n - k + 1 \in 1..n /\ n - k \in 0..n /\ k \in 0..n /\ k - 1 \in 0..n
          /\ n - (k - 1) = n - k + 1 /\ (n - k + 1) - 1 = n - k
      BY <1>1
    <3>8. sum[n - k + 1] = sum[n - k] + sorted[n - k + 1]
      BY <1>1, <1>2, <3>7 DEF PartialSums
    <3>9. top(k) = sum[n] - sum[n - k] /\ top(k - 1) = sum[n] - sum[n - k + 1]
      BY <1>3, <3>7
    <3>10. /\ sum[n] \in Nat /\ sum[n - k] \in Nat /\ sum[n - k + 1] \in Nat
      <4>1. n \in 0..n /\ n - k + 1 \in 0..n
        BY <1>1, <3>7
      <4>2. n - k \in 0..n
        BY <3>7
      <4> HIDE DEF n
      <4> QED
        BY <1>4, <4>1, <4>2
    <3>11. sorted[n - k + 1] \in Nat
      BY <1>1, <3>7, SMTT(30)
    <3>12. \A a, b, c, d, e, f \in Nat :
              f <= a - b /\ b = c + d /\ d >= e => e + f <= a - c
      OBVIOUS
    <3>13. s[x] + h[S \ {x}] <= sum[n] - sum[n - k]
      <4>1. h[S \ {x}] <= sum[n] - sum[n - k + 1]
        BY <3>5, <3>9
      <4> QED
        BY <3>3, <3>5, <3>6, <3>8, <3>10, <3>11, <3>12, <4>1
    <3> QED
      BY <3>4, <3>9, <3>13
  <2> HIDE DEF P
  <2> QED
    BY <1>1, <2>1
<1>7. K = 0..n
  <2>1. K \subseteq 0..n
    OBVIOUS
  <2> HIDE DEF K, n
  <2> QED
    BY <1>1, <1>5, <1>6, <2>1, UpTo
<1>8. ASSUME NEW S \in P
      PROVE  h[S] <= top(Cardinality(S))
  <2>1. Cardinality(S) \in K
    <3>1. Cardinality(S) \in 0..n
      BY <1>1, Places
    <3> HIDE DEF K
    <3> QED
      BY <1>7, <3>1
  <2> QED
    BY <2>1
<1> QED
  BY <1>8 DEF top, sorted

LEMMA NeededType ==
    ASSUME NEW target \in Nat, NEW size \in Nat, NEW outputs \in Nat, NEW byteFee \in Nat
    PROVE  /\ target + Calculate(size, outputs, byteFee) + SingleInput(byteFee) \in Nat
           /\ target # 0 => target + Calculate(size, outputs, byteFee) + SingleInput(byteFee) > 0
<1>1. Calculate(size, outputs, byteFee) \in Nat /\ SingleInput(byteFee) \in Nat
  BY FeeType
<1> QED
  BY <1>1

(* If any set of outputs holds the target, the fee and what one more input  *)
(* costs, select() takes no more outputs than that set has, and the slice   *)
(* it filters holds all that too.                                           *)
LEMMA CleanSelection ==
    ASSUME NEW s \in Seq(Nat), NEW target \in Nat, NEW byteFee \in Nat, NEW outputs \in Nat,
           target # 0, target <= Total(s),
           NEW S \in SUBSET (1..Len(s)),
           NEW h, SetSums(s, h),
           h[S] >= target + Calculate(Cardinality(S), outputs, byteFee) + SingleInput(byteFee),
           NEW chosen \in Select(s, target, byteFee, outputs)
    PROVE  \E part \in Seq(Nat) :
              /\ Len(part) <= Cardinality(S)
              /\ Total(part) >= target + Calculate(Len(part), outputs, byteFee)
                                       + SingleInput(byteFee)
              /\ chosen = FilterOutDust(part, byteFee)
<1> DEFINE sorted == Sorted(s)
           n == Len(s)
           k == Cardinality(S)
           withFee == [size \in 1..Len(sorted) |-> target + Calculate(size, outputs, byteFee)]
           withFeeAndDust == [size \in 1..Len(sorted) |-> withFee[size] + SingleInput(byteFee)]
           far(size, i) == Distance(Total(Slice(sorted, size, i)), 2 * target)
           clean == Sizes(sorted, withFeeAndDust)
           dusty == Sizes(sorted, withFee)
           needed(size) == target + Calculate(size, outputs, byteFee) + SingleInput(byteFee)
<1>1. sorted \in Seq(Nat) /\ Len(sorted) = n /\ n \in Nat /\ k \in 0..n
  <2>1. n \in Nat /\ sorted \in Seq(Nat) /\ Len(sorted) = n
    BY SortedType
  <2>2. k \in 0..n
    BY <2>1, Places
  <2> QED
    BY <2>1, <2>2
<1>2. SetSums(s, h)
  OBVIOUS
<1>3. h[S] >= needed(k)
  OBVIOUS
<1>4. \A size \in 1..n : withFeeAndDust[size] = needed(size)
  BY <1>1
<1> HIDE DEF sorted
<1>5. Total(SubSeq(sorted, n - k + 1, n)) >= needed(k)
  <2>1. h[S] <= Total(SubSeq(sorted, n - k + 1, n))
    BY <1>2, LargestHold DEF sorted
  <2> DEFINE first == n - k + 1
  <2>2. first \in 1..(Len(sorted) + 1) /\ n \in (first - 1)..Len(sorted)
    BY <1>1
  <2>3. SubSeq(sorted, first, n) \in Seq(Nat)
    <3> HIDE DEF first, n
    <3> QED
      BY <1>1, <2>2, SliceType
  <2>4. Total(SubSeq(sorted, n - k + 1, n)) \in Nat
    BY <2>3, TotalType
  <2>5. h[S] \in Nat
    BY <1>2 DEF SetSums
  <2>6. needed(k) \in Nat
    <3>1. k \in Nat
      BY <1>1
    <3> HIDE DEF k
    <3> QED
      BY <3>1, NeededType
  <2> HIDE DEF needed
  <2> QED
    BY <1>3, <2>1, <2>4, <2>5, <2>6
<1>6. k \in 1..n
  <2>1. CASE k = 0
    <3>1. SubSeq(sorted, n - k + 1, n) = <<>>
      BY <1>1, <2>1
    <3>2. Total(SubSeq(sorted, n - k + 1, n)) = 0
      BY <3>1, TotalEmpty
    <3>3. needed(k) \in Nat /\ needed(k) > 0
      <4>1. k \in Nat
        BY <1>1
      <4> HIDE DEF k
      <4> QED
        BY <4>1, NeededType
    <3> HIDE DEF needed
    <3> QED
      BY <1>5, <3>2, <3>3
  <2> QED
    BY <1>1, <2>1
<1>7. k \in clean
  <2>1. n - k + 1 \in 1..(Len(sorted) - k + 1) /\ n - k + 1 + k - 1 = n
    <3>1. \A a \in Nat : \A b \in 1..a : a - b + 1 \in 1..(a - b + 1) /\ a - b + 1 + b - 1 = a
      OBVIOUS
    <3> HIDE DEF k, n
    <3> QED
      BY <1>1, <1>6, <3>1, Zenon
  <2>2. Total(Slice(sorted, k, n - k + 1)) >= withFeeAndDust[k]
    BY <1>4, <1>5, <1>6, <2>1 DEF Slice
  <2> HIDE DEF withFeeAndDust
  <2>3. n - k + 1 \in Enough(sorted, k, withFeeAndDust[k])
    BY <2>1, <2>2 DEF Enough
  <2> QED
    BY <1>1, <1>6, <2>3 DEF Sizes
<1> DEFINE size == Least(clean)
           enough == Enough(sorted, size, withFeeAndDust[size])
<1>8. chosen \in {FilterOutDust(Slice(sorted, size, i), byteFee) :
                      i \in {j \in enough : \A l \in enough : far(size, j) <= far(size, l)}}
  <2>1. ~(target = 0 \/ Total(s) < target)
    <3>1. Total(s) \in Nat
      BY TotalType
    <3> QED
      BY <3>1
  <2>2. clean # {}
    BY <1>7
  <2> HIDE DEF withFee, withFeeAndDust, far, clean, dusty
  <2> QED
    BY <2>1, <2>2 DEF Select, sorted, withFee, withFeeAndDust, far, clean, dusty
<1>9. size \in 1..n /\ size <= k
  <2>1. clean \subseteq 1..n
    BY <1>1 DEF Sizes
  <2> HIDE DEF clean
  <2>2. clean \subseteq Nat /\ clean # {}
    BY <1>1, <1>7, <2>1
  <2> QED
    BY <1>7, <2>1, <2>2, LeastIn
<1> HIDE DEF size, far
<1>10. PICK i \in enough : chosen = FilterOutDust(Slice(sorted, size, i), byteFee)
  <2> HIDE DEF enough
  <2> QED
    BY <1>8
<1> DEFINE part == Slice(sorted, size, i)
<1>11. i \in 1..(n - size + 1) /\ Total(part) >= needed(size)
  <2>1. i \in 1..(Len(sorted) - size + 1) /\ Total(part) >= withFeeAndDust[size]
    BY <1>10 DEF Enough
  <2> QED
    BY <1>1, <1>4, <1>9, <2>1
<1>12. part \in Seq(Nat) /\ Len(part) = size
  <2>1. i \in 1..(Len(sorted) + 1) /\ i + size - 1 \in (i - 1)..Len(sorted)
        /\ (i + size - 1) - i + 1 = size
    <3>1. i \in 1..(n - size + 1) /\ size \in 1..n /\ n \in Nat /\ Len(sorted) = n
      BY <1>1, <1>9, <1>11
    <3> HIDE DEF n
    <3>2. i \in Nat /\ size \in Nat /\ 1 <= i /\ 1 <= size /\ i + size - 1 <= n
      BY <3>1
    <3> QED
      BY <3>1, <3>2
  <2>2. part \in Seq(Nat) /\ Len(part) = (i + size - 1) - i + 1
    BY <1>1, <2>1, SliceType DEF Slice
  <2> QED
    BY <2>1, <2>2
<1> HIDE DEF part
<1> QED
  BY <1>9, <1>10, <1>11, <1>12 DEF part
================================================================================
