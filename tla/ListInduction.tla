---------------------------- MODULE ListInduction ------------------------------
(***************************************************************************)
(* Induction over the beginnings of a list, and what a function defined by *)
(* recursion on 0..n computes.  The predicates and steps are sets and      *)
(* functions, so that the facts can be cited for any of them.              *)
(***************************************************************************)
EXTENDS Integers, WellFoundedInduction, TLAPS

(* Every nonempty set of naturals has a least element. *)
LEMMA LeastNumber ==
    ASSUME NEW S, S \subseteq Nat, S # {}
    PROVE  \E m \in S : \A n \in S : m <= n
<1>1. \E m \in S : \A n \in S : <<n, m>> \notin OpToRel(<, Nat)
  BY NatLessThanWellFounded, WFMin
<1>2. ASSUME NEW m \in S, NEW n \in S, <<n, m>> \notin OpToRel(<, Nat)
      PROVE  m <= n
  <2>1. m \in Nat /\ n \in Nat
    OBVIOUS
  <2>2. ~(n < m)
    BY <1>2, <2>1 DEF OpToRel
  <2> QED
    BY <2>1, <2>2
<1> QED
  BY <1>1, <1>2

(* Induction over the beginnings of a list: what holds of the empty one and *)
(* is kept by each further element holds of all of them.                    *)
LEMMA UpTo ==
    ASSUME NEW n \in Nat, NEW G, G \subseteq 0..n, 0 \in G,
           \A i \in 1..n : i - 1 \in G => i \in G
    PROVE  G = 0..n
<1> DEFINE Bad == (0..n) \ G
<1>1. ASSUME NEW m \in Bad, \A k \in Bad : m <= k
      PROVE  FALSE
  <2>1. m \in 1..n
    OBVIOUS
  <2>2. m - 1 \in 0..n /\ m - 1 \notin Bad
    BY <1>1, <2>1
  <2> QED
    BY <2>1, <2>2
<1>2. Bad \subseteq Nat
  OBVIOUS
<1>3. Bad = {}
  <2> HIDE DEF Bad
  <2> QED
    BY <1>1, <1>2, LeastNumber
<1> QED
  BY <1>3

(* f is the function on 0..n that starts with b and whose further values    *)
(* come from the one before by the steps of F.                              *)
Solves(f, n, D, b, F) ==
    /\ f \in [0..n -> D]
    /\ f[0] = b
    /\ \A i \in 1..n : f[i] = F[i][f[i - 1]]

LEMMA Recursion ==
    ASSUME NEW D, NEW b \in D, NEW n \in Nat, NEW F \in [1..n -> [D -> D]]
    PROVE  \E f : Solves(f, n, D, b, F)
<1> DEFINE G == {m \in 0..n : \E f : Solves(f, m, D, b, F)}
<1>1. 0 \in G
  <2>1. Solves([i \in 0..0 |-> b], 0, D, b, F)
    BY DEF Solves
  <2> QED
    BY <2>1
<1>2. ASSUME NEW m \in 1..n, m - 1 \in G
      PROVE  m \in G
  <2>1. PICK f : Solves(f, m - 1, D, b, F)
    BY <1>2
  <2> DEFINE g == [i \in 0..m |-> IF i = m THEN F[m][f[m - 1]] ELSE f[i]]
  <2>2. f[m - 1] \in D /\ F[m][f[m - 1]] \in D
    BY <2>1 DEF Solves
  <2>3. g \in [0..m -> D]
    BY <2>1, <2>2 DEF Solves
  <2>4. g[0] = b
    BY <2>1 DEF Solves
  <2>5. ASSUME NEW i \in 1..m
        PROVE  g[i] = F[i][g[i - 1]]
    <3>1. CASE i = m
      <4>1. g[i] = F[m][f[m - 1]] /\ g[i - 1] = f[m - 1]
        BY <3>1
      <4> QED
        BY <4>1, <3>1
    <3>2. CASE i # m
      <4>1. i \in 1..(m - 1)
        BY <3>2
      <4>2. f[i] = F[i][f[i - 1]]
        BY <4>1, <2>1 DEF Solves
      <4>3. g[i] = f[i] /\ g[i - 1] = f[i - 1]
        BY <4>1
      <4> QED
        BY <4>2, <4>3
    <3> QED
      BY <3>1, <3>2
  <2>6. Solves(g, m, D, b, F)
    BY <2>3, <2>4, <2>5 DEF Solves
  <2> HIDE DEF g
  <2> QED
    BY <2>6
<1>3. G \subseteq 0..n
  OBVIOUS
<1>4. G = 0..n
  <2> HIDE DEF G
  <2> QED
    BY <1>1, <1>2, <1>3, UpTo
<1>5. n \in G
  <2>1. n \in 0..n
    OBVIOUS
  <2> HIDE DEF G
  <2> QED
    BY <1>4, <2>1
<1> QED
  BY <1>5
================================================================================
