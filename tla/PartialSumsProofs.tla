------------------------- MODULE PartialSumsProofs ---------------------------
(***************************************************************************)
(* What a partial sum is, and how it changes with the sequence.             *)
(*                                                                          *)
(* Induction is stated about a set of numbers here: a lemma cites it with   *)
(* the set of the numbers it holds for.                                     *)
(***************************************************************************)
EXTENDS PartialSums, Integers, WellFoundedInduction, TLAPS

LEMMA LeastNumber ==
  ASSUME NEW S \in SUBSET Nat, S # {}
  PROVE  \E n \in S : \A m \in S : n <= m
<1>1. PICK n \in S : \A m \in S : ~(<<m, n>> \in OpToRel(<, Nat))
  <2> DEFINE R == OpToRel(<, Nat)
  <2>1. IsWellFoundedOn(R, Nat)
    BY NatLessThanWellFounded
  <2> HIDE DEF R
  <2>2. \E n \in S : \A m \in S : ~(<<m, n>> \in R)
    BY <2>1, WFMin
  <2> QED BY <2>2 DEF R
<1>2. \A m \in S : ~(m < n)
  BY <1>1 DEF OpToRel
<1> QED BY <1>2

LEMMA Induction ==
  ASSUME NEW S, 0 \in S, \A n \in Nat : n \in S => n + 1 \in S
  PROVE  Nat \subseteq S
<1> SUFFICES ASSUME Nat \ S # {} PROVE FALSE
  OBVIOUS
<1>1. PICK n \in Nat \ S : \A m \in Nat \ S : n <= m
  BY LeastNumber
<1>2. n # 0 /\ n - 1 \in Nat /\ (n - 1) + 1 = n
  BY <1>1
<1>3. n - 1 \in S
  BY <1>1, <1>2
<1> QED BY <1>1, <1>2, <1>3

-----------------------------------------------------------------------------
(* The recursion has a solution: it is put together from those on the       *)
(* numbers up to a bound, which agree where both are defined.               *)
Sums(s, g, D) == g = [n \in D |-> IF n = 0 THEN 0 ELSE g[n - 1] + s[n]]

LEMMA SumsAgree ==
  ASSUME NEW s, NEW m \in Nat, NEW k \in Nat, NEW g, NEW h,
         Sums(s, g, 0..m), Sums(s, h, 0..k)
  PROVE  \A n \in Nat : n <= m /\ n <= k => g[n] = h[n]
<1> DEFINE S == {n \in Nat : n <= m /\ n <= k => g[n] = h[n]}
<1>1. 0 \in S
  BY DEF Sums
<1>2. ASSUME NEW n \in Nat, n \in S PROVE n + 1 \in S
  <2>1. CASE n + 1 <= m /\ n + 1 <= k
    <3>1. n + 1 \in 0..m /\ n + 1 \in 0..k /\ n + 1 # 0 /\ (n + 1) - 1 = n
      BY <2>1
    <3>2. g[n] = h[n]
      BY <1>2, <2>1
    <3>3. g[n + 1] = g[n] + s[n + 1] /\ h[n + 1] = h[n] + s[n + 1]
      BY <3>1 DEF Sums
    <3> QED BY <3>2, <3>3
  <2> QED BY <2>1
<1> HIDE DEF S
<1>3. Nat \subseteq S
  BY <1>1, <1>2, Induction
<1> QED BY <1>3 DEF S

LEMMA SumsExist ==
  ASSUME NEW s
  PROVE  \A m \in Nat : \E g : Sums(s, g, 0..m)
<1> DEFINE S == {m \in Nat : \E g : Sums(s, g, 0..m)}
<1>1. 0 \in S
  <2> DEFINE g == [n \in 0..0 |-> 0]
  <2>1. g = [n \in 0..0 |-> IF n = 0 THEN 0 ELSE g[n - 1] + s[n]]
    OBVIOUS
  <2>2. Sums(s, g, 0..0)
    BY <2>1 DEF Sums
  <2> QED BY <2>2
<1>2. ASSUME NEW m \in Nat, m \in S PROVE m + 1 \in S
  <2> PICK g : Sums(s, g, 0..m)
    BY <1>2
  <2> DEFINE h == [n \in 0..m + 1 |-> IF n = m + 1 THEN g[m] + s[m + 1] ELSE g[n]]
  <2>1. ASSUME NEW n \in 0..m + 1
        PROVE  h[n] = IF n = 0 THEN 0 ELSE h[n - 1] + s[n]
    <3>1. CASE n = m + 1
      BY <3>1
    <3>2. CASE n # m + 1
      BY <3>2 DEF Sums
    <3> QED BY <3>1, <3>2
  <2>2. h = [n \in 0..m + 1 |-> IF n = 0 THEN 0 ELSE h[n - 1] + s[n]]
    BY <2>1
  <2> HIDE DEF h
  <2>3. Sums(s, h, 0..m + 1)
    BY <2>2 DEF Sums
  <2> QED BY <2>3
<1> HIDE DEF S
<1>3. Nat \subseteq S
  BY <1>1, <1>2, Induction
<1> QED BY <1>3 DEF S

LEMMA TotalEquation ==
  ASSUME NEW s
  PROVE  Sums(s, Total(s), Nat)
<1> DEFINE part(m) == CHOOSE g : Sums(s, g, 0..m)
           whole   == [m \in Nat |-> part(m)[m]]
<1>1. \A m \in Nat : Sums(s, part(m), 0..m)
  BY SumsExist
<1> HIDE DEF part
<1>2. ASSUME NEW n \in Nat
      PROVE  whole[n] = IF n = 0 THEN 0 ELSE whole[n - 1] + s[n]
  <2>1. CASE n = 0
    BY <1>1, <2>1 DEF Sums
  <2>2. CASE n # 0
    <3>1. part(n)[n] = part(n)[n - 1] + s[n]
      BY <1>1, <2>2 DEF Sums
    <3>2. part(n)[n - 1] = part(n - 1)[n - 1]
      BY <1>1, <2>2, SumsAgree
    <3> QED BY <2>2, <3>1, <3>2
  <2> QED BY <2>1, <2>2
<1>3. whole = [n \in Nat |-> IF n = 0 THEN 0 ELSE whole[n - 1] + s[n]]
  BY <1>2
<1> HIDE DEF whole
<1>4. Total(s) = CHOOSE g : g = [n \in Nat |-> IF n = 0 THEN 0 ELSE g[n - 1] + s[n]]
  BY DEF Total
<1> QED BY <1>3, <1>4 DEF Sums

(* What the rest uses: the sum of nothing, and of one element more.         *)
LEMMA TotalIs ==
  ASSUME NEW s
  PROVE  /\ Total(s)[0] = 0
         /\ \A n \in Nat : Total(s)[n + 1] = Total(s)[n] + s[n + 1]
  BY TotalEquation DEF Sums

-----------------------------------------------------------------------------
(* Sums of numbers.  `m` is the length of the sequence.                     *)

LEMMA TotalOfNumbers ==
  ASSUME NEW m \in Nat, NEW s, \A i \in 1..m : s[i] \in Nat
  PROVE  \A n \in 0..m : Total(s)[n] \in Nat
<1> DEFINE S == {n \in Nat : n <= m => Total(s)[n] \in Nat}
<1>1. 0 \in S
  BY TotalIs
<1>2. ASSUME NEW n \in Nat, n \in S PROVE n + 1 \in S
  <2>1. CASE n + 1 <= m
    <3>1. s[n + 1] \in Nat /\ Total(s)[n] \in Nat
      BY <1>2, <2>1
    <3> QED BY <3>1, TotalIs
  <2> QED BY <2>1
<1> HIDE DEF S
<1>3. Nat \subseteq S
  BY <1>1, <1>2, Induction
<1> QED BY <1>3 DEF S

LEMMA TotalOfZeros ==
  ASSUME NEW m \in Nat, NEW s, \A i \in 1..m : s[i] = 0
  PROVE  \A n \in 0..m : Total(s)[n] = 0
<1> DEFINE S == {n \in Nat : n <= m => Total(s)[n] = 0}
<1>1. 0 \in S
  BY TotalIs
<1>2. ASSUME NEW n \in Nat, n \in S PROVE n + 1 \in S
  <2>1. CASE n + 1 <= m
    <3>1. s[n + 1] = 0 /\ Total(s)[n] = 0
      BY <1>2, <2>1
    <3> QED BY <3>1, TotalIs
  <2> QED BY <2>1
<1> HIDE DEF S
<1>3. Nat \subseteq S
  BY <1>1, <1>2, Induction
<1> QED BY <1>3 DEF S

(* One more in the first place.                                             *)
LEMMA TotalOneMore ==
  ASSUME NEW m \in Nat, NEW s, NEW r, \A i \in 1..m : s[i] \in Nat,
         m > 0 => r[1] = s[1] + 1, \A i \in 2..m : r[i] = s[i]
  PROVE  \A n \in 1..m : Total(r)[n] = Total(s)[n] + 1
<1> DEFINE S == {n \in Nat : n + 1 <= m => Total(r)[n + 1] = Total(s)[n + 1] + 1}
<1>1. 0 \in S
  <2>1. CASE m > 0
    <3>1. s[1] \in Nat /\ r[1] = s[1] + 1
      BY <2>1
    <3>2. /\ Total(r)[0] = 0 /\ Total(r)[0 + 1] = Total(r)[0] + r[0 + 1]
          /\ Total(s)[0] = 0 /\ Total(s)[0 + 1] = Total(s)[0] + s[0 + 1]
      BY TotalIs
    <3> QED BY <3>1, <3>2
  <2> QED BY <2>1
<1>2. ASSUME NEW n \in Nat, n \in S PROVE n + 1 \in S
  <2>1. CASE (n + 1) + 1 <= m
    <3>1. /\ r[(n + 1) + 1] = s[(n + 1) + 1] /\ s[(n + 1) + 1] \in Nat
          /\ Total(r)[n + 1] = Total(s)[n + 1] + 1 /\ Total(s)[n + 1] \in Nat
      BY <1>2, <2>1, TotalOfNumbers
    <3>2. /\ Total(r)[(n + 1) + 1] = Total(r)[n + 1] + r[(n + 1) + 1]
          /\ Total(s)[(n + 1) + 1] = Total(s)[n + 1] + s[(n + 1) + 1]
      BY TotalIs
    <3> QED BY <3>1, <3>2
  <2> QED BY <2>1
<1> HIDE DEF S
<1>3. Nat \subseteq S
  BY <1>1, <1>2, Induction
<1>4. ASSUME NEW n \in 1..m PROVE Total(r)[n] = Total(s)[n] + 1
  <2>1. n - 1 \in S /\ (n - 1) + 1 = n
    BY <1>3
  <2> QED BY <2>1 DEF S
<1> QED BY <1>4

(* All moved by one place, behind a zero.                                   *)
LEMMA TotalShifted ==
  ASSUME NEW m \in Nat, NEW s, NEW r, \A i \in 1..m : s[i] \in Nat,
         r[1] = 0, \A i \in 1..m : i + 1 <= m => r[i + 1] = s[i]
  PROVE  \A n \in 0..m : n + 1 <= m => Total(r)[n + 1] = Total(s)[n]
<1> DEFINE S == {n \in Nat : n + 1 <= m => Total(r)[n + 1] = Total(s)[n]}
<1>1. 0 \in S
  <2>1. /\ Total(r)[0] = 0 /\ Total(r)[0 + 1] = Total(r)[0] + r[0 + 1]
        /\ Total(s)[0] = 0
    BY TotalIs
  <2> QED BY <2>1
<1>2. ASSUME NEW n \in Nat, n \in S PROVE n + 1 \in S
  <2>1. CASE (n + 1) + 1 <= m
    <3>1. r[(n + 1) + 1] = s[n + 1] /\ Total(r)[n + 1] = Total(s)[n]
      BY <1>2, <2>1
    <3>2. /\ Total(r)[(n + 1) + 1] = Total(r)[n + 1] + r[(n + 1) + 1]
          /\ Total(s)[n + 1] = Total(s)[n] + s[n + 1]
      BY TotalIs
    <3> QED BY <3>1, <3>2
  <2> QED BY <2>1
<1> HIDE DEF S
<1>3. Nat \subseteq S
  BY <1>1, <1>2, Induction
<1> QED BY <1>3 DEF S

(* A sum of numbers grows along the sequence, by each element it passes.    *)
LEMMA TotalGrows ==
  ASSUME NEW m \in Nat, NEW s, \A i \in 1..m : s[i] \in Nat
  PROVE  \A i \in 0..m, j \in 0..m : i <= j => Total(s)[i] <= Total(s)[j]
<1> SUFFICES ASSUME NEW i \in 0..m
             PROVE  \A j \in 0..m : i <= j => Total(s)[i] <= Total(s)[j]
  OBVIOUS
<1> DEFINE S == {n \in Nat : i + n <= m => Total(s)[i] <= Total(s)[i + n]}
<1>1. 0 \in S
  BY TotalOfNumbers
<1>2. ASSUME NEW n \in Nat, n \in S PROVE n + 1 \in S
  <2>1. CASE (i + n) + 1 <= m
    <3>1. /\ s[(i + n) + 1] \in Nat /\ Total(s)[i + n] \in Nat /\ Total(s)[i] \in Nat
          /\ Total(s)[i] <= Total(s)[i + n]
      BY <1>2, <2>1, TotalOfNumbers
    <3>2. Total(s)[(i + n) + 1] = Total(s)[i + n] + s[(i + n) + 1]
      BY TotalIs
    <3>3. Total(s)[i] <= Total(s)[(i + n) + 1]
      BY <3>1, <3>2
    <3> QED BY <3>3
  <2> QED BY <2>1
<1> HIDE DEF S
<1>3. Nat \subseteq S
  BY <1>1, <1>2, Induction
<1>4. ASSUME NEW j \in 0..m, i <= j PROVE Total(s)[i] <= Total(s)[j]
  <2>1. j - i \in S /\ i + (j - i) = j
    BY <1>3, <1>4
  <2> QED BY <2>1 DEF S
<1> QED BY <1>4
=============================================================================
