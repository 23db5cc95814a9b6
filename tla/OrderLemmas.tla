----------------------------- MODULE OrderLemmas -----------------------------
(* Least and greatest elements, for the modules of proofs.                   *)
EXTENDS Integers, WellFoundedInduction, TLAPS

(***************************************************************************)
(* The order of the naturals is well founded, as a set of pairs.           *)
(***************************************************************************)
LEMMA NatOrder ==
  \E R : IsWellFoundedOn(R, Nat) /\ \A x, y \in Nat : x < y => <<x, y>> \in R
<1> DEFINE R == OpToRel(<, Nat)
<1>1. IsWellFoundedOn(R, Nat)
  BY NatLessThanWellFounded
<1>2. \A x, y \in Nat : x < y => <<x, y>> \in R
  BY Zenon DEF OpToRel
<1> QED
  <2> HIDE DEF R
  <2> QED BY <1>1, <1>2

(***************************************************************************)
(* A set of naturals that is not empty has a least element, and a set of   *)
(* positions of a sequence that is not empty has a last one.               *)
(***************************************************************************)
LEMMA HasLeast ==
  ASSUME NEW T, T \subseteq Nat, T # {}
  PROVE  \E x \in T : \A y \in T : x <= y
<1>1. PICK R : IsWellFoundedOn(R, Nat) /\ \A x, y \in Nat : x < y => <<x, y>> \in R
  BY NatOrder
<1>2. IsWellFoundedOn(R, Nat)
  BY <1>1
<1>3. \E x \in T : \A y \in T : ~(<<y, x>> \in R)
  BY <1>2, WFMin
<1>4. PICK x \in T : \A y \in T : ~(<<y, x>> \in R)
  BY <1>3
<1>5. \A y \in T : ~(y < x)
  BY <1>1, <1>4
<1>6. \A y \in T : x <= y
  BY <1>5
<1> QED BY <1>6

LEMMA HasGreatest ==
  ASSUME NEW n \in Nat, NEW S \in SUBSET (1..n), S # {}
  PROVE  \E m \in S : \A j \in S : j <= m
<1> DEFINE T == {n - i : i \in S}
<1>1. T \subseteq Nat
  <2>1. \A t \in T : t \in Nat
    OBVIOUS
  <2> QED BY <2>1
<1>2. \E i \in S : n - i \in T
  OBVIOUS
<1>3. \E x \in T : \A y \in T : x <= y
  <2> HIDE DEF T
  <2> QED BY <1>1, <1>2, HasLeast
<1>4. PICK m \in S : \A y \in T : n - m <= y
  BY <1>3
<1>5. ASSUME NEW j \in S PROVE j <= m
  <2>1. n - j \in T
    OBVIOUS
  <2>2. n - m <= n - j
    BY <2>1, <1>4
  <2>3. n \in Int /\ m \in Int /\ j \in Int
    OBVIOUS
  <2> QED
    <3> HIDE DEF T
    <3> QED BY <2>2, <2>3
<1> QED BY <1>5

==============================================================================
