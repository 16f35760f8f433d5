----------------------------- MODULE LeastNumber -----------------------------
(***************************************************************************)
(* The least-number principle for sets of naturals.  The proofs use it for *)
(* the loops of the program that stop at the first element with a          *)
(* property: the scan of Queue::Remove, the place where RegisterAlarm      *)
(* inserts an entry, the lowest free descriptor number, and for the end of *)
(* the loop in Set::Schedule.                                              *)
(***************************************************************************)
EXTENDS Naturals, TLAPS, WellFoundedInduction

(* A loop that counts up through a non-empty set meets a least member. *)
LEMMA LeastNat ==
  ASSUME NEW T \in SUBSET Nat, T # {}
  PROVE  \E x \in T : \A y \in T : x <= y
<1> DEFINE R == {ss \in Nat \X Nat : ss[1] < ss[2]}
<1>1. IsWellFoundedOn(R, Nat)
  BY NatLessThanWellFounded DEF OpToRel
<1>2. \E x \in T : \A y \in T : ~(<<y, x>> \in R)
  <2> HIDE DEF R
  <2> QED BY <1>1, WFMin, Zenon
<1>3. \A x, y \in Nat : ~(<<y, x>> \in R) => x <= y
  <2> TAKE x, y \in Nat
  <2>1. <<y, x>>[1] = y /\ <<y, x>>[2] = x /\ <<y, x>> \in Nat \X Nat
    OBVIOUS
  <2>2. y < x => <<y, x>> \in R
    BY <2>1
  <2> QED BY <2>2
<1> HIDE DEF R
<1> QED BY <1>2, <1>3
=============================================================================
