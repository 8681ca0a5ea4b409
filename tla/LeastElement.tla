---------------------------- MODULE LeastElement ----------------------------
(***************************************************************************)
(* Induction over the natural numbers in the form the proofs of this        *)
(* project use: a set of natural numbers that is not empty has a least      *)
(* element, for instance the set of the counterexamples to a claim.         *)
(***************************************************************************)
EXTENDS Integers, WellFoundedInduction, TLAPS

\* The least element of a set of natural numbers.
THEOREM LeastNat ==
    ASSUME NEW T, T \subseteq Nat, T # {}
    PROVE  \E d \in T : \A e \in T : d <= e
<1> DEFINE Less == {ss \in Nat \X Nat : ss[1] < ss[2]}
<1>1. IsWellFoundedOn(Less, Nat)
  BY NatLessThanWellFounded DEF OpToRel
<1>2. PICK d \in T : \A e \in T : ~(<<e, d>> \in Less)
  <2> HIDE DEF Less
  <2>1. QED
    BY <1>1, WFMin
<1>3. ASSUME NEW e \in T PROVE d <= e
  <2>1. d \in Nat /\ e \in Nat /\ ~(<<e, d>> \in Less)
    BY <1>2
  <2>2. QED
    BY <2>1
<1>4. QED
  BY <1>3
=============================================================================
