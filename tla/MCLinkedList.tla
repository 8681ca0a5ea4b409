---------------------------- MODULE MCLinkedList ----------------------------
(* The instance of LinkedList that TLC checks.  Addresses are               *)
(* interchangeable, and so are data: neither is ever ordered.               *)
EXTENDS LinkedList, TLC

MCSymmetry == Permutations(Cells) \cup Permutations(Data)
=============================================================================
