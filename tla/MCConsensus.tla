----------------------------- MODULE MCConsensus -----------------------------
(* The instances of Consensus that TLC checks.  Discovery has told every    *)
(* node of all the others, and of itself.                                   *)
EXTENDS Consensus

MCLists == {Nodes}
=============================================================================
