--------------------------- MODULE PublishedChain ---------------------------
(***************************************************************************)
(* What a node promises about the chain it publishes to its peers: it is   *)
(* always valid and of the difficulty the node was started with; it grows   *)
(* by one block at a time, or is replaced by another chain that is at least *)
(* as long.  blockchain.h and the headers of the consensus threads describe *)
(* the synchronized blockchain in these terms; which thread does what, and  *)
(* under which lock, is left to the implementation (MinerNode).            *)
(***************************************************************************)
EXTENDS Naturals

CONSTANT Zeros

VARIABLES id, chain

Start == [len |-> 1, zeros |-> Zeros, ok |-> TRUE]

Init == id = 0 /\ chain = Start

\* A block mined on top of the published chain.
Extend ==
    /\ chain' = [chain EXCEPT !.len = @ + 1]
    /\ UNCHANGED id

\* Another valid chain of the same difficulty takes its place.
Replace ==
    /\ chain'.len >= chain.len
    /\ chain' = [chain EXCEPT !.len = chain'.len]
    /\ id' = id + 1

Next == Extend \/ Replace

Spec == Init /\ [][Next]_<<id, chain>>
=============================================================================
