--------------------------- MODULE MCPeerDiscovery ---------------------------
(***************************************************************************)
(* PeerDiscovery for TLC.  All peers run the same code.                     *)
(***************************************************************************)
EXTENDS PeerDiscovery, TLC

PeerSymmetry == Permutations(Peers)
=============================================================================
