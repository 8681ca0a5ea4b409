----------------------------- MODULE MCMinerNode -----------------------------
(***************************************************************************)
(* MinerNode for TLC.  The published chain never shrinks, so PeerLens bounds *)
(* the number of switches: every switch raises the published length above   *)
(* the length that was read.                                                *)
(***************************************************************************)
EXTENDS MinerNode
=============================================================================
