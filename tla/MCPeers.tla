------------------------------ MODULE MCPeers -------------------------------
(***************************************************************************)
(* Two connections of two nodes of one network group, of which only one    *)
(* may be connected.  Every invalid message reaches the threshold.         *)
(***************************************************************************)
EXTENDS Peers
=============================================================================
