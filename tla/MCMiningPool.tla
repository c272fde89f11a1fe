---------------------------- MODULE MCMiningPool ----------------------------
(***************************************************************************)
(* MiningPool with a worker and the shares of another one.                 *)
(***************************************************************************)
EXTENDS MiningPool
=============================================================================
