--------------------------- MODULE MCDemandMiner ----------------------------
(***************************************************************************)
(* DemandMiner with two supervisors that compete for the lock, two         *)
(* transactions of which one fits into a block, and a faucet that is       *)
(* funded by one block.                                                    *)
(***************************************************************************)
EXTENDS DemandMiner
=============================================================================
