----------------------------- MODULE MCMempool ------------------------------
(***************************************************************************)
(* Mempool with more IDs than the pool holds, two senders and sizes, so    *)
(* that each of the three limits is the one that refuses a transaction.    *)
(***************************************************************************)
EXTENDS Mempool, TLC

\* A pointer that reads as another sender's larger transaction, or smaller.
MCWritten ==
  {[sender |-> "alice", nonce |-> 1, size |-> 2],
   [sender |-> "bob", nonce |-> 3, size |-> 1]}

MCSymmetry == Permutations(ID)
=============================================================================
