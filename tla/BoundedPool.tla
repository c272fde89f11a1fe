---------------------------- MODULE BoundedPool -----------------------------
(***************************************************************************)
(* What a transaction pool promises: a map from IDs to entries, bounded in *)
(* number, in bytes and per sender, with one entry per sender and nonce.   *)
(* Every question is answered by a scan of the entries.  Mempool answers   *)
(* them from indexes and is shown to implement this module.                *)
(***************************************************************************)
EXTENDS PoolEntries

VARIABLE pool

Init == pool = EmptyMap

Add(id, tx) ==
  /\ id \notin DOMAIN pool
  /\ Cardinality(DOMAIN pool) < MaxMempoolTransactions
  /\ Bytes(pool) + tx.size <= MaxMempoolBytes
  /\ Cardinality(OfSender(pool, tx.sender)) < MaxMempoolTransactionsPerSender
  /\ \A other \in OfSender(pool, tx.sender) : pool[other].nonce # tx.nonce
  /\ pool' = Put(pool, id, tx)

Remove(id) ==
  /\ id \in DOMAIN pool
  /\ pool' = Without(pool, id)

Clear == pool' = EmptyMap

Next ==
  \/ \E id \in ID, tx \in Entry : Add(id, tx)
  \/ \E id \in ID : Remove(id)
  \/ Clear

Spec == Init /\ [][Next]_pool
=============================================================================
