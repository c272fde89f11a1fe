---------------------------- MODULE PendingPool -----------------------------
(***************************************************************************)
(* The rules for pending transactions, as operators on a pool that is a    *)
(* set of transactions: admission (blockchain/mempool/mempool.go),         *)
(* validation against a sender's pending chain                             *)
(* (blockchain/mempool_validator.go) and the selection of transactions for *)
(* a block (blockchain/block_builder.go).  Mempool models the indexes that *)
(* the code keeps to answer the same questions.                            *)
(***************************************************************************)
EXTENDS Replay

CONSTANTS
  MaxMempoolTransactions, MaxMempoolTransactionsPerSender, MaxMempoolBytes,
  MaxBlockTransactions, MaxBlockTransactionBytes,
  EstimatedSerializedSize(_)

BytesOf(txs) == MapThenSumSet(EstimatedSerializedSize, txs)

TransactionsForSender(pool, sender) == {tx \in pool : tx.id.from = sender}

HasID(pool, id) == \E tx \in pool : tx.id = id

WithoutID(pool, id) == {tx \in pool : tx.id # id}

\* CheckAdmission, and AddTransaction before it inserts.
CheckAdmission(pool, tx) ==
  /\ ValidateResourceBounds(tx)
  /\ ~HasID(pool, tx.id)
  /\ Cardinality(pool) < MaxMempoolTransactions
  /\ BytesOf(pool) + EstimatedSerializedSize(tx) <= MaxMempoolBytes
  /\ LET pending == TransactionsForSender(pool, tx.id.from)
     IN  /\ Cardinality(pending) < MaxMempoolTransactionsPerSender
         /\ \A other \in pending : other.id.nonce # tx.id.nonce

\* A sender's pending transactions by nonce (the pool has one per nonce).
InNonceOrder(pending) ==
  SetToSortSeq(pending, LAMBDA a, b : a.id.nonce < b.id.nonce)

(***************************************************************************)
(* The candidate applies to the confirmed state after the sender's pending *)
(* transactions, all of which must still apply.                            *)
(***************************************************************************)
ValidateMempoolTransactionFor(st, pending, tx, network) ==
  LET own == TransactionsForSender(pending, tx.id.from)
      CanApplyNext(acc, t) ==
        IF acc.ok /\ CanApplyTransaction(acc.state, t, network)
        THEN [acc EXCEPT !.state = ApplyTransaction(@, t)]
        ELSE [acc EXCEPT !.ok = FALSE]
  IN  /\ ValidateResourceBounds(tx)
      /\ ~HasID(pending, tx.id)
      /\ Cardinality(own) < MaxMempoolTransactionsPerSender
      /\ FoldLeft(CanApplyNext, Outcome(st), Append(InNonceOrder(own), tx)).ok

(***************************************************************************)
(* Sorted by sender, then nonce, then ID.  Addresses and IDs are hashes:   *)
(* any order of them is possible.                                          *)
(***************************************************************************)
RecoveryOrders_unsorted(txs) == SetToSeqs(txs)

RecoveryOrders(txs) ==
  {s \in SetToSeqs(txs) : \A i, k \in DOMAIN s :
     i < k /\ s[i].id.from = s[k].id.from =>
       /\ s[i].id.nonce <= s[k].id.nonce
       /\ \A j \in i .. k : s[j].id.from = s[i].id.from}

(***************************************************************************)
(* NewBlockFromMempool: the pool in the order in which the map yields it,  *)
(* without what exceeds the limits of a block.                             *)
(***************************************************************************)
Selected(ordered) ==
  LET Select(acc, tx) ==
        IF \/ Len(acc) >= MaxBlockTransactions
           \/ BytesOf(ToSet(acc)) + EstimatedSerializedSize(tx)
                > MaxBlockTransactionBytes
        THEN acc ELSE Append(acc, tx)
  IN  FoldLeft(Select, <<>>, ordered)
=============================================================================
