---------------------------- MODULE PoolEntries -----------------------------
(***************************************************************************)
(* The entries of a transaction pool and the Go map operations on them,    *)
(* shared by Mempool and the pool it implements, BoundedPool.              *)
(***************************************************************************)
EXTENDS Integers, FiniteSets

CONSTANTS
  ID, Sender, Nonce,
  MaxSize,  \* the size of the largest transaction
  MaxMempoolTransactions, MaxMempoolBytes, MaxMempoolTransactionsPerSender

ASSUME PoolAssumption ==
  /\ IsFiniteSet(ID)
  /\ {MaxSize, MaxMempoolTransactions, MaxMempoolBytes,
      MaxMempoolTransactionsPerSender} \subseteq Nat

\* The fields of a transaction that the pool reads.
Entry == [sender : Sender, nonce : Nonce, size : 1 .. MaxSize]

\* The bytes of all entries, counted: byte k of entry id.
ByteUnits(entries) ==
  {u \in (DOMAIN entries) \X (1 .. MaxSize) : u[2] <= entries[u[1]].size}

Bytes(entries) == Cardinality(ByteUnits(entries))

OfSender(entries, s) == {id \in DOMAIN entries : entries[id].sender = s}

\* Go map operations.
Put(f, k, v) == [x \in DOMAIN f \cup {k} |-> IF x = k THEN v ELSE f[x]]

Without(f, k) == [x \in DOMAIN f \ {k} |-> f[x]]

EmptyMap == [x \in {} |-> x]
=============================================================================
