------------------------------ MODULE Mempool -------------------------------
(***************************************************************************)
(* The transaction pool with its indexes (blockchain/mempool/mempool.go):  *)
(* every operation runs under the pool's lock and is one action.  The pool *)
(* stores pointers: whoever was handed a transaction can change it, which  *)
(* the metadata recorded at insertion guards against.                      *)
(***************************************************************************)
EXTENDS PoolEntries

CONSTANT Written  \* what callers write through a pointer

ASSUME WrittenAssumption == Written \subseteq Entry

VARIABLES
  transactions,        \* ID -> the transaction, as it reads now
  metadata,            \* ID -> sender, nonce and size at insertion
  senderNonces,        \* sender -> nonce -> ID
  totalEstimatedBytes

vars == <<transactions, metadata, senderNonces, totalEstimatedBytes>>

Pool == INSTANCE BoundedPool WITH pool <- metadata

\* A missing key reads as an empty map.
Nonces(s) == IF s \in DOMAIN senderNonces THEN senderNonces[s] ELSE EmptyMap

-----------------------------------------------------------------------------
\* NewMempool
Init ==
  /\ transactions = EmptyMap
  /\ metadata = EmptyMap
  /\ senderNonces = EmptyMap
  /\ totalEstimatedBytes = 0

checkAdmissionLocked_noNonce(id, tx) ==
  /\ id \notin DOMAIN transactions
  /\ Cardinality(DOMAIN transactions) < MaxMempoolTransactions
  /\ totalEstimatedBytes + tx.size <= MaxMempoolBytes
  /\ Cardinality(DOMAIN Nonces(tx.sender)) < MaxMempoolTransactionsPerSender

checkAdmissionLocked(id, tx) ==
  /\ id \notin DOMAIN transactions
  /\ Cardinality(DOMAIN transactions) < MaxMempoolTransactions
  /\ totalEstimatedBytes + tx.size <= MaxMempoolBytes
  /\ Cardinality(DOMAIN Nonces(tx.sender)) < MaxMempoolTransactionsPerSender
  /\ tx.nonce \notin DOMAIN Nonces(tx.sender)

AddTransaction(id, tx) ==
  /\ checkAdmissionLocked(id, tx)
  /\ transactions' = Put(transactions, id, tx)
  /\ metadata' = Put(metadata, id, tx)
  /\ senderNonces' = Put(senderNonces, tx.sender,
                         Put(Nonces(tx.sender), tx.nonce, id))
  /\ totalEstimatedBytes' = totalEstimatedBytes + tx.size

BytesWithout(id) ==
  IF metadata[id].size >= totalEstimatedBytes THEN 0
  ELSE totalEstimatedBytes - metadata[id].size

IndexWithout_currentFields(id) ==
  LET tx == transactions[id]
  IN  IF tx.sender \notin DOMAIN senderNonces THEN senderNonces
      ELSE Put(senderNonces, tx.sender,
               Without(senderNonces[tx.sender], tx.nonce))

IndexWithout(id) ==
  LET meta   == metadata[id]
      nonces == Nonces(meta.sender)
      rest   == IF meta.nonce \in DOMAIN nonces /\ nonces[meta.nonce] = id
                THEN Without(nonces, meta.nonce) ELSE nonces
  IN  IF meta.sender \notin DOMAIN senderNonces THEN senderNonces
      ELSE IF DOMAIN rest = {} THEN Without(senderNonces, meta.sender)
      ELSE Put(senderNonces, meta.sender, rest)

\* An ID without metadata is removed and the accounting is left alone.
RemoveTransaction(id) ==
  /\ id \in DOMAIN transactions
  /\ transactions' = Without(transactions, id)
  /\ metadata' = Without(metadata, id)
  /\ senderNonces' = IF id \in DOMAIN metadata THEN IndexWithout(id)
                     ELSE senderNonces
  /\ totalEstimatedBytes' = IF id \in DOMAIN metadata THEN BytesWithout(id)
                            ELSE totalEstimatedBytes

Clear ==
  /\ transactions' = EmptyMap
  /\ metadata' = EmptyMap
  /\ senderNonces' = EmptyMap
  /\ totalEstimatedBytes' = 0

\* A caller writes through a pointer it got from the pool or gave to it.
MutatePointer(id, tx) ==
  /\ id \in DOMAIN transactions
  /\ transactions' = [transactions EXCEPT ![id] = tx]
  /\ UNCHANGED <<metadata, senderNonces, totalEstimatedBytes>>

Next ==
  \/ \E id \in ID, tx \in Entry : AddTransaction(id, tx)
  \/ \E id \in ID : RemoveTransaction(id)
  \/ Clear
  \/ \E id \in ID, tx \in Written : MutatePointer(id, tx)

Spec == Init /\ [][Next]_vars

-----------------------------------------------------------------------------
TypeOK ==
  /\ DOMAIN transactions \subseteq ID
  /\ transactions \in [DOMAIN transactions -> Entry]
  /\ metadata \in [DOMAIN transactions -> Entry]
  /\ DOMAIN senderNonces \subseteq Sender
  /\ \A s \in DOMAIN senderNonces :
       /\ DOMAIN senderNonces[s] \subseteq Nonce
       /\ senderNonces[s] \in [DOMAIN senderNonces[s] -> ID]
  /\ senderNonces = [s \in DOMAIN senderNonces |-> senderNonces[s]]
  /\ totalEstimatedBytes \in Nat

IndexesAgree ==
  /\ \A id \in DOMAIN metadata :
       /\ metadata[id].sender \in DOMAIN senderNonces
       /\ metadata[id].nonce \in DOMAIN senderNonces[metadata[id].sender]
       /\ senderNonces[metadata[id].sender][metadata[id].nonce] = id
  /\ \A s \in DOMAIN senderNonces :
       /\ DOMAIN senderNonces[s] # {}
       /\ \A n \in DOMAIN senderNonces[s] :
            /\ senderNonces[s][n] \in DOMAIN metadata
            /\ metadata[senderNonces[s][n]].sender = s
            /\ metadata[senderNonces[s][n]].nonce = n

BytesAreExact == totalEstimatedBytes = Bytes(metadata)

WithinLimits ==
  /\ Cardinality(DOMAIN transactions) <= MaxMempoolTransactions
  /\ totalEstimatedBytes <= MaxMempoolBytes
  /\ \A s \in Sender :
       Cardinality(OfSender(metadata, s)) <= MaxMempoolTransactionsPerSender

(***************************************************************************)
(* The sender index, the metadata and the byte count describe the same set *)
(* of pending transactions, whatever order of insertions, removals and     *)
(* writes through shared pointers led here: no empty entry of a sender     *)
(* stays behind, and the clamp to zero in RemoveTransaction hides no       *)
(* difference.  The pool stays within its three limits (AddTransaction,    *)
(* checkAdmissionLocked, RemoveTransaction, Clear).                        *)
(***************************************************************************)
PoolIsExact == IndexesAgree /\ BytesAreExact /\ WithinLimits

(***************************************************************************)
(* The indexed pool behaves as a pool that scans its entries for every     *)
(* check: CheckAdmission and AddTransaction admit exactly the same         *)
(* transactions.                                                           *)
(***************************************************************************)
ImplementsPool == Pool!Spec
=============================================================================
