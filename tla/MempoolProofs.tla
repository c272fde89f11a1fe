--------------------------- MODULE MempoolProofs ----------------------------
(***************************************************************************)
(* The indexes of Mempool agree and it implements BoundedPool, for every   *)
(* set of IDs, senders, nonces and sizes and every limit.                  *)
(***************************************************************************)
EXTENDS Mempool, FiniteSetTheorems, TLAPS

\* The maps from IDs to entries.
IsPool(e) == DOMAIN e \subseteq ID /\ e \in [DOMAIN e -> Entry]

(***************************************************************************)
(* The bytes of a pool can be counted.                                     *)
(***************************************************************************)
LEMMA BytesFinite ==
  ASSUME NEW e, IsPool(e)
  PROVE  IsFiniteSet(ByteUnits(e)) /\ Bytes(e) \in Nat
<1>1. IsFiniteSet(1 .. MaxSize)
  BY FS_Interval, PoolAssumption
<1>2. IsFiniteSet(DOMAIN e)
  BY FS_Subset, PoolAssumption DEF IsPool
<1>3. IsFiniteSet((DOMAIN e) \X (1 .. MaxSize))
  BY <1>1, <1>2, FS_Product, Zenon
<1>4. ByteUnits(e) \in SUBSET ((DOMAIN e) \X (1 .. MaxSize))
  BY DEF ByteUnits
<1>5. IsFiniteSet(ByteUnits(e))
  BY <1>3, <1>4, FS_Subset
<1> QED
  BY <1>5, FS_CardinalityType DEF Bytes

\* The bytes of one entry.
Slab(id, size) == {id} \X (1 .. size)

(***************************************************************************)
(* An entry of a size has that many bytes.                                 *)
(***************************************************************************)
LEMMA SlabCardinality ==
  ASSUME NEW id, NEW size \in Nat
  PROVE  IsFiniteSet(Slab(id, size)) /\ Cardinality(Slab(id, size)) = size
<1> DEFINE I == 1 .. size
<1>1. IsFiniteSet(I) /\ Cardinality(I) = size
  BY FS_Interval
<1>2. IsFiniteSet({id}) /\ Cardinality({id}) = 1
  BY FS_Singleton
<1>3. IsFiniteSet({id} \X I) /\ Cardinality({id} \X I) = 1 * size
  <2> HIDE DEF I
  <2>1. /\ IsFiniteSet({id} \X I)
        /\ Cardinality({id} \X I) = Cardinality({id}) * Cardinality(I)
    BY <1>1, <1>2, FS_Product, Zenon
  <2> QED BY <1>1, <1>2, <2>1
<1> QED
  BY <1>3 DEF Slab

(***************************************************************************)
(* A new entry adds its size to the bytes of the pool (AddTransaction).    *)
(***************************************************************************)
LEMMA BytesAfterPut ==
  ASSUME NEW e, IsPool(e), NEW id \in ID, id \notin DOMAIN e, NEW tx \in Entry
  PROVE  /\ IsPool(Put(e, id, tx))
         /\ Bytes(Put(e, id, tx)) = Bytes(e) + tx.size
<1> DEFINE f == Put(e, id, tx)
           new == Slab(id, tx.size)
<1>0. tx.size \in Nat /\ tx.size <= MaxSize
  BY PoolAssumption DEF Entry
<1>1. IsPool(f)
  BY DEF IsPool, Put
<1>2. IsFiniteSet(new) /\ Cardinality(new) = tx.size
  BY <1>0, SlabCardinality
<1>3. ByteUnits(f) = ByteUnits(e) \cup new
  BY <1>0, PoolAssumption DEF ByteUnits, Slab, Put, IsPool
<1>4. ByteUnits(e) \cap new = {}
  BY DEF ByteUnits, Slab
<1>5. Cardinality(ByteUnits(e) \cup new)
        = Cardinality(ByteUnits(e)) + Cardinality(new) - Cardinality({})
  BY <1>2, <1>4, BytesFinite, FS_Union
<1>6. Cardinality(ByteUnits(e)) \in Nat
  BY BytesFinite DEF Bytes
<1> QED
  BY <1>0, <1>1, <1>2, <1>3, <1>5, <1>6, FS_EmptySet DEF Bytes

(***************************************************************************)
(* A removed entry takes its size from the bytes of the pool               *)
(* (RemoveTransaction).                                                    *)
(***************************************************************************)
LEMMA BytesAfterWithout ==
  ASSUME NEW e, IsPool(e), NEW id \in DOMAIN e
  PROVE  /\ IsPool(Without(e, id))
         /\ Bytes(e) = Bytes(Without(e, id)) + e[id].size
<1> DEFINE f == Without(e, id)
<1>1. IsPool(f) /\ id \notin DOMAIN f /\ id \in ID /\ e[id] \in Entry
  BY DEF IsPool, Without
<1>2. Put(f, id, e[id]) = e
  <2>1. DOMAIN Put(f, id, e[id]) = DOMAIN e
    BY DEF Put, Without
  <2>2. \A x \in DOMAIN e : Put(f, id, e[id])[x] = e[x]
    BY DEF Put, Without
  <2>3. Put(f, id, e[id]) = [x \in DOMAIN e |-> e[x]]
    BY <2>1, <2>2 DEF Put
  <2> QED BY <2>3 DEF IsPool
<1> HIDE DEF f
<1>3. Bytes(Put(f, id, e[id])) = Bytes(f) + e[id].size
  BY <1>1, BytesAfterPut
<1> QED
  BY <1>1, <1>2, <1>3 DEF f

-----------------------------------------------------------------------------
IInv == TypeOK /\ IndexesAgree /\ BytesAreExact

(***************************************************************************)
(* The nonces indexed for a sender are as many as the sender's entries:    *)
(* len(senderNonces) answers the question a scan would.                    *)
(***************************************************************************)
LEMMA SenderCount ==
  ASSUME IInv, NEW s \in Sender
  PROVE  /\ IsFiniteSet(OfSender(metadata, s))
         /\ Cardinality(DOMAIN Nonces(s)) = Cardinality(OfSender(metadata, s))
<1> DEFINE S == OfSender(metadata, s)
           T == DOMAIN Nonces(s)
           f == [id \in S |-> metadata[id].nonce]
<1>1. IsFiniteSet(S)
  <2>1. S \in SUBSET ID
    BY DEF OfSender, IInv, TypeOK
  <2> QED BY <2>1, FS_Subset, PoolAssumption
<1>2. f \in [S -> T]
  <2> SUFFICES ASSUME NEW id \in S PROVE metadata[id].nonce \in T
    OBVIOUS
  <2>1. id \in DOMAIN metadata /\ metadata[id].sender = s
    BY DEF OfSender
  <2> QED BY <2>1 DEF IInv, IndexesAgree, Nonces
<1>3. \A a, b \in S : f[a] = f[b] => a = b
  BY DEF OfSender, IInv, IndexesAgree
<1>4. \A n \in T : \E id \in S : f[id] = n
  <2> SUFFICES ASSUME NEW n \in T PROVE \E id \in S : f[id] = n
    OBVIOUS
  <2>1. s \in DOMAIN senderNonces /\ T = DOMAIN senderNonces[s]
    BY DEF Nonces, EmptyMap
  <2>2. /\ senderNonces[s][n] \in DOMAIN metadata
        /\ metadata[senderNonces[s][n]].sender = s
        /\ metadata[senderNonces[s][n]].nonce = n
    BY <2>1 DEF IInv, IndexesAgree
  <2>3. senderNonces[s][n] \in S
    BY <2>2 DEF OfSender
  <2> QED BY <2>2, <2>3
<1>5. f \in Bijection(S, T)
  <2> HIDE DEF f, S, T
  <2> QED BY <1>2, <1>3, <1>4 DEF Bijection, Injection, Surjection, IsInjective
<1>6. ExistsBijection(S, T)
  BY <1>5, Zenon DEF ExistsBijection
<1> QED
  <2> HIDE DEF S, T
  <2>1. Cardinality(T) = Cardinality(S)
    BY <1>1, <1>6, FS_Bijection
  <2> QED BY <1>1, <2>1 DEF S, T

-----------------------------------------------------------------------------
(***************************************************************************)
(* NewMempool satisfies the invariant.                                     *)
(***************************************************************************)
LEMMA InitIInv == Init => IInv
<1> SUFFICES ASSUME Init PROVE IInv
  OBVIOUS
<1>1. DOMAIN EmptyMap = {}
  BY DEF EmptyMap
<1>2. IsPool(EmptyMap) /\ ByteUnits(EmptyMap) = {}
  BY <1>1 DEF IsPool, ByteUnits, EmptyMap
<1>3. Bytes(EmptyMap) = 0
  BY <1>2, FS_EmptySet DEF Bytes
<1>4. TypeOK
  BY <1>1 DEF Init, TypeOK, EmptyMap
<1> QED
  BY <1>1, <1>3, <1>4 DEF Init, IInv, IndexesAgree, BytesAreExact

(***************************************************************************)
(* Clear leaves the pool as NewMempool makes it.                           *)
(***************************************************************************)
LEMMA ClearIInv == Clear => IInv'
<1> SUFFICES ASSUME Clear PROVE IInv'
  OBVIOUS
<1>1. DOMAIN EmptyMap = {}
  BY DEF EmptyMap
<1>2. IsPool(EmptyMap) /\ ByteUnits(EmptyMap) = {}
  BY <1>1 DEF IsPool, ByteUnits, EmptyMap
<1>3. Bytes(EmptyMap) = 0
  BY <1>2, FS_EmptySet DEF Bytes
<1>4. TypeOK'
  BY <1>1 DEF Clear, TypeOK, EmptyMap
<1> QED
  BY <1>1, <1>3, <1>4 DEF Clear, IInv, IndexesAgree, BytesAreExact

(***************************************************************************)
(* AddTransaction enters the transaction in all three maps.                *)
(***************************************************************************)
LEMMA AddTransactionIInv ==
  ASSUME IInv, NEW id \in ID, NEW tx \in Entry, AddTransaction(id, tx)
  PROVE  IInv'
<1> DEFINE s == tx.sender
           n == tx.nonce
<1>1. s \in Sender /\ n \in Nonce /\ tx.size \in Nat
  BY PoolAssumption DEF Entry
<1>2. IsPool(metadata) /\ IsPool(transactions) /\ id \notin DOMAIN metadata
  BY DEF IInv, TypeOK, IsPool, AddTransaction, checkAdmissionLocked
<1>3. IsPool(metadata') /\ IsPool(transactions')
  BY <1>2 DEF AddTransaction, IsPool, Put
<1>4. DOMAIN metadata' = DOMAIN transactions'
  BY <1>2 DEF AddTransaction, Put, IInv, TypeOK
<1>5. /\ DOMAIN senderNonces' = DOMAIN senderNonces \cup {s}
      /\ DOMAIN senderNonces'[s] = DOMAIN Nonces(s) \cup {n}
      /\ senderNonces'[s][n] = id
      /\ \A m \in DOMAIN Nonces(s) \ {n} : senderNonces'[s][m] = Nonces(s)[m]
      /\ \A t \in DOMAIN senderNonces \ {s} : senderNonces'[t] = senderNonces[t]
  BY DEF AddTransaction, Put
<1>6. DOMAIN Nonces(s) \subseteq Nonce /\ \A m \in DOMAIN Nonces(s) : Nonces(s)[m] \in ID
  BY DEF Nonces, EmptyMap, IInv, TypeOK
<1>7. TypeOK'
  <2>1. senderNonces' = [t \in DOMAIN senderNonces' |-> senderNonces'[t]]
    BY DEF AddTransaction, Put
  <2>2. senderNonces'[s] = [m \in DOMAIN senderNonces'[s] |-> senderNonces'[s][m]]
    BY <1>5 DEF AddTransaction, Put
  <2>3. \A t \in DOMAIN senderNonces' :
          /\ DOMAIN senderNonces'[t] \subseteq Nonce
          /\ senderNonces'[t] \in [DOMAIN senderNonces'[t] -> ID]
    BY <1>1, <1>5, <1>6, <2>2 DEF IInv, TypeOK
  <2>4. totalEstimatedBytes' \in Nat
    BY <1>1 DEF AddTransaction, IInv, TypeOK
  <2> QED
    BY <1>1, <1>3, <1>4, <1>5, <2>1, <2>3, <2>4 DEF IInv, TypeOK, IsPool
<1>8. IndexesAgree'
  <2>1. n \notin DOMAIN Nonces(s)
    BY DEF AddTransaction, checkAdmissionLocked
  <2>2. /\ DOMAIN metadata' = DOMAIN metadata \cup {id}
        /\ metadata'[id] = tx
        /\ \A x \in DOMAIN metadata : metadata'[x] = metadata[x]
    BY <1>2 DEF AddTransaction, Put
  <2>3. ASSUME NEW x \in DOMAIN metadata'
        PROVE  /\ metadata'[x].sender \in DOMAIN senderNonces'
               /\ metadata'[x].nonce \in DOMAIN senderNonces'[metadata'[x].sender]
               /\ senderNonces'[metadata'[x].sender][metadata'[x].nonce] = x
    <3>1. CASE x = id
      BY <1>5, <2>2, <3>1
    <3>2. CASE x \in DOMAIN metadata /\ metadata[x].sender = s
      <4>1. /\ s \in DOMAIN senderNonces
            /\ metadata[x].nonce \in DOMAIN senderNonces[s]
            /\ senderNonces[s][metadata[x].nonce] = x
        BY <3>2 DEF IInv, IndexesAgree
      <4>2. Nonces(s) = senderNonces[s] /\ metadata[x].nonce # n
        BY <2>1, <4>1 DEF Nonces
      <4> QED BY <1>5, <2>2, <3>2, <4>1, <4>2
    <3>3. CASE x \in DOMAIN metadata /\ metadata[x].sender # s
      BY <1>5, <2>2, <3>3 DEF IInv, IndexesAgree
    <3> QED BY <2>2, <3>1, <3>2, <3>3
  <2>4. ASSUME NEW t \in DOMAIN senderNonces', NEW m \in DOMAIN senderNonces'[t]
        PROVE  /\ senderNonces'[t][m] \in DOMAIN metadata'
               /\ metadata'[senderNonces'[t][m]].sender = t
               /\ metadata'[senderNonces'[t][m]].nonce = m
    <3>1. CASE t = s /\ m = n
      BY <1>5, <2>2, <3>1
    <3>2. CASE t = s /\ m # n
      <4>1. m \in DOMAIN Nonces(s) /\ senderNonces'[t][m] = Nonces(s)[m]
        BY <1>5, <3>2
      <4>2. s \in DOMAIN senderNonces /\ Nonces(s) = senderNonces[s]
        BY <4>1 DEF Nonces, EmptyMap
      <4> QED BY <2>2, <3>2, <4>1, <4>2 DEF IInv, IndexesAgree
    <3>3. CASE t # s
      BY <1>5, <2>2, <3>3 DEF IInv, IndexesAgree
    <3> QED BY <3>1, <3>2, <3>3
  <2>5. \A t \in DOMAIN senderNonces' : DOMAIN senderNonces'[t] # {}
    BY <1>5 DEF IInv, IndexesAgree
  <2> QED BY <2>3, <2>4, <2>5 DEF IndexesAgree
<1>9. BytesAreExact'
  <2>1. Bytes(Put(metadata, id, tx)) = Bytes(metadata) + tx.size
    BY <1>2, BytesAfterPut
  <2> QED BY <2>1 DEF AddTransaction, IInv, BytesAreExact
<1> QED
  BY <1>7, <1>8, <1>9 DEF IInv

(***************************************************************************)
(* RemoveTransaction takes the transaction out of all three maps, whatever *)
(* the stored pointer reads by then.                                       *)
(***************************************************************************)
LEMMA RemoveTransactionIInv ==
  ASSUME IInv, NEW id \in ID, RemoveTransaction(id)
  PROVE  IInv'
<1> DEFINE meta == metadata[id]
           s == meta.sender
           n == meta.nonce
           rest == Without(senderNonces[s], n)
<1>1. id \in DOMAIN metadata /\ DOMAIN metadata = DOMAIN transactions
  BY DEF IInv, TypeOK, RemoveTransaction
<1>2. meta \in Entry /\ s \in Sender /\ n \in Nonce /\ meta.size \in Nat
  BY <1>1, PoolAssumption DEF IInv, TypeOK, Entry
<1>3. /\ s \in DOMAIN senderNonces
      /\ n \in DOMAIN senderNonces[s]
      /\ senderNonces[s][n] = id
  BY <1>1 DEF IInv, IndexesAgree
<1>4. senderNonces' = IF DOMAIN rest = {} THEN Without(senderNonces, s)
                                          ELSE Put(senderNonces, s, rest)
  BY <1>1, <1>3 DEF RemoveTransaction, IndexWithout, Nonces
<1>5. /\ DOMAIN metadata' = DOMAIN metadata \ {id}
      /\ \A x \in DOMAIN metadata' : metadata'[x] = metadata[x]
  BY DEF RemoveTransaction, Without
<1>6. IsPool(metadata) /\ IsPool(transactions)
  BY DEF IInv, TypeOK, IsPool
<1>7. IsPool(metadata') /\ IsPool(transactions') /\ DOMAIN metadata' = DOMAIN transactions'
  BY <1>1, <1>6 DEF RemoveTransaction, IsPool, Without
<1>8. /\ DOMAIN rest = DOMAIN senderNonces[s] \ {n}
      /\ \A m \in DOMAIN rest : rest[m] = senderNonces[s][m]
      /\ rest = [m \in DOMAIN rest |-> rest[m]]
  BY DEF Without
<1>9. /\ DOMAIN senderNonces' = IF DOMAIN rest = {} THEN DOMAIN senderNonces \ {s}
                                                    ELSE DOMAIN senderNonces
      /\ senderNonces' = [t \in DOMAIN senderNonces' |-> senderNonces'[t]]
      /\ \A t \in DOMAIN senderNonces' \ {s} : senderNonces'[t] = senderNonces[t]
      /\ s \in DOMAIN senderNonces' => senderNonces'[s] = rest
  <2> HIDE DEF rest, s
  <2> QED BY <1>3, <1>4 DEF Put, Without
<1> HIDE DEF rest
<1>10. Bytes(metadata) = Bytes(metadata') + meta.size /\ Bytes(metadata') \in Nat
  <2>1. Bytes(metadata) = Bytes(Without(metadata, id)) + metadata[id].size
    BY <1>1, <1>6, BytesAfterWithout
  <2> QED BY <1>7, <2>1, BytesFinite DEF RemoveTransaction
<1>11. totalEstimatedBytes' = Bytes(metadata')
  BY <1>1, <1>2, <1>10 DEF RemoveTransaction, BytesWithout, IInv, BytesAreExact
<1>12. TypeOK'
  <2>1. \A t \in DOMAIN senderNonces' :
          /\ DOMAIN senderNonces'[t] \subseteq Nonce
          /\ senderNonces'[t] \in [DOMAIN senderNonces'[t] -> ID]
    <3> SUFFICES ASSUME NEW t \in DOMAIN senderNonces'
                 PROVE  /\ DOMAIN senderNonces'[t] \subseteq Nonce
                        /\ senderNonces'[t] \in [DOMAIN senderNonces'[t] -> ID]
      OBVIOUS
    <3>1. CASE t # s
      BY <1>9, <3>1 DEF IInv, TypeOK
    <3>2. CASE t = s
      <4>1. senderNonces'[t] = rest
        BY <1>9, <3>2
      <4>2. DOMAIN rest \subseteq Nonce /\ \A m \in DOMAIN rest : rest[m] \in ID
        BY <1>3, <1>8 DEF IInv, TypeOK
      <4> QED BY <1>8, <4>1, <4>2
    <3> QED BY <3>1, <3>2
  <2> QED
    BY <1>7, <1>9, <1>10, <1>11, <2>1 DEF IInv, TypeOK, IsPool
<1>13. IndexesAgree'
  <2>1. ASSUME NEW x \in DOMAIN metadata'
        PROVE  /\ metadata'[x].sender \in DOMAIN senderNonces'
               /\ metadata'[x].nonce \in DOMAIN senderNonces'[metadata'[x].sender]
               /\ senderNonces'[metadata'[x].sender][metadata'[x].nonce] = x
    <3>1. /\ x # id /\ metadata'[x] = metadata[x]
          /\ metadata[x].sender \in DOMAIN senderNonces
          /\ metadata[x].nonce \in DOMAIN senderNonces[metadata[x].sender]
          /\ senderNonces[metadata[x].sender][metadata[x].nonce] = x
      BY <1>5 DEF IInv, IndexesAgree
    <3>2. CASE metadata[x].sender # s
      BY <1>9, <3>1, <3>2
    <3>3. CASE metadata[x].sender = s
      <4>1. metadata[x].nonce # n
        BY <1>3, <3>1, <3>3
      <4>2. metadata[x].nonce \in DOMAIN rest
        BY <1>8, <3>1, <3>3, <4>1
      <4>3. s \in DOMAIN senderNonces' /\ senderNonces'[s] = rest
        BY <1>3, <1>9, <4>2
      <4> QED BY <1>8, <3>1, <3>3, <4>2, <4>3
    <3> QED BY <3>2, <3>3
  <2>2. ASSUME NEW t \in DOMAIN senderNonces', NEW m \in DOMAIN senderNonces'[t]
        PROVE  /\ senderNonces'[t][m] \in DOMAIN metadata'
               /\ metadata'[senderNonces'[t][m]].sender = t
               /\ metadata'[senderNonces'[t][m]].nonce = m
    <3>1. /\ t \in DOMAIN senderNonces /\ m \in DOMAIN senderNonces[t]
          /\ senderNonces'[t][m] = senderNonces[t][m]
          /\ t # s \/ m # n
      BY <1>3, <1>8, <1>9
    <3>2. /\ senderNonces[t][m] \in DOMAIN metadata
          /\ metadata[senderNonces[t][m]].sender = t
          /\ metadata[senderNonces[t][m]].nonce = m
      BY <3>1 DEF IInv, IndexesAgree
    <3>3. senderNonces[t][m] # id
      BY <3>1, <3>2
    <3> QED BY <1>5, <3>1, <3>2, <3>3
  <2>3. \A t \in DOMAIN senderNonces' : DOMAIN senderNonces'[t] # {}
    BY <1>9 DEF IInv, IndexesAgree
  <2> QED BY <2>1, <2>2, <2>3 DEF IndexesAgree
<1> QED
  BY <1>11, <1>12, <1>13 DEF IInv, BytesAreExact

(***************************************************************************)
(* A write through a shared pointer touches no index.                      *)
(***************************************************************************)
LEMMA MutatePointerIInv ==
  ASSUME IInv, NEW id \in ID, NEW tx \in Written, MutatePointer(id, tx)
  PROVE  IInv'
<1>1. TypeOK'
  BY WrittenAssumption DEF IInv, TypeOK, MutatePointer
<1> QED
  BY <1>1 DEF IInv, IndexesAgree, BytesAreExact, MutatePointer

(***************************************************************************)
(* Every operation keeps the indexes consistent.                           *)
(***************************************************************************)
LEMMA NextIInv == IInv /\ [Next]_vars => IInv'
<1> SUFFICES ASSUME IInv, [Next]_vars PROVE IInv'
  OBVIOUS
<1>1. CASE \E id \in ID, tx \in Entry : AddTransaction(id, tx)
  BY <1>1, AddTransactionIInv
<1>2. CASE \E id \in ID : RemoveTransaction(id)
  BY <1>2, RemoveTransactionIInv
<1>3. CASE Clear
  BY <1>3, ClearIInv
<1>4. CASE \E id \in ID, tx \in Written : MutatePointer(id, tx)
  BY <1>4, MutatePointerIInv
<1>5. CASE UNCHANGED vars
  BY <1>5 DEF vars, IInv, TypeOK, IndexesAgree, BytesAreExact
<1> QED
  BY <1>1, <1>2, <1>3, <1>4, <1>5 DEF Next

(***************************************************************************)
(* The three maps and the byte counter of the pool always agree, for any   *)
(* sequence of insertions, removals, clears and writes through pointers    *)
(* (mempool.go).                                                           *)
(***************************************************************************)
LEMMA PoolIndexes == Spec => [](TypeOK /\ IndexesAgree /\ BytesAreExact)
<1>1. Spec => []IInv
  BY InitIInv, NextIInv, PTL DEF Spec
<1> QED
  BY <1>1, PTL DEF IInv

-----------------------------------------------------------------------------
(***************************************************************************)
(* Fewer entries keep the limits (RemoveTransaction, Clear).               *)
(***************************************************************************)
LEMMA FewerWithinLimits ==
  ASSUME IInv, IInv', WithinLimits,
         DOMAIN transactions' \subseteq DOMAIN transactions,
         \A x \in DOMAIN metadata' : metadata'[x] = metadata[x],
         totalEstimatedBytes' <= totalEstimatedBytes
  PROVE  WithinLimits'
<1>1. DOMAIN metadata = DOMAIN transactions /\ DOMAIN metadata' = DOMAIN transactions'
  BY DEF IInv, TypeOK
<1>2. IsFiniteSet(DOMAIN transactions)
  BY FS_Subset, PoolAssumption DEF IInv, TypeOK
<1>3. /\ Cardinality(DOMAIN transactions') <= Cardinality(DOMAIN transactions)
      /\ Cardinality(DOMAIN transactions') \in Nat
      /\ Cardinality(DOMAIN transactions) \in Nat
  BY <1>2, FS_Subset, FS_CardinalityType
<1>4. Cardinality(DOMAIN transactions') <= MaxMempoolTransactions
  BY <1>3, PoolAssumption DEF WithinLimits
<1>5. totalEstimatedBytes' <= MaxMempoolBytes
  BY PoolAssumption DEF WithinLimits, IInv, TypeOK
<1>6. ASSUME NEW s \in Sender
      PROVE  Cardinality(OfSender(metadata', s)) <= MaxMempoolTransactionsPerSender
  <2>1. OfSender(metadata', s) \in SUBSET OfSender(metadata, s)
    BY <1>1 DEF OfSender
  <2>2. IsFiniteSet(OfSender(metadata, s))
    BY SenderCount
  <2>3. /\ Cardinality(OfSender(metadata', s)) <= Cardinality(OfSender(metadata, s))
        /\ Cardinality(OfSender(metadata', s)) \in Nat
        /\ Cardinality(OfSender(metadata, s)) \in Nat
    BY <2>1, <2>2, FS_Subset, FS_CardinalityType
  <2> QED BY <2>3, PoolAssumption DEF WithinLimits
<1> QED
  BY <1>4, <1>5, <1>6 DEF WithinLimits

(***************************************************************************)
(* The checks under the write lock keep the limits (AddTransaction).       *)
(***************************************************************************)
LEMMA AddWithinLimits ==
  ASSUME IInv, WithinLimits, NEW id \in ID, NEW tx \in Entry,
         AddTransaction(id, tx)
  PROVE  WithinLimits'
<1>1. DOMAIN metadata = DOMAIN transactions /\ id \notin DOMAIN transactions
  BY DEF IInv, TypeOK, AddTransaction, checkAdmissionLocked
<1>2. IsFiniteSet(DOMAIN transactions)
  BY FS_Subset, PoolAssumption DEF IInv, TypeOK
<1>3. Cardinality(DOMAIN transactions') <= MaxMempoolTransactions
  <2>1. DOMAIN transactions' = DOMAIN transactions \cup {id}
    BY DEF AddTransaction, Put
  <2>2. /\ Cardinality(DOMAIN transactions') = Cardinality(DOMAIN transactions) + 1
        /\ Cardinality(DOMAIN transactions) \in Nat
    BY <1>1, <1>2, <2>1, FS_AddElement, FS_CardinalityType
  <2> QED BY <2>2, PoolAssumption DEF AddTransaction, checkAdmissionLocked
<1>4. totalEstimatedBytes' <= MaxMempoolBytes
  BY DEF AddTransaction, checkAdmissionLocked
<1>5. ASSUME NEW s \in Sender
      PROVE  Cardinality(OfSender(metadata', s)) <= MaxMempoolTransactionsPerSender
  <2>1. /\ DOMAIN metadata' = DOMAIN metadata \cup {id}
        /\ metadata'[id] = tx
        /\ \A x \in DOMAIN metadata : metadata'[x] = metadata[x]
    BY <1>1 DEF AddTransaction, Put
  <2>2. CASE s # tx.sender
    <3>1. OfSender(metadata', s) = OfSender(metadata, s)
      BY <1>1, <2>1, <2>2 DEF OfSender
    <3> QED BY <3>1 DEF WithinLimits
  <2>3. CASE s = tx.sender
    <3>1. OfSender(metadata', s) = OfSender(metadata, s) \cup {id}
      BY <1>1, <2>1, <2>3 DEF OfSender
    <3>2. id \notin OfSender(metadata, s)
      BY <1>1 DEF OfSender
    <3>3. /\ IsFiniteSet(OfSender(metadata, s))
          /\ Cardinality(OfSender(metadata, s)) < MaxMempoolTransactionsPerSender
      BY <2>3, SenderCount DEF AddTransaction, checkAdmissionLocked
    <3>4. /\ Cardinality(OfSender(metadata', s)) = Cardinality(OfSender(metadata, s)) + 1
          /\ Cardinality(OfSender(metadata, s)) \in Nat
      BY <3>1, <3>2, <3>3, FS_AddElement, FS_CardinalityType
    <3> QED BY <3>3, <3>4, PoolAssumption
  <2> QED BY <2>2, <2>3
<1> QED
  BY <1>3, <1>4, <1>5 DEF WithinLimits

(***************************************************************************)
(* Every operation keeps the limits.                                       *)
(***************************************************************************)
LEMMA NextWithinLimits == IInv /\ WithinLimits /\ [Next]_vars => WithinLimits'
<1> SUFFICES ASSUME IInv, WithinLimits, [Next]_vars PROVE WithinLimits'
  OBVIOUS
<1>0. IInv'
  BY NextIInv
<1>1. CASE \E id \in ID, tx \in Entry : AddTransaction(id, tx)
  BY <1>1, AddWithinLimits
<1>2. CASE \E id \in ID : RemoveTransaction(id)
  <2> PICK id \in ID : RemoveTransaction(id)
    BY <1>2
  <2>1. DOMAIN transactions' \subseteq DOMAIN transactions
    BY DEF RemoveTransaction, Without
  <2>2. \A x \in DOMAIN metadata' : metadata'[x] = metadata[x]
    BY DEF RemoveTransaction, Without
  <2>3. totalEstimatedBytes' <= totalEstimatedBytes
    <3>1. id \in DOMAIN metadata /\ metadata[id].size \in Nat
      BY PoolAssumption DEF RemoveTransaction, IInv, TypeOK, Entry
    <3> QED BY <3>1 DEF RemoveTransaction, BytesWithout, IInv, TypeOK
  <2> QED BY <1>0, <2>1, <2>2, <2>3, FewerWithinLimits
<1>3. CASE Clear
  <2>1. DOMAIN transactions' = {} /\ DOMAIN metadata' = {} /\ totalEstimatedBytes' = 0
    BY <1>3 DEF Clear, EmptyMap
  <2> QED BY <1>0, <2>1, FewerWithinLimits DEF IInv, TypeOK
<1>4. CASE \E id \in ID, tx \in Written : MutatePointer(id, tx)
  BY <1>4 DEF MutatePointer, WithinLimits
<1>5. CASE UNCHANGED vars
  BY <1>5 DEF vars, WithinLimits
<1> QED
  BY <1>1, <1>2, <1>3, <1>4, <1>5 DEF Next

(***************************************************************************)
(* The pool never exceeds its limits on transactions, bytes and            *)
(* transactions per sender (checkAdmissionLocked).                         *)
(***************************************************************************)
LEMMA PoolLimits == Spec => []WithinLimits
<1>1. Init => WithinLimits
  <2> SUFFICES ASSUME Init PROVE WithinLimits
    OBVIOUS
  <2>1. DOMAIN transactions = {} /\ DOMAIN metadata = {} /\ totalEstimatedBytes = 0
    BY DEF Init, EmptyMap
  <2>2. \A s \in Sender : OfSender(metadata, s) = {}
    BY <2>1 DEF OfSender
  <2>3. Cardinality({}) = 0
    BY FS_EmptySet
  <2> QED BY <2>1, <2>2, <2>3, PoolAssumption DEF WithinLimits
<1> QED
  BY <1>1, InitIInv, NextIInv, NextWithinLimits, PTL DEF Spec

(***************************************************************************)
(* Whatever sequence of insertions, removals, clears and writes through    *)
(* pointers led to it, the pool's maps and its byte counter agree and its  *)
(* limits hold, for every value of the limits (mempool.go).                *)
(***************************************************************************)
THEOREM PoolSafety == Spec => [](TypeOK /\ PoolIsExact)
BY PoolIndexes, PoolLimits, PTL DEF PoolIsExact

-----------------------------------------------------------------------------
(***************************************************************************)
(* The instance counts sets as this module does.                           *)
(***************************************************************************)
LEMMA SameCardinality == \A S : Pool!Cardinality(S) = Cardinality(S)
  BY Zenon DEF Pool!Cardinality, Cardinality

(***************************************************************************)
(* A step of the indexed pool is a step of the pool that scans, or changes *)
(* nothing the latter sees.                                                *)
(***************************************************************************)
LEMMA StepRefines == IInv /\ [Next]_vars => [Pool!Next]_metadata
<1> SUFFICES ASSUME IInv, [Next]_vars PROVE [Pool!Next]_metadata
  OBVIOUS
<1>0. DOMAIN metadata = DOMAIN transactions
  BY DEF IInv, TypeOK
<1>1. ASSUME NEW id \in ID, NEW tx \in Entry, AddTransaction(id, tx)
      PROVE  Pool!Add(id, tx)
  <2>1. Pool!Bytes(metadata) + tx.size <= MaxMempoolBytes
    BY <1>1, SameCardinality
       DEF AddTransaction, checkAdmissionLocked, IInv, BytesAreExact, Bytes,
           ByteUnits, Pool!Bytes, Pool!ByteUnits
  <2>2. Cardinality(Pool!OfSender(metadata, tx.sender))
          < MaxMempoolTransactionsPerSender
    <3>1. tx.sender \in Sender
      BY DEF Entry
    <3>2. Cardinality(DOMAIN Nonces(tx.sender)) = Cardinality(OfSender(metadata, tx.sender))
      BY <3>1, SenderCount
    <3> QED BY <1>1, <3>2 DEF AddTransaction, checkAdmissionLocked, OfSender, Pool!OfSender
  <2>3. \A other \in Pool!OfSender(metadata, tx.sender) :
          metadata[other].nonce # tx.nonce
    BY <1>1 DEF AddTransaction, checkAdmissionLocked, Pool!OfSender, Nonces,
                IInv, IndexesAgree
  <2> QED
    BY <1>0, <1>1, <2>1, <2>2, <2>3, SameCardinality
       DEF AddTransaction, checkAdmissionLocked, Pool!Add, Pool!Put, Put
<1>2. ASSUME NEW id \in ID, RemoveTransaction(id) PROVE Pool!Remove(id)
  BY <1>0, <1>2 DEF RemoveTransaction, Pool!Remove, Pool!Without, Without
<1>3. CASE \E id \in ID, tx \in Entry : AddTransaction(id, tx)
  BY <1>1, <1>3 DEF Pool!Next, Pool!Entry, Entry
<1>4. CASE \E id \in ID : RemoveTransaction(id)
  BY <1>2, <1>4 DEF Pool!Next
<1>5. CASE Clear
  BY <1>5 DEF Clear, EmptyMap, Pool!Next, Pool!Clear, Pool!EmptyMap
<1>6. CASE \E id \in ID, tx \in Written : MutatePointer(id, tx)
  BY <1>6 DEF MutatePointer
<1>7. CASE UNCHANGED vars
  BY <1>7 DEF vars
<1> QED
  BY <1>3, <1>4, <1>5, <1>6, <1>7 DEF Next

(***************************************************************************)
(* The pool with its indexes implements the pool that scans its entries:   *)
(* CheckAdmission and AddTransaction, answered from the caches, decide as  *)
(* a recount would (mempool.go).                                           *)
(***************************************************************************)
THEOREM PoolRefinement == Spec => ImplementsPool
<1>1. Init => Pool!Init
  BY DEF Init, Pool!Init, EmptyMap, Pool!EmptyMap
<1> QED
  BY <1>1, InitIInv, NextIInv, StepRefines, PTL DEF Spec, ImplementsPool, Pool!Spec
=============================================================================
