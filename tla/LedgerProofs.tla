---------------------------- MODULE LedgerProofs ----------------------------
(***************************************************************************)
(* Facts about the operators of Ledger, for every set of addresses, every  *)
(* integer width, fee rate, supply cap and subsidy schedule.               *)
(***************************************************************************)
EXTENDS Ledger, FiniteSetTheorems, TLAPS

Balances == [Address -> Uint64]

(***************************************************************************)
(* The units held are a finite set, so they can be counted.                *)
(***************************************************************************)
LEMMA UnitsFinite ==
  ASSUME NEW b
  PROVE  IsFiniteSet(Units(b)) /\ Total(b) \in Nat
<1>0. IsFiniteSet(1 .. MaxUint64)
  BY FS_Interval, WidthAssumption
<1>1. IsFiniteSet(Address \X (1 .. MaxUint64))
  BY <1>0, FS_Product, AddressAssumption, Zenon
<1>2. Units(b) \in SUBSET (Address \X (1 .. MaxUint64))
  BY DEF Units
<1>3. IsFiniteSet(Units(b))
  BY <1>1, <1>2, FS_Subset
<1> QED
  BY <1>3, FS_CardinalityType DEF Total

\* The units m+1 .. m+v of one address.
Slab(a, m, v) == {a} \X ((m + 1) .. (m + v))

(***************************************************************************)
(* The units m+1 .. m+v of one address are v units: what one Credit adds.  *)
(***************************************************************************)
LEMMA SlabCardinality ==
  ASSUME NEW a, NEW m \in Nat, NEW v \in Nat
  PROVE  IsFiniteSet(Slab(a, m, v)) /\ Cardinality(Slab(a, m, v)) = v
<1> DEFINE lo == m + 1
           hi == m + v
           I == lo .. hi
<1>1. lo \in Int /\ hi \in Int /\ (IF lo > hi THEN 0 ELSE hi - lo + 1) = v
  OBVIOUS
<1>2. IsFiniteSet(I) /\ Cardinality(I) = v
  <2> HIDE DEF lo, hi
  <2> QED BY <1>1, FS_Interval
<1>3. IsFiniteSet({a}) /\ Cardinality({a}) = 1
  BY FS_Singleton
<1>4. IsFiniteSet({a} \X I) /\ Cardinality({a} \X I) = 1 * v
  <2> HIDE DEF I
  <2>1. IsFiniteSet({a} \X I) /\ Cardinality({a} \X I) = Cardinality({a}) * Cardinality(I)
    BY <1>2, <1>3, FS_Product, Zenon
  <2> QED BY <1>2, <1>3, <2>1
<1> QED
  BY <1>4 DEF Slab

(***************************************************************************)
(* Crediting one address adds exactly the amount to the total              *)
(* (State.Credit, when it reports no overflow).                            *)
(***************************************************************************)
LEMMA TotalAfterCredit ==
  ASSUME NEW b \in Balances, NEW a \in Address, NEW v \in Nat,
         b[a] + v <= MaxUint64
  PROVE  /\ Credit(b, a, v) \in Balances
         /\ Total(Credit(b, a, v)) = Total(b) + v
<1> DEFINE c == Credit(b, a, v)
           new == Slab(a, b[a], v)
<1>1. c \in Balances
  BY WidthAssumption DEF Credit, Balances, Uint64
<1>2. IsFiniteSet(new) /\ Cardinality(new) = v
  <2>1. b[a] \in Nat
    BY WidthAssumption DEF Balances, Uint64
  <2> QED
    BY <2>1, SlabCardinality
<1>3. Units(c) = Units(b) \cup new
  BY WidthAssumption DEF Units, Slab, Credit, Balances, Uint64
<1>4. Units(b) \cap new = {}
  BY WidthAssumption DEF Units, Slab, Balances, Uint64
<1>5. Cardinality(Units(b) \cup new)
        = Cardinality(Units(b)) + Cardinality(new) - Cardinality({})
  BY <1>2, <1>4, UnitsFinite, FS_Union
<1> QED
  BY <1>1, <1>2, <1>3, <1>5, UnitsFinite, FS_EmptySet DEF Total

(***************************************************************************)
(* Debiting one address takes exactly the amount from the total            *)
(* (State.Debit, when the balance covers it).                              *)
(***************************************************************************)
LEMMA TotalAfterDebit ==
  ASSUME NEW b \in Balances, NEW a \in Address, NEW v \in Nat, v <= b[a]
  PROVE  /\ Debit(b, a, v) \in Balances
         /\ Total(Debit(b, a, v)) = Total(b) - v
<1> DEFINE c == Debit(b, a, v)
<1>1. c \in Balances /\ c[a] + v <= MaxUint64
  BY WidthAssumption DEF Debit, Balances, Uint64
<1>2. Credit(c, a, v) = b
  <2>1. Credit(c, a, v) \in [Address -> Uint64] /\ b \in [Address -> Uint64]
    BY <1>1, WidthAssumption DEF Credit, Debit, Balances, Uint64
  <2>2. \A x \in Address : Credit(c, a, v)[x] = b[x]
    BY WidthAssumption DEF Credit, Debit, Balances, Uint64
  <2> HIDE DEF c
  <2> QED
    BY <2>1, <2>2
<1>3. Total(b) = Total(c) + v
  <2> HIDE DEF c
  <2> QED BY <1>1, <1>2, TotalAfterCredit
<1> QED
  BY <1>1, <1>3, UnitsFinite

(***************************************************************************)
(* No balance exceeds the sum of all balances, which is why a credit of    *)
(* coins that exist cannot overflow.                                       *)
(***************************************************************************)
LEMMA BalanceWithinTotal ==
  ASSUME NEW b \in Balances, NEW a \in Address
  PROVE  b[a] <= Total(b)
<1>1. b[a] \in Nat
  BY WidthAssumption DEF Balances, Uint64
<1>2. Slab(a, 0, b[a]) \in SUBSET Units(b)
  BY <1>1, WidthAssumption DEF Slab, Units, Balances, Uint64
<1>3. Cardinality(Slab(a, 0, b[a])) = b[a]
  BY <1>1, SlabCardinality
<1> QED
  BY <1>2, <1>3, UnitsFinite, FS_Subset DEF Total

(***************************************************************************)
(* Empty accounts hold nothing (NewStateFor).                              *)
(***************************************************************************)
LEMMA TotalOfNone == Total([a \in Address |-> 0]) = 0
<1>1. Units([a \in Address |-> 0]) = {}
  BY WidthAssumption DEF Units
<1> QED
  BY <1>1, FS_EmptySet DEF Total

-----------------------------------------------------------------------------
(***************************************************************************)
(* The three fee functions return machine integers.                        *)
(***************************************************************************)
LEMMA FeeTypes ==
  ASSUME NEW amount \in Uint64
  PROVE  /\ CalculateFee(amount) \in Uint64
         /\ DevelopmentFee(amount) \in Uint64
         /\ MiningFee(amount) \in Uint64
<1>1. \A x \in Int : x % (MaxUint64 + 1) \in Uint64
  BY WidthAssumption DEF Uint64
<1>2. ASSUME NEW bp \in Nat
      PROVE  basisPointsFee(amount, bp) \in Uint64
  <2> DEFINE whole == (amount \div FeeBasisPointsDivisor) * bp
             part == ((amount % FeeBasisPointsDivisor) * bp)
                        \div FeeBasisPointsDivisor
  <2>1. amount \div FeeBasisPointsDivisor \in Int /\ amount % FeeBasisPointsDivisor \in Int
    BY FeeAssumption, WidthAssumption DEF Uint64
  <2>2. whole \in Int /\ part \in Int
    BY <2>1, FeeAssumption
  <2>3. whole + part \in Int
    BY <2>2
  <2> HIDE DEF whole, part
  <2>4. (whole + part) % (MaxUint64 + 1) \in Uint64
    BY <2>3, <1>1
  <2> QED
    BY <2>4 DEF basisPointsFee, whole, part
<1>3. /\ CalculateFee(amount) \in Uint64
      /\ DevelopmentFee(amount) \in Uint64
  BY <1>2, FeeAssumption DEF CalculateFee, DevelopmentFee
<1>4. CalculateFee(amount) - DevelopmentFee(amount) \in Int
  BY <1>3, WidthAssumption DEF Uint64
<1> QED
  BY <1>1, <1>3, <1>4 DEF MiningFee

(***************************************************************************)
(* Integer division, as the fee rules need it.                             *)
(***************************************************************************)
LEMMA Division ==
  ASSUME NEW d \in Nat \ {0}, NEW n \in Nat
  PROVE  /\ n = d * (n \div d) + (n % d)
         /\ n % d \in 0 .. (d - 1)
         /\ n \div d \in Nat
OBVIOUS

LEMMA DivisionOfSum ==
  ASSUME NEW d \in Nat \ {0}, NEW x \in Nat, NEW y \in Nat
  PROVE  (d * x + y) \div d = x + (y \div d)
<1> DEFINE q == y \div d
           r == y % d
<1>1. y = d * q + r /\ r \in 0 .. (d - 1) /\ q \in Nat
  BY Division
<1> HIDE DEF q, r
<1>2. d * x + y = d * (x + q) + r
  BY <1>1
<1>3. (d * (x + q) + r) \div d = x + q
  BY <1>1
<1> QED
  BY <1>2, <1>3 DEF q

(***************************************************************************)
(* Splitting the amount into quotient and remainder (basisPointsFee) gives *)
(* the exact floor and stays within the width, which multiplying first     *)
(* would not.                                                              *)
(***************************************************************************)
LEMMA BasisPointsExact ==
  ASSUME NEW amount \in Uint64, NEW bp \in 0 .. FeeBasisPointsDivisor
  PROVE  /\ basisPointsFee(amount, bp) = (amount * bp) \div FeeBasisPointsDivisor
         /\ basisPointsFee(amount, bp) \in Nat
         /\ basisPointsFee(amount, bp) <= amount
<1> DEFINE D == FeeBasisPointsDivisor
           q == amount \div D
           r == amount % D
           part == (r * bp) \div D
           fee == q * bp + part
<1>1. D \in Nat \ {0} /\ amount \in Nat /\ amount <= MaxUint64 /\ bp \in Nat /\ bp <= D
  BY FeeAssumption, WidthAssumption DEF Uint64
<1>2. amount = D * q + r /\ r \in Nat /\ q \in Nat
  <2> HIDE DEF D
  <2>1. amount = D * q + r /\ r \in 0 .. (D - 1) /\ q \in Nat
    BY <1>1, Division
  <2> QED
    BY <1>1, <2>1
<1> HIDE DEF D, q, r
<1>3. q * bp \in Nat /\ r * bp \in Nat
  BY <1>1, <1>2
<1>4. part \in Nat
  BY <1>1, <1>3, Division
<1>5. amount * bp = D * (q * bp) + r * bp
  BY <1>1, <1>2
<1>6. fee = (amount * bp) \div D
  <2> DEFINE x == q * bp
             y == r * bp
  <2>1. x \in Nat /\ y \in Nat /\ amount * bp = D * x + y
    BY <1>3, <1>5
  <2> HIDE DEF x, y
  <2>2. (D * x + y) \div D = x + (y \div D)
    BY <1>1, <2>1, DivisionOfSum
  <2> QED
    BY <2>1, <2>2 DEF x, y
<1>7. fee <= amount
  <2>1. part <= r
    <3>1. r * bp <= D * r
      BY <1>1, <1>2
    <3>2. (D * r + 0) \div D = r + (0 \div D)
      BY <1>1, <1>2, DivisionOfSum
    <3>3. (r * bp) \div D <= (D * r) \div D
      BY <1>1, <1>2, <1>3, <3>1
    <3> QED
      BY <1>1, <1>2, <3>2, <3>3
  <2>2. q * bp <= D * q
    BY <1>1, <1>2
  <2> HIDE DEF part
  <2> QED
    BY <1>1, <1>2, <1>3, <1>4, <2>1, <2>2
<1>8. fee \in Nat
  BY <1>3, <1>4
<1> HIDE DEF fee
<1>9. fee % (MaxUint64 + 1) = fee
  BY <1>1, <1>7, <1>8, WidthAssumption
<1>10. basisPointsFee(amount, bp) = fee
  BY <1>9 DEF basisPointsFee, fee, part, D, q, r
<1> QED
  BY <1>6, <1>7, <1>8, <1>10 DEF D

(***************************************************************************)
(* The fee of every amount is exact, split without loss.                   *)
(***************************************************************************)
LEMMA FeeSplit == \A amount \in Uint64 : FeeIsExact(amount)
<1> SUFFICES ASSUME NEW amount \in Uint64
             PROVE  FeeIsExact(amount)
  OBVIOUS
<1> DEFINE T == TotalFeeBasisPoints
           V == DevelopmentFeeBasisPoints
           D == FeeBasisPointsDivisor
<1>1. /\ T \in 0 .. D /\ V \in 0 .. D /\ T \in Nat /\ V \in Nat /\ V <= T
      /\ D \in Nat \ {0} /\ amount \in Nat /\ amount <= MaxUint64
  BY FeeAssumption, WidthAssumption DEF Uint64
<1>2. /\ CalculateFee(amount) = (amount * T) \div D
      /\ CalculateFee(amount) \in Nat
      /\ CalculateFee(amount) <= amount
      /\ DevelopmentFee(amount) = (amount * V) \div D
      /\ DevelopmentFee(amount) \in Nat
  BY <1>1, BasisPointsExact DEF CalculateFee, DevelopmentFee
<1>3. DevelopmentFee(amount) <= CalculateFee(amount)
  <2>1. amount * V \in Nat /\ amount * T \in Nat /\ amount * V <= amount * T
    BY <1>1
  <2> DEFINE x == amount * V
             y == amount * T
  <2>2. x \in Nat /\ y \in Nat /\ x <= y
    BY <2>1
  <2> HIDE DEF x, y
  <2>3. x \div D <= y \div D
    BY <1>1, <2>2
  <2> QED
    BY <1>2, <2>3 DEF x, y
<1>4. MiningFee(amount) = CalculateFee(amount) - DevelopmentFee(amount)
  BY <1>1, <1>2, <1>3, WidthAssumption DEF MiningFee
<1> QED
  BY <1>2, <1>3, <1>4 DEF FeeIsExact

(***************************************************************************)
(* A transaction that passes the checks of applyTransactionMutating is     *)
(* applied without an overflow, yields a well-typed state, and moves       *)
(* exactly the miner's fee out of the balances.                            *)
(***************************************************************************)
LEMMA ApplyConserves ==
  ASSUME NEW st \in State, NEW tx \in Transaction, NEW network,
         PassesChecks(st, tx, network), Total(st.balances) <= MaxUint64
  PROVE  /\ CreditsFit(st, tx.id)
         /\ ApplyTransaction(st, tx) \in State
         /\ Total(ApplyTransaction(st, tx).balances)
              = Total(st.balances) - MiningFee(tx.id.amount)
<1> DEFINE id == tx.id
           cost == id.amount + id.fee
           dev == DevelopmentFee(id.amount)
           b0 == st.balances
           b1 == Debited(st, id)
           b2 == Delivered(st, id)
           b3 == Credit(b2, DevelopmentTreasuryAddress, dev)
<1>1. /\ id \in TxID
      /\ id.from \in Address /\ id.to \in Address
      /\ id.amount \in Nat /\ id.fee \in Nat /\ id.amount \in Uint64
      /\ b0 \in Balances
      /\ DevelopmentTreasuryAddress \in Address
      /\ Total(b0) <= MaxUint64
  <2>1. id \in TxID
    BY DEF Transaction
  <2>2. id.from \in Address /\ id.to \in Address /\ id.amount \in Uint64 /\ id.fee \in Uint64
    BY <2>1 DEF TxID
  <2>3. b0 \in Balances
    BY DEF State, Balances
  <2>4. id.amount \in Nat /\ id.fee \in Nat
    BY <2>2, WidthAssumption DEF Uint64
  <2> QED
    BY <2>1, <2>2, <2>3, <2>4, AddressAssumption
<1>2. /\ dev \in Nat /\ dev <= id.fee
      /\ MiningFee(id.amount) = id.fee - dev
      /\ cost \in Nat /\ cost <= b0[id.from]
  BY <1>1, FeeTypes DEF PassesChecks, Uint64
<1>3. b1 \in Balances /\ Total(b1) = Total(b0) - cost
  <2> HIDE DEF id, cost, b0
  <2>1. Debit(b0, id.from, cost) \in Balances /\ Total(Debit(b0, id.from, cost)) = Total(b0) - cost
    BY <1>1, <1>2, TotalAfterDebit
  <2> QED
    BY <2>1 DEF Debited, b0, cost, id
<1> HIDE DEF b0, b1
<1>4. b1[id.to] + id.amount <= MaxUint64
  BY <1>1, <1>2, <1>3, UnitsFinite, BalanceWithinTotal, WidthAssumption
  DEF Balances, Uint64
<1>5. b2 \in Balances /\ Total(b2) = Total(b0) - id.fee
  <2> HIDE DEF id
  <2>1. Credit(b1, id.to, id.amount) \in Balances
    BY <1>1, <1>3, <1>4, TotalAfterCredit
  <2>2. Total(Credit(b1, id.to, id.amount)) = Total(b1) + id.amount
    BY <1>1, <1>3, <1>4, TotalAfterCredit
  <2> QED
    BY <1>1, <1>3, <2>1, <2>2, UnitsFinite DEF Delivered, b1
<1> HIDE DEF b2
<1>6. b2[DevelopmentTreasuryAddress] + dev <= MaxUint64
  BY <1>1, <1>2, <1>5, UnitsFinite, BalanceWithinTotal, WidthAssumption
  DEF Balances, Uint64
<1>7. b3 \in Balances /\ Total(b3) = Total(b2) + dev
  <2> HIDE DEF dev
  <2> QED BY <1>1, <1>2, <1>5, <1>6, TotalAfterCredit
<1>8. CreditsFit(st, id)
  BY <1>1, <1>2, <1>3, <1>4, <1>5, <1>6, WidthAssumption
  DEF CreditsFit, CreditOverflows, Balances, Uint64, b1, b2
<1>9. Total(b3) = Total(b0) - MiningFee(id.amount)
  BY <1>1, <1>2, <1>5, <1>7, UnitsFinite
<1>10. ApplyTransaction(st, tx).balances = b3
  BY DEF ApplyTransaction, State, b2
<1>11. ApplyTransaction(st, tx) \in State
  BY <1>1, <1>7 DEF ApplyTransaction, State, Balances, TxID, b2
<1> QED
  BY <1>8, <1>9, <1>10, <1>11 DEF b0

(***************************************************************************)
(* Applying a transaction uses the sender's next nonce, so the nonces of   *)
(* the processed transactions stay gapless and unique (ExpectedNonce,      *)
(* SetAccountNonce, MarkTransactionProcessed).                             *)
(***************************************************************************)
LEMMA ApplyGapless ==
  ASSUME NEW st \in State, NEW tx \in Transaction, NEW network,
         PassesChecks(st, tx, network), Gapless(st)
  PROVE  Gapless(ApplyTransaction(st, tx))
<1> DEFINE id == tx.id
           N == st.accountNonces
           N1 == [N EXCEPT ![id.from] = id.nonce]
           P == st.processedTx
           P1 == P \cup {id}
           new == ApplyTransaction(st, tx)
<1>1. id \in TxID /\ P \in SUBSET TxID /\ N \in [Address -> Uint64]
  BY DEF Transaction, State
<1>2. id.from \in Address /\ N[id.from] \in Nat /\ id.nonce = N[id.from] + 1
  <2>1. id.from \in Address /\ id.nonce = N[id.from] + 1
    BY <1>1 DEF TxID, PassesChecks, HasExpectedNonce
  <2> QED
    BY <1>1, <2>1, WidthAssumption DEF Uint64
<1>3. \A a \in Address : N[a] \in Nat /\ N1[a] = IF a = id.from THEN N[a] + 1 ELSE N[a]
  BY <1>1, <1>2, WidthAssumption DEF Uint64
<1>4. \A i \in P : i.from \in Address
  BY <1>1 DEF TxID
<1>5. new.accountNonces = N1 /\ new.processedTx = P1
  BY DEF ApplyTransaction, State
<1>6. /\ \A i \in P : i.nonce \in 1 .. N[i.from]
      /\ \A a \in Address : \A n \in 1 .. N[a] :
           \E i \in P : i.from = a /\ i.nonce = n
      /\ \A i, j \in P : i.from = j.from /\ i.nonce = j.nonce => i = j
  BY DEF Gapless
<1> HIDE DEF id, N, N1, P, new
<1>7. \A i \in P1 : i.nonce \in 1 .. N1[i.from]
  BY <1>2, <1>3, <1>4, <1>6
<1>8. ASSUME NEW a \in Address, NEW n \in 1 .. N1[a]
      PROVE  \E i \in P1 : i.from = a /\ i.nonce = n
  <2>1. CASE a = id.from /\ n = N[a] + 1
    BY <1>2, <2>1
  <2>2. CASE ~(a = id.from /\ n = N[a] + 1)
    <3>1. n \in 1 .. N[a]
      BY <1>3, <2>2
    <3> QED
      BY <1>6, <3>1
  <2> QED
    BY <2>1, <2>2
<1>9. ASSUME NEW i \in P1, NEW j \in P1, i.from = j.from, i.nonce = j.nonce
      PROVE  i = j
  <2>1. CASE i \in P /\ j \in P
    BY <1>6, <1>9, <2>1
  <2>2. \A k \in P : ~(k.from = id.from /\ k.nonce = id.nonce)
    BY <1>2, <1>4, <1>6
  <2> QED
    BY <1>9, <2>1, <2>2
<1> HIDE DEF P1
<1> QED
  BY <1>5, <1>7, <1>8, <1>9 DEF Gapless, new

(***************************************************************************)
(* A credit lowers no balance.                                             *)
(***************************************************************************)
LEMMA CreditRaises ==
  ASSUME NEW b \in [Address -> Int], NEW a \in Address, NEW v \in Nat
  PROVE  /\ Credit(b, a, v) \in [Address -> Int]
         /\ \A x \in Address : Credit(b, a, v)[x] >= b[x]
BY DEF Credit

(***************************************************************************)
(* Applying a transaction lowers no balance but the sender's, and moves    *)
(* nonces and replay markers forward only.                                 *)
(***************************************************************************)
LEMMA ApplySucceeds ==
  ASSUME NEW st \in State, NEW tx \in Transaction, NEW network,
         PassesChecks(st, tx, network)
  PROVE  Succeeds(st, ApplyTransaction(st, tx))
<1> DEFINE id == tx.id
           b0 == st.balances
           new == ApplyTransaction(st, tx)
           dev == DevelopmentFee(id.amount)
<1>1. id \in TxID /\ b0 \in Balances /\ st.accountNonces \in [Address -> Uint64]
  BY DEF Transaction, State, Balances
<1>2. id.from \in Address /\ id.to \in Address /\ id.amount \in Uint64 /\ id.fee \in Uint64
  BY <1>1 DEF TxID
<1>3. dev \in Nat /\ id.amount \in Nat /\ id.fee \in Nat
  BY <1>2, FeeTypes, WidthAssumption DEF Uint64
<1>4. \A a \in Address : b0[a] \in Nat
  BY <1>1, WidthAssumption DEF Balances, Uint64
<1>5. new.balances = Credit(Delivered(st, id), DevelopmentTreasuryAddress, dev)
  BY DEF ApplyTransaction, State
<1>6. /\ new.balances \in [Address -> Int]
      /\ \A a \in Address : a # id.from => new.balances[a] >= b0[a]
  <2> DEFINE b1 == Debited(st, id)
             b2 == Delivered(st, id)
  <2>1. /\ b1 \in [Address -> Int]
        /\ \A a \in Address : a # id.from => b1[a] = b0[a]
    BY <1>1, <1>2, <1>3, <1>4 DEF Debited, Debit, Balances
  <2>2. b2 = Credit(b1, id.to, id.amount)
    BY DEF Delivered
  <2>0. /\ new.balances = Credit(b2, DevelopmentTreasuryAddress, dev)
        /\ DevelopmentTreasuryAddress \in Address
    BY <1>5, AddressAssumption
  <2> HIDE DEF id, b0, b1, b2, new, dev
  <2>3. /\ b2 \in [Address -> Int]
        /\ \A a \in Address : b2[a] >= b1[a]
    BY <1>2, <1>3, <2>1, <2>2, CreditRaises
  <2>4. /\ new.balances \in [Address -> Int]
        /\ \A a \in Address : new.balances[a] >= b2[a]
    BY <1>3, <2>0, <2>3, CreditRaises
  <2> QED
    BY <1>4, <2>1, <2>3, <2>4
<1>7. /\ new.processedTx = st.processedTx \cup {id}
      /\ id \notin st.processedTx
      /\ new.issuedSupply = st.issuedSupply
      /\ new.accountNonces = [st.accountNonces EXCEPT ![id.from] = id.nonce]
      /\ id.nonce = st.accountNonces[id.from] + 1
  BY DEF ApplyTransaction, PassesChecks, HasExpectedNonce, State
<1>8. \A a \in Address : st.accountNonces[a] <= new.accountNonces[a]
  BY <1>1, <1>2, <1>7, WidthAssumption DEF Uint64
<1>9. st.issuedSupply <= new.issuedSupply
  BY <1>7, WidthAssumption DEF State, Uint64
<1>10. \A a \in Address : new.balances[a] < b0[a] =>
        \E i \in new.processedTx \ st.processedTx : i.from = a
  <2> SUFFICES ASSUME NEW a \in Address, new.balances[a] < b0[a]
               PROVE  a = id.from
    BY <1>7
  <2> QED
    BY <1>4, <1>6
<1> QED
  BY <1>7, <1>8, <1>9, <1>10 DEF Succeeds

-----------------------------------------------------------------------------
(***************************************************************************)
(* The block reward.  When the balances and the collected fees make up an  *)
(* issued supply within the cap, CreditMinerRewardFor never fails, however *)
(* large the scheduled subsidy, and the new balances make up the new       *)
(* issued supply, still within the cap.                                    *)
(***************************************************************************)
LEMMA RewardConserves ==
  ASSUME NEW st \in State, NEW height \in Height, NEW miner \in Address,
         NEW fees \in Nat,
         Total(st.balances) + fees = st.issuedSupply,
         st.issuedSupply <= MaxSupplyFor(st.monetaryPolicy)
  PROVE  LET new == CreditMinerReward(st, st.monetaryPolicy, height, miner, fees)
         IN  /\ CanCreditMinerReward(st, st.monetaryPolicy, height, miner, fees)
             /\ new \in State
             /\ Total(new.balances) = new.issuedSupply
             /\ new.issuedSupply <= MaxSupplyFor(new.monetaryPolicy)
             /\ Gapless(st) => Gapless(new)
             /\ Succeeds(st, new)
<1> DEFINE policy == st.monetaryPolicy
           cap == MaxSupplyFor(policy)
           b0 == st.balances
           subsidy == Subsidy(st, policy, height)
           reward == subsidy + fees
           b1 == Credit(b0, miner, reward)
           new == CreditMinerReward(st, policy, height, miner, fees)
<1>1. /\ policy \in Policy
      /\ b0 \in Balances
      /\ st.issuedSupply \in Nat
  BY WidthAssumption DEF State, Balances, Uint64
<1>2. cap \in Nat /\ cap <= MaxUint64 /\ BlockSubsidyFor(policy, height) \in Nat
  BY <1>1, SupplyAssumption, WidthAssumption DEF Uint64
<1>3. subsidy \in Nat /\ st.issuedSupply + subsidy <= cap
  <2> HIDE DEF policy
  <2>1. st.issuedSupply <= cap
    BY DEF policy
  <2> QED
    BY <1>1, <1>2, <2>1 DEF Subsidy, stateRemainingSupplyFor
<1> HIDE DEF subsidy, policy, b0
<1>4. /\ reward \in Nat
      /\ Total(b0) \in Nat
      /\ Total(b0) + fees = st.issuedSupply
      /\ b0[miner] \in Nat
      /\ b0[miner] + reward <= MaxUint64
  <2>1. Total(b0) + fees = st.issuedSupply /\ Total(b0) \in Nat
    BY UnitsFinite DEF b0
  <2>2. b0[miner] \in Nat /\ b0[miner] <= Total(b0)
    BY <1>1, BalanceWithinTotal, WidthAssumption DEF Balances, Uint64
  <2> QED
    BY <1>1, <1>2, <1>3, <2>1, <2>2, WidthAssumption
<1>5. CanCreditMinerReward(st, policy, height, miner, fees)
  <2>1. CanMint(st, policy, subsidy)
    BY <1>1, <1>2, <1>3 DEF CanMint, EnsureMonetaryPolicy, policy
  <2>2. ~CreditOverflows(b0, miner, reward)
    BY <1>4, WidthAssumption DEF CreditOverflows
  <2>3. subsidy <= MaxUint64 - fees
    BY <1>3, <1>4, WidthAssumption
  <2> QED
    BY <2>1, <2>2, <2>3 DEF CanCreditMinerReward, subsidy, b0
<1>6. b1 \in Balances /\ Total(b1) = Total(b0) + reward
  <2> HIDE DEF reward
  <2> QED BY <1>1, <1>4, TotalAfterCredit
<1>7. /\ new.balances = b1
      /\ new.issuedSupply = st.issuedSupply + subsidy
      /\ new.monetaryPolicy = policy
      /\ new.processedTx = st.processedTx
      /\ new.accountNonces = st.accountNonces
  BY DEF CreditMinerReward, State, subsidy, b0, policy
<1>8. new \in State
  <2>1. st.issuedSupply + subsidy \in Uint64
    BY <1>1, <1>2, <1>3, WidthAssumption DEF Uint64
  <2>2. new = [st EXCEPT !.issuedSupply = st.issuedSupply + subsidy,
                         !.balances = b1]
    BY DEF CreditMinerReward, subsidy, b0
  <2> HIDE DEF new, b1
  <2> QED
    BY <1>6, <2>1, <2>2 DEF State, Balances
<1> HIDE DEF new, b1
<1>9. Total(new.balances) = new.issuedSupply /\ new.issuedSupply <= cap
  BY <1>1, <1>2, <1>3, <1>4, <1>6, <1>7
<1>10. Gapless(st) => Gapless(new)
  BY <1>7 DEF Gapless
<1>11. Succeeds(st, new)
  <2>1. \A a \in Address : new.balances[a] >= st.balances[a] /\ new.balances[a] \in Nat /\ st.balances[a] \in Nat
    BY <1>1, <1>4, <1>6, <1>7, WidthAssumption DEF b1, b0, Credit, Balances, Uint64
  <2>2. \A a \in Address : st.accountNonces[a] <= new.accountNonces[a]
    BY <1>7, WidthAssumption DEF State, Uint64
  <2>3. st.issuedSupply <= new.issuedSupply
    BY <1>1, <1>3, <1>7
  <2>4. \A a \in Address : ~(new.balances[a] < st.balances[a])
    BY <2>1
  <2> QED
    BY <1>7, <2>2, <2>3, <2>4 DEF Succeeds
<1> QED
  BY <1>5, <1>7, <1>8, <1>9, <1>10, <1>11 DEF new, policy

(***************************************************************************)
(* Succeeds is reflexive and transitive on states, so it holds across any  *)
(* number of transactions and rewards.                                     *)
(***************************************************************************)
LEMMA SucceedsReflexive ==
  ASSUME NEW st \in State
  PROVE  Succeeds(st, st)
<1>1. /\ st.issuedSupply \in Nat
      /\ \A a \in Address : st.balances[a] \in Nat /\ st.accountNonces[a] \in Nat
  BY WidthAssumption DEF State, Uint64
<1> QED
  BY <1>1 DEF Succeeds

LEMMA SucceedsTransitive ==
  ASSUME NEW s1 \in State, NEW s2 \in State, NEW s3 \in State,
         Succeeds(s1, s2), Succeeds(s2, s3)
  PROVE  Succeeds(s1, s3)
<1>1. /\ \A a \in Address : s1.balances[a] \in Nat /\ s1.accountNonces[a] \in Nat
      /\ \A a \in Address : s2.balances[a] \in Nat /\ s2.accountNonces[a] \in Nat
      /\ \A a \in Address : s3.balances[a] \in Nat /\ s3.accountNonces[a] \in Nat
      /\ s1.issuedSupply \in Nat /\ s2.issuedSupply \in Nat /\ s3.issuedSupply \in Nat
  BY WidthAssumption DEF State, Uint64
<1>2. /\ s1.issuedSupply <= s3.issuedSupply
      /\ s1.processedTx \subseteq s3.processedTx
      /\ \A a \in Address : s1.accountNonces[a] <= s3.accountNonces[a]
  BY <1>1 DEF Succeeds
<1>3. ASSUME NEW a \in Address, s3.balances[a] < s1.balances[a]
      PROVE  \E id \in s3.processedTx \ s1.processedTx : id.from = a
  <2>1. CASE s3.balances[a] < s2.balances[a]
    BY <2>1 DEF Succeeds
  <2>2. CASE s2.balances[a] < s1.balances[a]
    BY <2>2 DEF Succeeds
  <2> QED
    BY <1>1, <1>3, <2>1, <2>2
<1> QED
  BY <1>2, <1>3 DEF Succeeds
=============================================================================
