------------------------------- MODULE Ledger -------------------------------
(***************************************************************************)
(* The account state of a node and the operations on it, as operators on   *)
(* values: blockchain/state.go, blockchain/transaction_processor.go,       *)
(* blockchain/rewards.go and the fee rules of transactions/transaction.go. *)
(* The modules that add time (BlockProcessor, AtomicLedger, Node, ...) are *)
(* built from these operators.                                             *)
(*                                                                         *)
(* A state operation of the code works on a private clone and is installed *)
(* by ReplaceWith only when every step of it succeeded, so an operation is *)
(* a guard ("Can...") and the state it produces.                           *)
(***************************************************************************)
EXTENDS Integers, Sequences, FiniteSets

CONSTANTS
  Address,                     \* the well-formed addresses
  DevelopmentTreasuryAddress,  \* params.DevelopmentTreasuryAddress
  MaxUint64,                   \* the largest machine integer, ^uint64(0)
  Height,                      \* the block heights that occur
  FeeBasisPointsDivisor,       \* 10000 in the code
  TotalFeeBasisPoints,         \* 10 in the code
  DevelopmentFeeBasisPoints,   \* 1 in the code
  MinTransferAmount,           \* params.MinTransferAmount, the dust limit
  MaxSupplyFor(_),             \* params.MaxSupplyFor, a cap per policy
  BlockSubsidyFor(_, _)        \* consensus.BlockSubsidyFor, policy and height

(***************************************************************************)
(* Each monetary policy belongs to one network (params/network_policy.go), *)
(* so one value names both.                                                *)
(***************************************************************************)
Policy == {"testnet", "mainnet"}

Uint64 == 0 .. MaxUint64

ASSUME AddressAssumption ==
  /\ IsFiniteSet(Address)
  /\ DevelopmentTreasuryAddress \in Address
  /\ "" \notin Address

ASSUME WidthAssumption ==
  /\ MaxUint64 \in Nat
  /\ MinTransferAmount \in Nat \ {0}
  /\ Height \subseteq Nat

ASSUME FeeAssumption ==
  /\ FeeBasisPointsDivisor \in Nat \ {0}
  /\ TotalFeeBasisPoints \in 0 .. FeeBasisPointsDivisor
  /\ DevelopmentFeeBasisPoints \in 0 .. TotalFeeBasisPoints

ASSUME SupplyAssumption ==
  \A p \in Policy :
    /\ MaxSupplyFor(p) \in Uint64
    /\ \A h \in Height : BlockSubsidyFor(p, h) \in Uint64

-----------------------------------------------------------------------------
(***************************************************************************)
(* Transactions.  A transaction ID is the hash of the five body fields     *)
(* (calculateID); the hash is taken to be collision free, so the ID is the *)
(* body itself.  The signature is not part of the ID: one body can carry   *)
(* different valid signatures.  signature says what it verifies as: bound  *)
(* to one network, in the legacy domain, or not at all.  wellFormed stands *)
(* for the length and address-format rules of ValidateResourceBounds.      *)
(***************************************************************************)
SignatureDomain == Policy \cup {"legacy", "invalid"}

TxID == [from : Address, to : Address, amount : Uint64, fee : Uint64,
         nonce : Uint64]

Transaction == [id : TxID, signature : SignatureDomain, wellFormed : BOOLEAN]

\* The full amount multiplied first: the product wraps for large amounts.
basisPointsFee_multiplyFirst(amount, basisPoints) ==
  ((amount * basisPoints) % (MaxUint64 + 1)) \div FeeBasisPointsDivisor

\* Machine arithmetic: the result is cut to the width.
basisPointsFee(amount, basisPoints) ==
  (((amount \div FeeBasisPointsDivisor) * basisPoints)
     + ((amount % FeeBasisPointsDivisor) * basisPoints)
          \div FeeBasisPointsDivisor) % (MaxUint64 + 1)

CalculateFee(amount) == basisPointsFee(amount, TotalFeeBasisPoints)

DevelopmentFee(amount) == basisPointsFee(amount, DevelopmentFeeBasisPoints)

MiningFee(amount) ==
  (CalculateFee(amount) - DevelopmentFee(amount)) % (MaxUint64 + 1)

ValidateResourceBounds(tx) ==
  /\ tx.wellFormed
  /\ tx.id.amount >= MinTransferAmount

VerifyForNetwork(tx, network) ==
  \/ tx.signature = network
  \/ network = "testnet" /\ tx.signature = "legacy"

(***************************************************************************)
(* The fee of an amount is the exact floor of its rate, at every amount a  *)
(* machine integer holds; the development share never exceeds it, so the   *)
(* miner's remainder is what is left and no atom of a fee is lost.         *)
(***************************************************************************)
FeeIsExact(amount) ==
  /\ CalculateFee(amount)
       = (amount * TotalFeeBasisPoints) \div FeeBasisPointsDivisor
  /\ DevelopmentFee(amount)
       = (amount * DevelopmentFeeBasisPoints) \div FeeBasisPointsDivisor
  /\ DevelopmentFee(amount) <= CalculateFee(amount)
  /\ CalculateFee(amount) <= amount
  /\ MiningFee(amount) = CalculateFee(amount) - DevelopmentFee(amount)

-----------------------------------------------------------------------------
(***************************************************************************)
(* The account state (type State).  The Go maps are total functions: an    *)
(* absent key reads as zero.  developmentAddress is not a field here: it   *)
(* is set to the treasury address on creation and on load, and             *)
(* SetDevelopmentAddress accepts no other value.                           *)
(***************************************************************************)
State == [balances       : [Address -> Uint64],
          accountNonces  : [Address -> Uint64],
          processedTx    : SUBSET TxID,
          issuedSupply   : Uint64,
          monetaryPolicy : Policy]

NewStateFor(policy) ==
  [balances       |-> [a \in Address |-> 0],
   accountNonces  |-> [a \in Address |-> 0],
   processedTx    |-> {},
   issuedSupply   |-> 0,
   monetaryPolicy |-> policy]

EnsureMonetaryPolicy(st, policy) == st.monetaryPolicy = policy

Credit(balances, a, amount) == [balances EXCEPT ![a] = @ + amount]

CreditOverflows(balances, a, amount) == balances[a] > MaxUint64 - amount

Debit(balances, a, amount) == [balances EXCEPT ![a] = @ - amount]

HasExpectedNonce(st, id) ==
  /\ st.accountNonces[id.from] # MaxUint64
  /\ id.nonce = st.accountNonces[id.from] + 1

(***************************************************************************)
(* applyTransactionMutating up to the first mutation: everything that can  *)
(* reject a transaction before a balance is touched.                       *)
(***************************************************************************)
PassesChecks(st, tx, network) ==
  LET id == tx.id
  IN  /\ id \notin st.processedTx
      /\ ValidateResourceBounds(tx)
      /\ VerifyForNetwork(tx, network)
      /\ HasExpectedNonce(st, id)
      /\ id.fee = CalculateFee(id.amount)
      /\ DevelopmentFee(id.amount) <= id.fee
      /\ MiningFee(id.amount) = id.fee - DevelopmentFee(id.amount)
      /\ id.amount <= MaxUint64 - id.fee
      /\ st.balances[id.from] >= id.amount + id.fee

\* The receiver is charged.
Debited_receiverPays(st, id) == Debit(st.balances, id.to, id.amount + id.fee)

\* The balances after the sender's debit, and after the receiver's credit.
Debited(st, id) == Debit(st.balances, id.from, id.amount + id.fee)

Delivered(st, id) == Credit(Debited(st, id), id.to, id.amount)

(***************************************************************************)
(* The two credits that follow the debit can fail with "balance overflow". *)
(***************************************************************************)
CreditsFit(st, id) ==
  /\ ~CreditOverflows(Debited(st, id), id.to, id.amount)
  /\ ~CreditOverflows(Delivered(st, id), DevelopmentTreasuryAddress,
                      DevelopmentFee(id.amount))

CanApplyTransaction(st, tx, network) ==
  /\ PassesChecks(st, tx, network)
  /\ CreditsFit(st, tx.id)

\* The nonce is read but never written: a lost SetAccountNonce.
ApplyTransaction_nonceNotSet(st, tx) ==
  LET id == tx.id
  IN  [st EXCEPT !.balances = Credit(Delivered(st, id),
                                     DevelopmentTreasuryAddress,
                                     DevelopmentFee(id.amount)),
                 !.processedTx = @ \cup {id}]

\* A self-transfer or treasury credit computed from the balance read earlier.
ApplyTransaction_staleBalance(st, tx) ==
  LET id == tx.id
  IN  [st EXCEPT !.balances =
                   [Debited(st, id) EXCEPT ![id.to] = st.balances[id.to] + id.amount],
                 !.accountNonces[id.from] = id.nonce,
                 !.processedTx = @ \cup {id}]

(***************************************************************************)
(* ApplyTransactionFor: the state after the debit, the two credits, the    *)
(* nonce and the replay marker.  The miner's share of the fee is returned  *)
(* to the caller, not credited here.                                       *)
(***************************************************************************)
ApplyTransaction(st, tx) ==
  LET id == tx.id
  IN  [st EXCEPT !.balances = Credit(Delivered(st, id),
                                     DevelopmentTreasuryAddress,
                                     DevelopmentFee(id.amount)),
                 !.accountNonces[id.from] = id.nonce,
                 !.processedTx = @ \cup {id}]

-----------------------------------------------------------------------------
(***************************************************************************)
(* The block reward (CreditMinerRewardFor).                                *)
(***************************************************************************)
stateRemainingSupplyFor(st, policy) ==
  IF st.issuedSupply >= MaxSupplyFor(policy)
  THEN 0
  ELSE MaxSupplyFor(policy) - st.issuedSupply

Subsidy_notClipped(st, policy, height) == BlockSubsidyFor(policy, height)

\* The scheduled subsidy, cut to what is left under the cap.
Subsidy(st, policy, height) ==
  LET scheduled == BlockSubsidyFor(policy, height)
      remaining == stateRemainingSupplyFor(st, policy)
  IN  IF scheduled > remaining THEN remaining ELSE scheduled

\* MintSupplyFor accepts the amount.
CanMint(st, policy, amount) ==
  /\ EnsureMonetaryPolicy(st, policy)
  /\ amount > 0 =>
       /\ st.issuedSupply <= MaxSupplyFor(policy)
       /\ amount <= MaxSupplyFor(policy) - st.issuedSupply

CanCreditMinerReward(st, policy, height, miner, fees) ==
  LET subsidy == Subsidy(st, policy, height)
  IN  /\ CanMint(st, policy, subsidy)
      /\ subsidy <= MaxUint64 - fees
      /\ ~CreditOverflows(st.balances, miner, subsidy + fees)

CreditMinerReward(st, policy, height, miner, fees) ==
  LET subsidy == Subsidy(st, policy, height)
  IN  [st EXCEPT !.issuedSupply = @ + subsidy,
                 !.balances = Credit(@, miner, subsidy + fees)]

-----------------------------------------------------------------------------
(***************************************************************************)
(* Blocks, as far as the ledger reads them.                                *)
(***************************************************************************)
LedgerBlock == [height       : Height,
                transactions : Seq(Transaction),
                minerAddress : Address \cup {""}]

(***************************************************************************)
(* The sum of all balances.  It is the number of units held: unit i of     *)
(* address a exists when i <= balances[a].  Counting a set needs no        *)
(* recursion, so the prover's facts about cardinality apply to it.         *)
(***************************************************************************)
Units(balances) == {u \in Address \X (1 .. MaxUint64) : u[2] <= balances[u[1]]}

Total(balances) == Cardinality(Units(balances))

(***************************************************************************)
(* The processed transactions of an account carry the nonces 1, 2, ... up  *)
(* to the account's nonce, each exactly once.                              *)
(***************************************************************************)
Gapless(st) ==
  /\ \A id \in st.processedTx : id.nonce \in 1 .. st.accountNonces[id.from]
  /\ \A a \in Address : \A n \in 1 .. st.accountNonces[a] :
       \E id \in st.processedTx : id.from = a /\ id.nonce = n
  /\ \A id1, id2 \in st.processedTx :
       id1.from = id2.from /\ id1.nonce = id2.nonce => id1 = id2

(***************************************************************************)
(* What applying transactions and rewards may do to a state: a balance is  *)
(* lower only if a transaction of that account was processed in between,   *)
(* and supply, replay markers and nonces only grow.                        *)
(***************************************************************************)
Succeeds(old, new) ==
  /\ \A a \in Address :
       new.balances[a] < old.balances[a] =>
         \E id \in new.processedTx \ old.processedTx : id.from = a
  /\ old.issuedSupply <= new.issuedSupply
  /\ old.processedTx \subseteq new.processedTx
  /\ \A a \in Address : old.accountNonces[a] <= new.accountNonces[a]
=============================================================================
