------------------------ MODULE BlockProcessorProofs ------------------------
(***************************************************************************)
(* The safety of ProcessBlockFor for every set of addresses, transactions  *)
(* and blocks.  The invariants of BlockProcessor are inductive only        *)
(* together: that no credit overflows (NoLateRejection) needs that the     *)
(* balances add up to a supply below the cap (Conservation, SupplyCap),    *)
(* and these need the exact effect of every credit.  IInv adds that the    *)
(* clone has the policy of the state it was taken from and only ever moves *)
(* forward from it, which OnlyOwnerSpends needs at the commit.             *)
(***************************************************************************)
EXTENDS BlockProcessor, LedgerProofs

CloneAhead ==
  /\ workingState.monetaryPolicy = state.monetaryPolicy
  /\ Succeeds(state, workingState)

MinerNamed == Busy => block.minerAddress # ""

IInv ==
  /\ TypeOK
  /\ Conservation
  /\ SupplyCap
  /\ NonceHistory
  /\ CloneAhead
  /\ MinerNamed

(***************************************************************************)
(* Outside ProcessBlockFor the loop index is at its start.                 *)
(***************************************************************************)
LEMMA NoBlockIndex == 1 \in 1 .. (Len(NoBlock.transactions) + 1)
<1>1. NoBlock.transactions = <<>>
  BY DEF NoBlock
<1>2. Len(<<>>) = 0
  OBVIOUS
<1> QED
  BY <1>1, <1>2

(***************************************************************************)
(* A new state (NewStateFor) satisfies the invariant.                      *)
(***************************************************************************)
LEMMA InitIInv == Init => IInv
<1> SUFFICES ASSUME Init PROVE IInv
  OBVIOUS
<1>1. PICK policy \in Policy : state = NewStateFor(policy)
  BY DEF Init
<1>2. /\ state \in State
      /\ state.balances = [a \in Address |-> 0]
      /\ state.issuedSupply = 0
      /\ state.monetaryPolicy = policy
      /\ state.processedTx = {}
      /\ state.accountNonces = [a \in Address |-> 0]
  BY <1>1, WidthAssumption DEF NewStateFor, State, Uint64
<1>3. TypeOK
  <2>1. 0 \in Uint64
    BY WidthAssumption DEF Uint64
  <2> QED
    BY <1>2, <2>1, NoBlockIndex DEF Init, TypeOK
<1>4. Conservation
  BY <1>2, TotalOfNone DEF Init, Conservation
<1>5. SupplyCap
  BY <1>2, SupplyAssumption, WidthAssumption DEF Init, SupplyCap, Uint64
<1>6. NonceHistory
  BY <1>2 DEF Init, NonceHistory, Gapless
<1>7. CloneAhead
  BY <1>2, SucceedsReflexive DEF Init, CloneAhead
<1> QED
  BY <1>3, <1>4, <1>5, <1>6, <1>7 DEF IInv, Init, MinerNamed, Busy

(***************************************************************************)
(* What the invariant says of the block in progress.                       *)
(***************************************************************************)
LEMMA BlockInProgress ==
  ASSUME IInv, Busy
  PROVE  /\ block \in CandidateBlock
         /\ block.minerAddress \in Address
         /\ block.height \in Height
         /\ ~AllApplied => NextTransaction \in Transaction
         /\ Total(workingState.balances) <= MaxUint64
<1>1. block \in CandidateBlock /\ block \in LedgerBlock
  BY BlockAssumption DEF IInv, TypeOK, Busy
<1>2. block.minerAddress \in Address /\ block.height \in Height
  BY <1>1 DEF LedgerBlock, IInv, MinerNamed
<1>3. ASSUME ~AllApplied PROVE NextTransaction \in Transaction
  <2>1. block.transactions \in Seq(Transaction)
    BY <1>1 DEF LedgerBlock
  <2>2. next \in 1 .. Len(block.transactions)
    BY <1>3, <2>1 DEF IInv, TypeOK, AllApplied
  <2> QED
    BY <2>1, <2>2 DEF NextTransaction
<1>4. Total(workingState.balances) <= MaxUint64
  <2>1. /\ Total(workingState.balances) \in Nat
        /\ totalMinerFees \in Nat
        /\ workingState.issuedSupply \in Nat
        /\ workingState.issuedSupply <= MaxUint64
    BY UnitsFinite, WidthAssumption DEF IInv, TypeOK, State, Uint64
  <2> QED
    BY <2>1, WidthAssumption DEF IInv, Conservation
<1> QED
  BY <1>1, <1>2, <1>3, <1>4

-----------------------------------------------------------------------------
(***************************************************************************)
(* Each step preserves the invariant.                                      *)
(***************************************************************************)
LEMMA ProcessBlockStep ==
  ASSUME IInv, NEW candidate \in CandidateBlock, NEW policy \in Policy,
         ProcessBlock(candidate, policy)
  PROVE  IInv'
<1>1. TypeOK'
  <2>1. candidate.transactions \in Seq(Transaction)
    BY BlockAssumption DEF LedgerBlock
  <2>2. 1 \in 1 .. (Len(candidate.transactions) + 1)
    BY <2>1
  <2>3. 0 \in Uint64
    BY WidthAssumption DEF Uint64
  <2> QED
    BY <2>2, <2>3 DEF ProcessBlock, IInv, TypeOK
<1>2. Conservation'
  <2>1. Total(state.balances) \in Nat
    BY UnitsFinite
  <2>2. state' = state /\ workingState' = state /\ totalMinerFees' = 0
    BY DEF ProcessBlock
  <2> QED
    BY <2>1, <2>2 DEF IInv, Conservation
<1>3. SupplyCap' /\ NonceHistory'
  BY DEF ProcessBlock, IInv, SupplyCap, NonceHistory
<1>4. CloneAhead'
  BY SucceedsReflexive DEF ProcessBlock, IInv, TypeOK, CloneAhead
<1>5. MinerNamed'
  BY DEF ProcessBlock, MinerNamed
<1> QED
  BY <1>1, <1>2, <1>3, <1>4, <1>5 DEF IInv

LEMMA ApplyNextStep ==
  ASSUME IInv, ApplyNext
  PROVE  IInv'
<1> DEFINE tx == NextTransaction
           fee == MiningFee(tx.id.amount)
<1>1. /\ tx \in Transaction
      /\ Total(workingState.balances) <= MaxUint64
      /\ workingState \in State
      /\ PassesChecks(workingState, tx, state.monetaryPolicy)
  BY BlockInProgress DEF ApplyNext, NextTransactionApplies,
     CanApplyTransaction, IInv, TypeOK
<1>2. /\ workingState' = ApplyTransaction(workingState, tx)
      /\ totalMinerFees' = totalMinerFees + fee
      /\ totalMinerFees <= MaxUint64 - fee
      /\ state' = state /\ block' = block /\ next' = next + 1
  BY DEF ApplyNext, NextTransactionApplies
<1>3. fee \in Nat /\ totalMinerFees \in Nat
  <2>1. tx.id.amount \in Uint64
    BY <1>1 DEF Transaction, TxID
  <2>2. fee \in Uint64 /\ totalMinerFees \in Uint64
    BY <2>1, FeeTypes DEF IInv, TypeOK
  <2> QED
    BY <2>2, WidthAssumption DEF Uint64
<1> HIDE DEF tx, fee
<1>4. /\ workingState' \in State
      /\ Total(workingState'.balances) = Total(workingState.balances) - fee
  BY <1>1, <1>2, ApplyConserves DEF fee
<1>5. TypeOK'
  <2>1. next + 1 \in 1 .. (Len(block.transactions) + 1)
    <3>1. block.transactions \in Seq(Transaction)
      BY BlockInProgress, BlockAssumption DEF ApplyNext, LedgerBlock
    <3> QED
      BY <3>1 DEF ApplyNext, AllApplied, IInv, TypeOK
  <2>2. totalMinerFees + fee \in Uint64
    BY <1>2, <1>3, WidthAssumption DEF Uint64
  <2> QED
    BY <1>2, <1>4, <2>1, <2>2 DEF IInv, TypeOK
<1>6. /\ workingState'.issuedSupply = workingState.issuedSupply
      /\ workingState'.monetaryPolicy = workingState.monetaryPolicy
  BY <1>1, <1>2 DEF ApplyTransaction, State
<1>7. Conservation'
  <2>1. Total(workingState.balances) \in Nat /\ Total(workingState'.balances) \in Nat
    BY UnitsFinite
  <2> QED
    BY <1>2, <1>3, <1>4, <1>6, <2>1 DEF IInv, Conservation
<1>8. SupplyCap'
  BY <1>2, <1>6 DEF IInv, SupplyCap
<1>9. NonceHistory'
  BY <1>1, <1>2, ApplyGapless DEF IInv, NonceHistory
<1>10. CloneAhead'
  <2>1. Succeeds(workingState, workingState')
    BY <1>1, <1>2, ApplySucceeds
  <2> QED
    BY <1>2, <1>4, <1>6, <2>1, SucceedsTransitive DEF IInv, TypeOK, CloneAhead
<1>11. MinerNamed'
  BY <1>2 DEF IInv, MinerNamed, Busy
<1> QED
  BY <1>5, <1>7, <1>8, <1>9, <1>10, <1>11 DEF IInv

LEMMA FailStep ==
  ASSUME IInv, Fail
  PROVE  IInv'
<1> USE DEF Fail, Drop
<1>1. TypeOK'
  <2>1. 0 \in Uint64
    BY WidthAssumption DEF Uint64
  <2> QED
    BY <2>1, NoBlockIndex DEF IInv, TypeOK
<1>2. Conservation'
  <2>1. Total(state.balances) \in Nat
    BY UnitsFinite
  <2> QED
    BY <2>1 DEF IInv, Conservation
<1>3. SupplyCap' /\ NonceHistory' /\ MinerNamed'
  BY DEF IInv, SupplyCap, NonceHistory, MinerNamed, Busy
<1>4. CloneAhead'
  BY SucceedsReflexive DEF IInv, TypeOK, CloneAhead
<1> QED
  BY <1>1, <1>2, <1>3, <1>4 DEF IInv

(***************************************************************************)
(* What the reward does to the clone (CreditMinerRewardFor), from the      *)
(* invariant.                                                              *)
(***************************************************************************)
Rewarded ==
  CreditMinerReward(workingState, state.monetaryPolicy, block.height,
                    block.minerAddress, totalMinerFees)

LEMMA RewardFromInvariant ==
  ASSUME IInv, Busy
  PROVE  /\ RewardApplies
         /\ Rewarded \in State
         /\ Total(Rewarded.balances) = Rewarded.issuedSupply
         /\ Rewarded.issuedSupply <= MaxSupplyFor(Rewarded.monetaryPolicy)
         /\ Gapless(Rewarded)
         /\ Succeeds(state, Rewarded)
<1>1. /\ block.height \in Height /\ block.minerAddress \in Address
      /\ workingState \in State /\ state \in State
      /\ totalMinerFees \in Nat
      /\ workingState.monetaryPolicy = state.monetaryPolicy
  BY BlockInProgress, WidthAssumption DEF IInv, TypeOK, CloneAhead, Uint64
<1>2. /\ Total(workingState.balances) + totalMinerFees = workingState.issuedSupply
      /\ workingState.issuedSupply <= MaxSupplyFor(workingState.monetaryPolicy)
      /\ Gapless(workingState)
      /\ Succeeds(state, workingState)
  BY DEF IInv, Conservation, SupplyCap, NonceHistory, CloneAhead
<1>3. /\ RewardApplies
      /\ Rewarded \in State
      /\ Total(Rewarded.balances) = Rewarded.issuedSupply
      /\ Rewarded.issuedSupply <= MaxSupplyFor(Rewarded.monetaryPolicy)
      /\ Gapless(Rewarded)
      /\ Succeeds(workingState, Rewarded)
  BY <1>1, <1>2, RewardConserves DEF RewardApplies, Rewarded
<1> QED
  BY <1>1, <1>2, <1>3, SucceedsTransitive

LEMMA CommitStep ==
  ASSUME IInv, Commit
  PROVE  IInv' /\ Succeeds(state, state')
<1>1. /\ state' = Rewarded /\ workingState' = Rewarded
      /\ block' = NoBlock /\ next' = 1 /\ totalMinerFees' = 0
  BY DEF Commit, Rewarded
<1>2. /\ Rewarded \in State
      /\ Total(Rewarded.balances) = Rewarded.issuedSupply
      /\ Rewarded.issuedSupply <= MaxSupplyFor(Rewarded.monetaryPolicy)
      /\ Gapless(Rewarded)
      /\ Succeeds(state, Rewarded)
  BY RewardFromInvariant DEF Commit
<1> HIDE DEF Rewarded
<1>3. TypeOK'
  <2>1. 0 \in Uint64
    BY WidthAssumption DEF Uint64
  <2> QED
    BY <1>1, <1>2, <2>1, NoBlockIndex DEF TypeOK
<1>4. Conservation'
  <2>1. Total(Rewarded.balances) \in Nat
    BY UnitsFinite
  <2> QED
    BY <1>1, <1>2, <2>1 DEF Conservation
<1>5. SupplyCap' /\ NonceHistory' /\ MinerNamed'
  BY <1>1, <1>2 DEF SupplyCap, NonceHistory, MinerNamed, Busy
<1>6. CloneAhead'
  BY <1>1, <1>2, SucceedsReflexive DEF CloneAhead
<1> QED
  BY <1>1, <1>2, <1>3, <1>4, <1>5, <1>6 DEF IInv

-----------------------------------------------------------------------------
(***************************************************************************)
(* Every step of ProcessBlockFor preserves the invariant and only moves    *)
(* the caller's state forward.                                             *)
(***************************************************************************)
LEMMA StepIInv ==
  ASSUME IInv, [Next]_vars
  PROVE  IInv' /\ (vars' # vars => Succeeds(state, state'))
<1>1. ASSUME NEW candidate \in CandidateBlock, NEW policy \in Policy,
             ProcessBlock(candidate, policy)
      PROVE  IInv' /\ state' = state
  BY <1>1, ProcessBlockStep DEF ProcessBlock
<1>2. ASSUME ApplyNext PROVE IInv' /\ state' = state
  BY <1>2, ApplyNextStep DEF ApplyNext
<1>3. ASSUME Fail PROVE IInv' /\ state' = state
  BY <1>3, FailStep DEF Fail, Drop
<1>4. ASSUME Commit PROVE IInv' /\ Succeeds(state, state')
  BY <1>4, CommitStep
<1>5. ASSUME vars' = vars PROVE IInv'
  BY <1>5 DEF vars, IInv, TypeOK, Conservation, SupplyCap, NonceHistory,
     CloneAhead, MinerNamed, Busy
<1>6. state \in State
  BY DEF IInv, TypeOK
<1>7. ASSUME state' = state PROVE Succeeds(state, state')
  BY <1>6, <1>7, SucceedsReflexive
<1> QED
  BY <1>1, <1>2, <1>3, <1>4, <1>5, <1>7 DEF Next

(***************************************************************************)
(* Type correctness, conservation, the supply cap and the gapless nonces   *)
(* hold in every state of every block-processing history, for every set of *)
(* addresses, blocks, integer width, fee rate and subsidy schedule.        *)
(***************************************************************************)
THEOREM BlockProcessorSafety ==
  Spec => [](TypeOK /\ SupplyIsExact /\ NonceHistory)
<1>1. Init => IInv
  BY InitIInv
<1>2. IInv /\ [Next]_vars => IInv'
  BY StepIInv
<1>3. IInv => TypeOK /\ SupplyIsExact /\ NonceHistory
  BY DEF IInv, SupplyIsExact
<1> QED
  BY <1>1, <1>2, <1>3, PTL DEF Spec

(***************************************************************************)
(* The nonce counter of an account and its replay markers agree in every   *)
(* history of blocks, applied or rejected (MarkTransactionProcessed and    *)
(* SetAccountNonce, which are called one after the other).                 *)
(***************************************************************************)
THEOREM NoncesStayGapless == Spec => []NonceHistory
BY BlockProcessorSafety, PTL

(***************************************************************************)
(* The overflow and cap errors behind the first checks of a transaction    *)
(* and in CreditMinerRewardFor cannot occur.                               *)
(***************************************************************************)
THEOREM LateChecksNeverFail == Spec => []NoLateRejection
<1>1. Init => IInv
  BY InitIInv
<1>2. IInv /\ [Next]_vars => IInv'
  BY StepIInv
<1>3. IInv => NoLateRejection
  <2> SUFFICES ASSUME IInv, Busy
               PROVE  IF AllApplied
                      THEN RewardApplies
                      ELSE PassesChecks(workingState, NextTransaction,
                                        state.monetaryPolicy)
                             => NextTransactionApplies
    BY DEF NoLateRejection
  <2>1. RewardApplies
    BY RewardFromInvariant
  <2>2. ASSUME ~AllApplied,
               PassesChecks(workingState, NextTransaction, state.monetaryPolicy)
        PROVE  NextTransactionApplies
    <3> DEFINE tx == NextTransaction
               fee == MiningFee(tx.id.amount)
    <3>1. /\ tx \in Transaction
          /\ workingState \in State
          /\ Total(workingState.balances) <= MaxUint64
      BY <2>2, BlockInProgress DEF IInv, TypeOK
    <3>2. CanApplyTransaction(workingState, tx, state.monetaryPolicy)
      BY <2>2, <3>1, ApplyConserves DEF CanApplyTransaction
    <3>3. tx.id.amount \in Uint64
      BY <3>1 DEF Transaction, TxID
    <3>4. fee \in Uint64 /\ totalMinerFees \in Uint64 /\ workingState.issuedSupply \in Uint64
      BY <3>1, <3>3, FeeTypes DEF IInv, TypeOK, State
    <3>5. Total(ApplyTransaction(workingState, tx).balances) = Total(workingState.balances) - fee
      BY <2>2, <3>1, ApplyConserves
    <3>6. /\ Total(workingState.balances) \in Nat
          /\ Total(ApplyTransaction(workingState, tx).balances) \in Nat
      BY UnitsFinite
    <3> HIDE DEF fee, tx
    <3>7. totalMinerFees <= MaxUint64 - fee
      BY <3>4, <3>5, <3>6, WidthAssumption DEF Uint64, IInv, Conservation
    <3> QED
      BY <3>2, <3>7 DEF NextTransactionApplies, fee, tx
  <2> QED
    BY <2>1, <2>2
<1> QED
  BY <1>1, <1>2, <1>3, PTL DEF Spec

(***************************************************************************)
(* The fee rules are exact at every balance that is reached.               *)
(***************************************************************************)
THEOREM FeesStayExact == Spec => []FeesAreExact
<1>1. Init => IInv
  BY InitIInv
<1>2. IInv /\ [Next]_vars => IInv'
  BY StepIInv
<1>3. IInv => FeesAreExact
  <2> SUFFICES ASSUME IInv, NEW a \in Address, NEW amount \in 0 .. state.balances[a]
               PROVE  FeeIsExact(amount)
    BY DEF FeesAreExact
  <2>1. state.balances[a] \in Uint64
    BY DEF IInv, TypeOK, State
  <2>2. amount \in Uint64
    BY <2>1, WidthAssumption DEF Uint64
  <2> QED
    BY <2>2, FeeSplit
<1> QED
  BY <1>1, <1>2, <1>3, PTL DEF Spec

(***************************************************************************)
(* Only an account's own processed transactions lower its balance, and     *)
(* supply, nonces and replay markers never move back.                      *)
(***************************************************************************)
THEOREM OwnerSpends == Spec => OnlyOwnerSpends
<1>1. Init => IInv
  BY InitIInv
<1>2. IInv /\ [Next]_vars => IInv'
  BY StepIInv
<1>3. IInv /\ [Next]_vars => [Succeeds(state, state')]_vars
  BY StepIInv
<1> QED
  BY <1>1, <1>2, <1>3, PTL DEF Spec, OnlyOwnerSpends
=============================================================================
