--------------------------- MODULE BlockProcessor ---------------------------
(***************************************************************************)
(* ProcessBlockFor (blockchain/block_processor.go), one step per           *)
(* transaction.  The block is applied to a working clone of the state; the *)
(* miner's shares of the fees leave the senders' balances when their       *)
(* transactions are applied and reach the miner's balance only at the end, *)
(* in totalMinerFees.  Any failure drops the clone.                        *)
(***************************************************************************)
EXTENDS Ledger

CONSTANT CandidateBlock  \* the blocks handed to ProcessBlockFor

ASSUME BlockAssumption == CandidateBlock \subseteq LedgerBlock

VARIABLES
  state,           \* the caller's state
  block,           \* the block in progress, or NoBlock
  workingState,    \* the clone (equal to state when no block is in progress)
  next,            \* index of the next transaction of the block
  totalMinerFees

vars == <<state, block, workingState, next, totalMinerFees>>

NoBlock == [height |-> 0, transactions |-> <<>>, minerAddress |-> ""]

Busy == block # NoBlock

\* The block's transactions are all applied.
AllApplied == next > Len(block.transactions)

TypeOK ==
  /\ state \in State
  /\ workingState \in State
  /\ block \in CandidateBlock \cup {NoBlock}
  /\ next \in 1 .. (Len(block.transactions) + 1)
  /\ totalMinerFees \in Uint64

Init ==
  /\ \E policy \in Policy : state = NewStateFor(policy)
  /\ workingState = state
  /\ block = NoBlock
  /\ next = 1
  /\ totalMinerFees = 0

(***************************************************************************)
(* The checks before the loop, and the clone.  A call that fails a check   *)
(* changes nothing and is no step.                                         *)
(***************************************************************************)
ProcessBlock(candidate, policy) ==
  /\ ~Busy
  /\ candidate.minerAddress # ""
  /\ EnsureMonetaryPolicy(state, policy)
  /\ block' = candidate
  /\ workingState' = state
  /\ next' = 1
  /\ totalMinerFees' = 0
  /\ UNCHANGED state

NextTransaction == block.transactions[next]

NextTransactionApplies ==
  /\ CanApplyTransaction(workingState, NextTransaction, state.monetaryPolicy)
  /\ totalMinerFees <= MaxUint64 - MiningFee(NextTransaction.id.amount)

ApplyNext ==
  /\ Busy
  /\ ~AllApplied
  /\ NextTransactionApplies
  /\ workingState' = ApplyTransaction(workingState, NextTransaction)
  /\ totalMinerFees' = totalMinerFees + MiningFee(NextTransaction.id.amount)
  /\ next' = next + 1
  /\ UNCHANGED <<state, block>>

RewardApplies ==
  CanCreditMinerReward(workingState, state.monetaryPolicy, block.height,
                       block.minerAddress, totalMinerFees)

\* There is no clone: what was applied before the failure stays.
Drop_keepsApplied ==
  /\ block' = NoBlock
  /\ next' = 1
  /\ totalMinerFees' = 0
  /\ state' = workingState
  /\ UNCHANGED workingState

\* The clone is dropped.
Drop ==
  /\ block' = NoBlock
  /\ next' = 1
  /\ totalMinerFees' = 0
  /\ workingState' = state
  /\ UNCHANGED state

Fail ==
  /\ Busy
  /\ IF AllApplied THEN ~RewardApplies ELSE ~NextTransactionApplies
  /\ Drop

(***************************************************************************)
(* CreditMinerRewardFor on the clone and ReplaceWith on the caller's state.*)
(***************************************************************************)
Commit ==
  /\ Busy
  /\ AllApplied
  /\ RewardApplies
  /\ state' = CreditMinerReward(workingState, state.monetaryPolicy,
                                block.height, block.minerAddress,
                                totalMinerFees)
  /\ workingState' = state'
  /\ block' = NoBlock
  /\ next' = 1
  /\ totalMinerFees' = 0

Next ==
  \/ \E candidate \in CandidateBlock, policy \in Policy :
       ProcessBlock(candidate, policy)
  \/ ApplyNext
  \/ Fail
  \/ Commit

Spec == Init /\ [][Next]_vars

-----------------------------------------------------------------------------
Conservation ==
  /\ Total(state.balances) = state.issuedSupply
  /\ Total(workingState.balances) + totalMinerFees = workingState.issuedSupply

SupplyCap ==
  /\ state.issuedSupply <= MaxSupplyFor(state.monetaryPolicy)
  /\ workingState.issuedSupply <= MaxSupplyFor(workingState.monetaryPolicy)

(***************************************************************************)
(* No coin appears or vanishes: the balances add up to the issued supply,  *)
(* and while a block is applied the miner fees taken from the senders and  *)
(* not yet credited (totalMinerFees) account for the whole difference.     *)
(* The supply never exceeds the cap of the policy the state is bound to.   *)
(* This is about the debit, the two credits and the fee split of           *)
(* applyTransactionMutating together with CreditMinerRewardFor and         *)
(* MintSupplyFor, in the state and in the clone.                           *)
(***************************************************************************)
SupplyIsExact == Conservation /\ SupplyCap

(***************************************************************************)
(* The processed transactions of an account are numbered 1, 2, ... up to   *)
(* its nonce, each number used exactly once: the nonce counter and the     *)
(* replay markers, two maps the code updates one after the other, agree.   *)
(***************************************************************************)
NonceHistory == Gapless(state) /\ Gapless(workingState)

(***************************************************************************)
(* The overflow and cap errors behind the first checks cannot occur: a     *)
(* transaction that passes the checks is never rejected by a credit or by  *)
(* the sum of the fees, and a block whose transactions are applied is      *)
(* never rejected by CreditMinerRewardFor, the block that reaches the      *)
(* supply cap and the blocks after it included.                            *)
(***************************************************************************)
NoLateRejection ==
  Busy =>
    IF AllApplied
    THEN RewardApplies
    ELSE PassesChecks(workingState, NextTransaction, state.monetaryPolicy)
           => NextTransactionApplies

(***************************************************************************)
(* The fee of everything an account could send is the exact floor of its   *)
(* rate, split without loss: no intermediate product of basisPointsFee     *)
(* wraps at a balance that is reached, the whole supply in one account     *)
(* included.                                                               *)
(***************************************************************************)
FeesAreExact ==
  \A a \in Address : \A amount \in 0 .. state.balances[a] : FeeIsExact(amount)

(***************************************************************************)
(* Only an account's own transactions take coins from it: when a committed *)
(* block lowers a balance, the block processed a transaction sent by that  *)
(* account, and supply, nonces and replay markers only grow.               *)
(***************************************************************************)
OnlyOwnerSpends == [][Succeeds(state, state')]_vars
=============================================================================
