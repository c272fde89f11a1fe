------------------------------- MODULE Replay -------------------------------
(***************************************************************************)
(* A block, and a whole chain, applied to a state at once: ProcessBlockFor *)
(* (blockchain/block_processor.go) as a fold over the block's transactions *)
(* and BuildStateFromChain (blockchain/reorg.go) as a fold over the        *)
(* blocks.  An outcome carries the state and whether an error occurred.    *)
(* A block carries its work and the hash of its parent.                    *)
(***************************************************************************)
EXTENDS Ledger, SequencesExt

\* A chain is the sequence of its blocks after genesis.
TipHash(c) == IF c = <<>> THEN <<>> ELSE <<Last(c)>>

LinksToTip(c, block) ==
  /\ block.height = Len(c) + 1
  /\ block.previous = TipHash(c)

TotalWork(c) == FoldLeft(LAMBDA sum, block : sum + block.work, 0, c)

BetterChain(c, candidate) ==
  \/ TotalWork(candidate) > TotalWork(c)
  \/ TotalWork(candidate) = TotalWork(c) /\ Len(candidate) > Len(c)

ReorgDepth(c, candidate) == Len(c) - Len(LongestCommonPrefix({c, candidate}))

ChainTransactions(c) == UNION {ToSet(c[h].transactions) : h \in DOMAIN c}

-----------------------------------------------------------------------------
Outcome(st) == [ok |-> TRUE, state |-> st, fees |-> 0]

\* One iteration of the loop over block.Transactions.
ApplyInLoop(network, acc, tx) ==
  LET fee == MiningFee(tx.id.amount)
  IN  IF /\ acc.ok
         /\ CanApplyTransaction(acc.state, tx, network)
         /\ acc.fees <= MaxUint64 - fee
      THEN [acc EXCEPT !.state = ApplyTransaction(@, tx), !.fees = @ + fee]
      ELSE [acc EXCEPT !.ok = FALSE]

AppliedTransactions(st, policy, transactions) ==
  FoldLeft(LAMBDA acc, tx : ApplyInLoop(policy, acc, tx),
           Outcome(st), transactions)

(***************************************************************************)
(* ProcessBlockFor.  A failed call returns the state it was given.         *)
(***************************************************************************)
ProcessBlockFor(st, policy, block) ==
  LET applied == AppliedTransactions(st, policy, block.transactions)
  IN  IF /\ block.minerAddress # ""
         /\ EnsureMonetaryPolicy(st, policy)
         /\ applied.ok
         /\ CanCreditMinerReward(applied.state, policy, block.height,
                                 block.minerAddress, applied.fees)
      THEN Outcome(CreditMinerReward(applied.state, policy, block.height,
                                     block.minerAddress, applied.fees))
      ELSE [Outcome(st) EXCEPT !.ok = FALSE]

(***************************************************************************)
(* BuildStateFromChain over the non-genesis blocks of a chain.             *)
(***************************************************************************)
BuildStateFromChain(policy, blocks) ==
  FoldLeft(LAMBDA acc, block :
             IF acc.ok THEN ProcessBlockFor(acc.state, policy, block) ELSE acc,
           Outcome(NewStateFor(policy)), blocks)
=============================================================================
