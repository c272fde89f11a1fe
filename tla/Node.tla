-------------------------------- MODULE Node --------------------------------
(***************************************************************************)
(* One node with its goroutines: peer read loops and RPC handlers that     *)
(* accept blocks and admit transactions, the miner, and the synchronizer   *)
(* that reorganizes.  Each of chain, state and mempool has a lock of its   *)
(* own and no lock spans two of them, except the admission lock, which     *)
(* only admissions take.  An action is one critical section: a read or a   *)
(* write of one of the three; what happens on private copies belongs to    *)
(* the read before it, and the reads of the chain that one validation      *)
(* makes in a row are one read.                                            *)
(*                                                                         *)
(* Difficulty is left to Chain: a block carries its work.  previous is the *)
(* hash of the parent, the parent itself in a tuple, empty for genesis.    *)
(***************************************************************************)
EXTENDS PendingPool

CONSTANTS
  BlockWorker, MinerWorker, SyncWorker, AdmissionWorker,  \* may overlap
  NoWorker,
  ActivePolicy,            \* the network the chain is bound to
  PeerBlock,               \* blocks that peers send
  PeerChain,               \* candidate chains that peers serve
  SubmittedTransaction,    \* transactions from peers and RPC
  MinerAddress,
  MaxAutomaticReorgDepth,
  MaxHeight                \* bound: no mining above this height

Worker == BlockWorker \cup MinerWorker \cup SyncWorker \cup AdmissionWorker

ASSUME NodeAssumption ==
  /\ NoWorker \notin Worker
  /\ ActivePolicy \in Policy

VARIABLES
  exclusive,   \* no two calls overlap: an assumption about the whole run
  chain,       \* the blocks after genesis
  state,
  mempool,     \* a set of transactions
  advertised,  \* height and tip hash told to peers
  admission,   \* the owner of the admission lock
  job          \* where each worker is, with its local variables

steps == <<chain, state, mempool, advertised, admission, job>>
vars == <<exclusive, steps>>

Idle == [at |-> "idle"]

At(w, label) == job[w].at = label

Become(w, new) == job' = [job EXCEPT ![w] = new]

Quiescent == \A w \in Worker : At(w, "idle")

\* Drop the local variables and return to the caller.
Return(w) == Become(w, Idle)

-----------------------------------------------------------------------------
Status(c) == [height |-> Len(c), tip |-> TipHash(c)]

Init ==
  /\ exclusive \in BOOLEAN
  /\ chain = <<>>
  /\ state = NewStateFor(ActivePolicy)
  /\ mempool = {}
  /\ advertised = Status(chain)
  /\ admission = NoWorker
  /\ job = [w \in Worker |-> Idle]

-----------------------------------------------------------------------------
(***************************************************************************)
(* AcceptBlock.  A block that fails validation is dropped: no step.        *)
(***************************************************************************)
AcceptBlock(w, block) ==
  /\ w \in BlockWorker /\ At(w, "idle")
  /\ block.minerAddress # ""
  /\ LinksToTip(chain, block)
  /\ Become(w, [at |-> "process", block |-> block])
  /\ UNCHANGED <<chain, state, mempool, advertised, admission>>

(***************************************************************************)
(* MineNextBlock reads the tip, fills a block from the pool in the order   *)
(* of Go's map iteration and mines it.                                     *)
(***************************************************************************)
MineNextBlock(w) ==
  /\ w \in MinerWorker /\ At(w, "idle")
  /\ Len(chain) < MaxHeight
  /\ Become(w, [at |-> "build", height |-> Len(chain) + 1,
                previous |-> TipHash(chain)])
  /\ UNCHANGED <<chain, state, mempool, advertised, admission>>

NewBlockFromMempool(w) ==
  /\ At(w, "build")
  /\ \E ordered \in SetToSeqs(mempool) :
       Become(w, [at |-> "mine",
                  block |-> [height |-> job[w].height,
                             previous |-> job[w].previous,
                             work |-> 1,
                             transactions |-> Selected(ordered),
                             minerAddress |-> MinerAddress]])
  /\ UNCHANGED <<chain, state, mempool, advertised, admission>>

\* A nonce was found, and the block is validated against the chain of now.
MineFound(w) ==
  /\ At(w, "mine")
  /\ IF LinksToTip(chain, job[w].block)
     THEN Become(w, [at |-> "process", block |-> job[w].block])
     ELSE Return(w)
  /\ UNCHANGED <<chain, state, mempool, advertised, admission>>

\* All attempts are used up.
MineExhausted(w) ==
  /\ At(w, "mine")
  /\ Return(w)
  /\ UNCHANGED <<chain, state, mempool, advertised, admission>>

(***************************************************************************)
(* The common end of AcceptBlock and MineNextBlock: process the block on a *)
(* clone of the state, add the block, install the clone, remove the        *)
(* block's transactions from the pool, refresh the advertised status.      *)
(***************************************************************************)
ProcessClone(w) ==
  /\ At(w, "process")
  /\ LET outcome == ProcessBlockFor(state, ActivePolicy, job[w].block)
     IN  IF outcome.ok
         THEN Become(w, [at |-> "add", block |-> job[w].block,
                         workingState |-> outcome.state])
         ELSE Return(w)
  /\ UNCHANGED <<chain, state, mempool, advertised, admission>>

AddBlock(w) ==
  /\ At(w, "add")
  /\ IF LinksToTip(chain, job[w].block)
     THEN /\ chain' = Append(chain, job[w].block)
          /\ Become(w, [job[w] EXCEPT !.at = "commit"])
     ELSE /\ Return(w)
          /\ UNCHANGED chain
  /\ UNCHANGED <<state, mempool, advertised, admission>>

\* The caller's state is replaced by the state from before the block.
CommitState_oldState(w) ==
  /\ At(w, "commit")
  /\ state' = state
  /\ Become(w, [at |-> "remove", rest |-> job[w].block.transactions])
  /\ UNCHANGED <<chain, mempool, advertised, admission>>

CommitState(w) ==
  /\ At(w, "commit")
  /\ state' = job[w].workingState
  /\ Become(w, [at |-> "remove", rest |-> job[w].block.transactions])
  /\ UNCHANGED <<chain, mempool, advertised, admission>>

RemoveTransaction_skipped(w) ==
  /\ At(w, "remove")
  /\ job[w].rest # <<>>
  /\ Become(w, [job[w] EXCEPT !.rest = Tail(@)])
  /\ UNCHANGED <<chain, state, mempool, advertised, admission>>

RemoveTransaction(w) ==
  /\ At(w, "remove")
  /\ job[w].rest # <<>>
  /\ mempool' = WithoutID(mempool, Head(job[w].rest).id)
  /\ Become(w, [job[w] EXCEPT !.rest = Tail(@)])
  /\ UNCHANGED <<chain, state, advertised, admission>>

(***************************************************************************)
(* RefreshChainStatus: two reads of the chain under the node's own lock.   *)
(***************************************************************************)
RefreshHeight(w) ==
  /\ At(w, "remove") \/ At(w, "recover")
  /\ job[w].rest = <<>>
  /\ \A v \in Worker : ~At(v, "refreshTip")
  /\ advertised' = [advertised EXCEPT !.height = Len(chain)]
  /\ Become(w, [at |-> "refreshTip"])
  /\ UNCHANGED <<chain, state, mempool, admission>>

\* The tip stays the one of the time the chain was attached.
RefreshTip_skipped(w) ==
  /\ At(w, "refreshTip")
  /\ Return(w)
  /\ UNCHANGED <<chain, state, mempool, advertised, admission>>

RefreshTip(w) ==
  /\ At(w, "refreshTip")
  /\ advertised' = [advertised EXCEPT !.tip = TipHash(chain)]
  /\ Return(w)
  /\ UNCHANGED <<chain, state, mempool, admission>>

-----------------------------------------------------------------------------
(***************************************************************************)
(* ReorganizeWithMempoolRecovery and, within it, ReorganizeToCandidate.    *)
(* Candidates are valid chains: Chain covers their validation.             *)
(***************************************************************************)
Reorganize(w, candidate) ==
  /\ w \in SyncWorker /\ At(w, "idle")
  /\ Become(w, [at |-> "pending", candidate |-> candidate, oldChain |-> chain])
  /\ UNCHANGED <<chain, state, mempool, advertised, admission>>

PreservePending(w) ==
  /\ At(w, "pending")
  /\ Become(w, [at |-> "choose", candidate |-> job[w].candidate,
                oldChain |-> job[w].oldChain, oldPending |-> mempool])
  /\ UNCHANGED <<chain, state, mempool, advertised, admission>>

ChooseChain(w) ==
  /\ At(w, "choose")
  /\ IF BetterChain(chain, job[w].candidate)
     THEN Become(w, [job[w] EXCEPT !.at = "limits"])
     ELSE Return(w)
  /\ UNCHANGED <<chain, state, mempool, advertised, admission>>

\* Depth and finality (the same bound, see Chain), then the state by replay.
CheckLimits(w) ==
  /\ At(w, "limits")
  /\ LET outcome == BuildStateFromChain(ActivePolicy, job[w].candidate)
     IN  IF /\ ReorgDepth(chain, job[w].candidate) <= MaxAutomaticReorgDepth
            /\ outcome.ok
         THEN Become(w, [at |-> "installChain", candidate |-> job[w].candidate,
                         oldChain |-> job[w].oldChain,
                         oldPending |-> job[w].oldPending,
                         candidateState |-> outcome.state])
         ELSE Return(w)
  /\ UNCHANGED <<chain, state, mempool, advertised, admission>>

InstallChain(w) ==
  /\ At(w, "installChain")
  /\ chain' = job[w].candidate
  /\ Become(w, [job[w] EXCEPT !.at = "installState"])
  /\ UNCHANGED <<state, mempool, advertised, admission>>

InstallState(w) ==
  /\ At(w, "installState")
  /\ state' = job[w].candidateState
  /\ Become(w, [at |-> "collect", oldChain |-> job[w].oldChain,
                oldPending |-> job[w].oldPending])
  /\ UNCHANGED <<chain, mempool, advertised, admission>>

\* Pending transactions are forgotten.
RecoveryCandidates_orphansOnly(oldPending, oldChain) ==
  {tx \in ChainTransactions(oldChain) : tx.id \notin state.processedTx}

\* One entry per ID; a transaction of the old chain replaces a pending one.
RecoveryCandidates(oldPending, oldChain) ==
  LET orphaned == {tx \in ChainTransactions(oldChain) :
                     tx.id \notin state.processedTx}
  IN  orphaned \cup {tx \in oldPending : ~HasID(orphaned, tx.id)}

CollectCandidates(w) ==
  /\ At(w, "collect")
  /\ Become(w, [at |-> "clear",
                all |-> RecoveryCandidates(job[w].oldPending, job[w].oldChain)])
  /\ UNCHANGED <<chain, state, mempool, advertised, admission>>

ClearMempool(w) ==
  /\ At(w, "clear")
  /\ mempool' = {}
  /\ \E ordered \in RecoveryOrders(job[w].all) :
       Become(w, [at |-> "recover", rest |-> ordered, all |-> job[w].all])
  /\ UNCHANGED <<chain, state, advertised, admission>>

\* Skip what is confirmed.
RecoverCheck(w) ==
  /\ At(w, "recover")
  /\ job[w].rest # <<>>
  /\ Become(w, IF Head(job[w].rest).id \in state.processedTx
               THEN [job[w] EXCEPT !.rest = Tail(@)]
               ELSE [job[w] EXCEPT !.at = "recoverSender"])
  /\ UNCHANGED <<chain, state, mempool, advertised, admission>>

RecoverSender(w) ==
  /\ At(w, "recoverSender")
  /\ Become(w, [at |-> "recoverValidate", rest |-> job[w].rest,
                all |-> job[w].all,
                pending |-> TransactionsForSender(mempool,
                                                  Head(job[w].rest).id.from)])
  /\ UNCHANGED <<chain, state, mempool, advertised, admission>>

\* Skip what does not validate after the sender's recovered transactions.
RecoverValidate(w) ==
  /\ At(w, "recoverValidate")
  /\ LET valid == ValidateMempoolTransactionFor(state, job[w].pending,
                                                Head(job[w].rest), ActivePolicy)
     IN  Become(w, [at   |-> IF valid THEN "return" ELSE "recover",
                    rest |-> IF valid THEN job[w].rest ELSE Tail(job[w].rest),
                    all  |-> job[w].all])
  /\ UNCHANGED <<chain, state, mempool, advertised, admission>>

RecoverAdd(w) ==
  /\ At(w, "return")
  /\ LET tx == Head(job[w].rest)
     IN  mempool' = IF CheckAdmission(mempool, tx) THEN mempool \cup {tx}
                                                   ELSE mempool
  /\ Become(w, [job[w] EXCEPT !.at = "recover", !.rest = Tail(@)])
  /\ UNCHANGED <<chain, state, advertised, admission>>

-----------------------------------------------------------------------------
(***************************************************************************)
(* Admission of a transaction whose bounds and signature are verified      *)
(* (admitTransaction, admitVerifiedTransaction).                           *)
(***************************************************************************)
SubmitTransaction(w, tx) ==
  /\ w \in AdmissionWorker /\ At(w, "idle")
  /\ ValidateResourceBounds(tx)
  /\ VerifyForNetwork(tx, ActivePolicy)
  /\ Become(w, [at |-> "lock", tx |-> tx])
  /\ UNCHANGED <<chain, state, mempool, advertised, admission>>

LockAdmission(w) ==
  /\ At(w, "lock")
  /\ admission = NoWorker
  /\ admission' = w
  /\ Become(w, [job[w] EXCEPT !.at = "processed"])
  /\ UNCHANGED <<chain, state, mempool, advertised>>

\* Give the lock back, on every way out.
Unlock(w) == admission' = NoWorker /\ Return(w)

CheckProcessed(w) ==
  /\ At(w, "processed")
  /\ IF job[w].tx.id \in state.processedTx
     THEN Unlock(w)
     ELSE /\ Become(w, [job[w] EXCEPT !.at = "index"])
          /\ UNCHANGED admission
  /\ UNCHANGED <<chain, state, mempool, advertised>>

CheckIndex_keepsLock(w) ==
  /\ At(w, "index")
  /\ IF CheckAdmission(mempool, job[w].tx)
     THEN Become(w, [job[w] EXCEPT !.at = "sender"])
     ELSE Return(w)
  /\ UNCHANGED <<chain, state, mempool, advertised, admission>>

\* The pool has room for the transaction.
CheckIndex(w) ==
  /\ At(w, "index")
  /\ IF CheckAdmission(mempool, job[w].tx)
     THEN /\ Become(w, [job[w] EXCEPT !.at = "sender"])
          /\ UNCHANGED admission
     ELSE Unlock(w)
  /\ UNCHANGED <<chain, state, mempool, advertised>>

SnapshotSender(w) ==
  /\ At(w, "sender")
  /\ Become(w, [at |-> "validate", tx |-> job[w].tx,
                pending |-> TransactionsForSender(mempool, job[w].tx.id.from)])
  /\ UNCHANGED <<chain, state, mempool, advertised, admission>>

ValidatePending(w) ==
  /\ At(w, "validate")
  /\ IF ValidateMempoolTransactionFor(state, job[w].pending, job[w].tx,
                                      ActivePolicy)
     THEN /\ Become(w, [at |-> "insert", tx |-> job[w].tx])
          /\ UNCHANGED admission
     ELSE Unlock(w)
  /\ UNCHANGED <<chain, state, mempool, advertised>>

AddTransaction(w) ==
  /\ At(w, "insert")
  /\ mempool' = IF CheckAdmission(mempool, job[w].tx)
                THEN mempool \cup {job[w].tx} ELSE mempool
  /\ Unlock(w)
  /\ UNCHANGED <<chain, state, advertised>>

-----------------------------------------------------------------------------
\* The calls that begin.
Begin(w) ==
  /\ exclusive => Quiescent
  /\ \/ \E block \in PeerBlock : AcceptBlock(w, block)
     \/ MineNextBlock(w)
     \/ \E candidate \in PeerChain : Reorganize(w, candidate)
     \/ \E tx \in SubmittedTransaction : SubmitTransaction(w, tx)

\* The steps of a call that has begun, except taking a lock.
Continue(w) ==
  \/ NewBlockFromMempool(w) \/ MineFound(w) \/ MineExhausted(w)
  \/ ProcessClone(w) \/ AddBlock(w) \/ CommitState(w)
  \/ RemoveTransaction(w) \/ RefreshTip(w)
  \/ PreservePending(w) \/ ChooseChain(w) \/ CheckLimits(w)
  \/ InstallChain(w) \/ InstallState(w) \/ CollectCandidates(w)
  \/ ClearMempool(w) \/ RecoverCheck(w) \/ RecoverSender(w)
  \/ RecoverValidate(w) \/ RecoverAdd(w)
  \/ CheckProcessed(w) \/ CheckIndex(w) \/ SnapshotSender(w)
  \/ ValidatePending(w) \/ AddTransaction(w)

Next ==
  /\ \E w \in Worker :
       Begin(w) \/ LockAdmission(w) \/ RefreshHeight(w) \/ Continue(w)
  /\ UNCHANGED exclusive

\* ENABLED <<Continue(w)>>_steps, spelled out.
CanContinue(w) ==
  /\ job[w].at \notin {"idle", "lock"}
  /\ job[w].at \in {"remove", "recover"} => job[w].rest # <<>>

(***************************************************************************)
(* A goroutine that can run keeps running (weak fairness of Continue), and *)
(* Go's mutex hands itself to a waiter that was passed over (starvation    *)
(* mode).  Nothing makes a call begin.                                     *)
(***************************************************************************)
Fairness ==
  \A w \in Worker : /\ []<>~CanContinue(w) \/ []<><<Continue(w)>>_steps
                    /\ SF_steps(LockAdmission(w)) /\ SF_steps(RefreshHeight(w))

Spec == Init /\ [][Next]_vars /\ Fairness

-----------------------------------------------------------------------------
\* No worker is between its write of the chain and its write of the state.
Settled == \A w \in Worker : job[w].at \notin {"commit", "installState"}

(***************************************************************************)
(* Chain and state, two objects with a lock each, belong together: the     *)
(* chain replays without an error and the state is what the replay gives   *)
(* (AcceptBlock, MineNextBlock, ReorganizeToCandidate).                    *)
(***************************************************************************)
StateMatchesChain ==
  Settled => BuildStateFromChain(ActivePolicy, chain) = Outcome(state)

(***************************************************************************)
(* No confirmed transaction is left in the pool when no call is running    *)
(* (RemoveTransaction after a block, the rebuild after a reorganization),  *)
(* if calls do not overlap.                                                *)
(***************************************************************************)
NoConfirmedPending ==
  exclusive /\ Quiescent => \A tx \in mempool : tx.id \notin state.processedTx

(***************************************************************************)
(* When no call is running, peers are told the height and the tip of the   *)
(* chain, whichever of the overlapping calls refreshed last, and although  *)
(* the chain may grow between the two reads (RefreshChainStatus).          *)
(***************************************************************************)
AdvertisedIsCurrent == Quiescent => advertised = Status(chain)

ClearIsReconsidered(w) ==
  At(w, "clear") => \A tx \in mempool : HasID(job[w].all, tx.id)

RebuildIsMaximal(w) ==
  At(w, "recover") /\ job[w].rest = <<>> =>
    \A tx \in job[w].all :
      \/ tx.id \in state.processedTx
      \/ HasID(mempool, tx.id)
      \/ ~CheckAdmission(mempool, tx)
      \/ ~ValidateMempoolTransactionFor(state, mempool, tx, ActivePolicy)

(***************************************************************************)
(* A reorganization drops no transaction that it does not reconsider, and  *)
(* at its end no orphaned or formerly pending transaction is left out that *)
(* would still be admitted: the rebuild in nonce order loses nothing, if   *)
(* calls do not overlap (ReorganizeWithMempoolRecovery).                   *)
(***************************************************************************)
RecoveryIsMaximal ==
  exclusive => \A w \in Worker : ClearIsReconsidered(w) /\ RebuildIsMaximal(w)

(***************************************************************************)
(* Every call returns: no early return keeps the admission lock, and the   *)
(* loops over the pool and the orphaned transactions end.                  *)
(***************************************************************************)
EveryCallReturns == \A w \in Worker : ~At(w, "idle") ~> At(w, "idle")
=============================================================================
