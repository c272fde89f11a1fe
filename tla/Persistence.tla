---------------------------- MODULE Persistence -----------------------------
(***************************************************************************)
(* What a node keeps on disk and what it starts from: saveData,            *)
(* loadOrCreateChain, loadOrCreateState and LoadMempoolFromFile around a   *)
(* running node.  The chain is saved under its lock, the state and the     *)
(* mempool as snapshots; the three are saved one after the other while     *)
(* blocks arrive.  Each save replaces its file as in FileReplace: state    *)
(* and mempool are removed before the new file is renamed.                 *)
(*                                                                         *)
(* The races between blocks are the subject of Node: here one goroutine    *)
(* changes the chain at a time, in the steps that a save can tell apart.   *)
(***************************************************************************)
EXTENDS PendingPool

CONSTANTS
  ActivePolicy,
  PeerBlock, PeerChain, SubmittedTransaction,
  MaxAutomaticReorgDepth,
  NoFile

ASSUME PersistenceAssumption == ActivePolicy \in Policy

VARIABLES
  orderly,                  \* nothing overlaps a save, and the process ends
                            \* after one: an assumption about the whole run
  phase,                    \* of the process: down, loading, running
  chain, state, mempool,    \* in memory
  writer, saver,            \* where the two goroutines are
  chainFile, stateFile, mempoolFile

memory == <<chain, state, mempool>>
files == <<chainFile, stateFile, mempoolFile>>
vars == <<orderly, phase, memory, writer, saver, files>>

Idle == [at |-> "idle"]

Forget ==
  /\ chain' = <<>>
  /\ state' = NewStateFor(ActivePolicy)
  /\ mempool' = {}
  /\ writer' = Idle
  /\ saver' = Idle

Init ==
  /\ orderly \in BOOLEAN
  /\ phase = "down"
  /\ chain = <<>>
  /\ state = NewStateFor(ActivePolicy)
  /\ mempool = {}
  /\ writer = Idle
  /\ saver = Idle
  /\ chainFile = NoFile
  /\ stateFile = NoFile
  /\ mempoolFile = NoFile

-----------------------------------------------------------------------------
(***************************************************************************)
(* Start.                                                                  *)
(***************************************************************************)
\* The new chain is written whether or not there was one.
loadOrCreateChain_always ==
  /\ phase = "down"
  /\ phase' = "loadState"
  /\ chain' = <<>>
  /\ chainFile' = chain'
  /\ UNCHANGED <<state, mempool, writer, saver, stateFile, mempoolFile>>

loadOrCreateChain ==
  /\ phase = "down"
  /\ phase' = "loadState"
  /\ chain' = IF chainFile = NoFile THEN <<>> ELSE chainFile
  /\ chainFile' = chain'
  /\ UNCHANGED <<state, mempool, writer, saver, stateFile, mempoolFile>>

\* A state that is there is not compared with the chain.
loadOrCreateState ==
  /\ phase = "loadState"
  /\ phase' = "loadMempool"
  /\ IF stateFile = NoFile
     THEN LET replayed == BuildStateFromChain(ActivePolicy, chain)
          IN  replayed.ok /\ state' = replayed.state
     ELSE state' = stateFile
  /\ stateFile' = state'
  /\ UNCHANGED <<chain, mempool, writer, saver, chainFile, mempoolFile>>

\* Each transaction after the ones before it, without what no longer applies.
Admitted(st, ordered) ==
  FoldLeft(LAMBDA pool, tx :
             IF /\ tx.id \notin st.processedTx
                /\ VerifyForNetwork(tx, ActivePolicy)
                /\ ValidateMempoolTransactionFor(st, pool, tx, ActivePolicy)
                /\ CheckAdmission(pool, tx)
             THEN pool \cup {tx} ELSE pool,
           {}, ordered)

LoadMempoolFromFile ==
  /\ phase = "loadMempool"
  /\ phase' = "running"
  /\ \E ordered \in RecoveryOrders(IF mempoolFile = NoFile THEN {} ELSE mempoolFile) :
       mempool' = Admitted(state, ordered)
  /\ UNCHANGED <<chain, state, writer, saver, files>>

-----------------------------------------------------------------------------
(***************************************************************************)
(* The running node.                                                       *)
(***************************************************************************)
MayChange == phase = "running" /\ (orderly => saver = Idle)

\* AddBlock succeeded on the clone that is committed next.
AddBlock(block) ==
  LET processed == ProcessBlockFor(state, ActivePolicy, block)
  IN  /\ MayChange /\ writer = Idle
      /\ LinksToTip(chain, block)
      /\ processed.ok
      /\ chain' = Append(chain, block)
      /\ writer' = [at |-> "commit", state |-> processed.state,
                    pool |-> ToSet(block.transactions), reorg |-> FALSE]
  /\ UNCHANGED <<phase, state, mempool, saver, files>>

ReplaceChain(candidate) ==
  LET replayed == BuildStateFromChain(ActivePolicy, candidate)
  IN  /\ MayChange /\ writer = Idle
      /\ BetterChain(chain, candidate)
      /\ ReorgDepth(chain, candidate) <= MaxAutomaticReorgDepth
      /\ replayed.ok
      /\ chain' = candidate
      /\ writer' = [at |-> "commit", state |-> replayed.state,
                    pool |-> ChainTransactions(chain) \cup mempool,
                    reorg |-> TRUE]
  /\ UNCHANGED <<phase, state, mempool, saver, files>>

CommitState ==
  /\ writer.at = "commit"
  /\ state' = writer.state
  /\ writer' = [at |-> "pool", pool |-> writer.pool, reorg |-> writer.reorg]
  /\ UNCHANGED <<phase, chain, mempool, saver, files>>

\* Confirmed transactions leave the pool; a reorganization rebuilds it.
UpdateMempool ==
  /\ writer.at = "pool"
  /\ writer' = Idle
  /\ IF writer.reorg
     THEN \E ordered \in RecoveryOrders(writer.pool) :
            mempool' = Admitted(state, ordered)
     ELSE mempool' = mempool \ writer.pool
  /\ UNCHANGED <<phase, chain, state, saver, files>>

SubmitTransaction(tx) ==
  /\ MayChange /\ writer = Idle
  /\ tx.id \notin state.processedTx
  /\ VerifyForNetwork(tx, ActivePolicy)
  /\ ValidateMempoolTransactionFor(state, mempool, tx, ActivePolicy)
  /\ CheckAdmission(mempool, tx)
  /\ mempool' = mempool \cup {tx}
  /\ UNCHANGED <<phase, chain, state, writer, saver, files>>

-----------------------------------------------------------------------------
(***************************************************************************)
(* saveData, and the end of the process at any point of it.                *)
(***************************************************************************)
SaverAt(label) == phase = "running" /\ saver.at = label

\* The state is saved at shutdown only.
SaveChain_skipsState ==
  /\ SaverAt("idle")
  /\ orderly => writer = Idle
  /\ chainFile' = chain
  /\ saver' = [at |-> "mempool"]
  /\ UNCHANGED <<phase, memory, writer, stateFile, mempoolFile>>

SaveChain ==
  /\ SaverAt("idle")
  /\ orderly => writer = Idle
  /\ chainFile' = chain
  /\ saver' = [at |-> "state"]
  /\ UNCHANGED <<phase, memory, writer, stateFile, mempoolFile>>

SnapshotState ==
  /\ SaverAt("state")
  /\ saver' = [at |-> "removeState", data |-> state]
  /\ UNCHANGED <<phase, memory, writer, files>>

RemoveState ==
  /\ SaverAt("removeState")
  /\ stateFile' = NoFile
  /\ saver' = [saver EXCEPT !.at = "renameState"]
  /\ UNCHANGED <<phase, memory, writer, chainFile, mempoolFile>>

RenameState ==
  /\ SaverAt("renameState")
  /\ stateFile' = saver.data
  /\ saver' = [at |-> "mempool"]
  /\ UNCHANGED <<phase, memory, writer, chainFile, mempoolFile>>

SnapshotMempool ==
  /\ SaverAt("mempool")
  /\ saver' = [at |-> "removeMempool", data |-> mempool]
  /\ UNCHANGED <<phase, memory, writer, files>>

RemoveMempool ==
  /\ SaverAt("removeMempool")
  /\ mempoolFile' = NoFile
  /\ saver' = [saver EXCEPT !.at = "renameMempool"]
  /\ UNCHANGED <<phase, memory, writer, chainFile, stateFile>>

RenameMempool ==
  /\ SaverAt("renameMempool")
  /\ mempoolFile' = saver.data
  /\ saver' = IF orderly THEN [at |-> "saved"] ELSE Idle
  /\ UNCHANGED <<phase, memory, writer, chainFile, stateFile>>

\* A crash, a failed save, or an orderly shutdown.
Stop ==
  /\ phase # "down"
  /\ orderly => saver.at = "saved"
  /\ phase' = "down"
  /\ Forget
  /\ UNCHANGED files

Resume ==
  /\ SaverAt("saved")
  /\ saver' = Idle
  /\ UNCHANGED <<phase, memory, writer, files>>

Start == loadOrCreateChain \/ loadOrCreateState \/ LoadMempoolFromFile

Change ==
  \/ \E block \in PeerBlock : AddBlock(block)
  \/ \E candidate \in PeerChain : ReplaceChain(candidate)
  \/ \E tx \in SubmittedTransaction : SubmitTransaction(tx)
  \/ CommitState
  \/ UpdateMempool

SaveStep ==
  \/ SaveChain \/ SnapshotState \/ RemoveState \/ RenameState
  \/ SnapshotMempool \/ RemoveMempool \/ RenameMempool \/ Resume

Next == (Start \/ Change \/ SaveStep \/ Stop) /\ UNCHANGED orderly

Spec == Init /\ [][Next]_vars

-----------------------------------------------------------------------------
SavedWork(file) == IF file = NoFile THEN 0 ELSE TotalWork(file)

(***************************************************************************)
(* Whatever ends the process and whenever, the chain it starts from next   *)
(* (loadOrCreateChain) and the chain on disk never have less work.         *)
(***************************************************************************)
SavedWorkNeverFalls == [][SavedWork(chainFile') >= SavedWork(chainFile)]_vars

(***************************************************************************)
(* A restart takes back exactly what it can: nothing confirmed, and no     *)
(* saved transaction is dropped that applies after the ones restored       *)
(* (LoadMempoolFromFile revalidates the file against the loaded state).    *)
(***************************************************************************)
PoolIsRestored ==
  [][phase = "loadMempool" /\ phase' = "running" /\ mempoolFile # NoFile =>
       /\ mempool' \subseteq mempoolFile
       /\ \A tx \in mempoolFile :
            tx \in mempool' <=> /\ tx.id \notin state.processedTx
                               /\ \/ tx \in mempool'
                                  \/ ValidateMempoolTransactionFor(
                                       state, mempool', tx, ActivePolicy)]_vars

(***************************************************************************)
(* A running node's state is the replay of its chain, across restarts, if  *)
(* every save was complete and nothing overlapped it (saveData,            *)
(* loadOrCreateState).                                                     *)
(***************************************************************************)
StateMatchesChain ==
  orderly /\ phase = "running" /\ writer = Idle =>
    state = BuildStateFromChain(ActivePolicy, chain).state
=============================================================================
