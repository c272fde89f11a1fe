# TLA+ verification of the Sudharma node

This directory models the Go code of Sudharma: a proof-of-work chain with an
account ledger, a mempool, a peer-to-peer node that synchronizes and
reorganizes, and the miners and services around it. TLC checks the models on
small instances, TLAPS proves the most important properties for every value of
the constants. `PROJECT.json` holds, for every definition, the source lines it
stands for, the mutants that each property detects, the hazards and the
findings.

## The system

| Part | State | Operations | What is hard about it |
| --- | --- | --- | --- |
| Ledger (`blockchain/state.go`, `transaction_processor.go`, `block_processor.go`, `rewards.go`, `transactions/`) | balances, nonces, processed IDs, issued supply | process a block: clone, apply each transaction, reward the miner, commit | half-applied blocks, rounding of fees, the last coins before the cap, overflow after the first write |
| Consensus (`consensus/`, `params/`) | none: functions of the history | next difficulty, work, subsidy | rounding, epoch and halving boundaries |
| Chain (`blockchain/chain.go`, `reorg*.go`, `fork_choice.go`, `finality*.go`) | blocks, cached total work | append a block, replace the chain by a better candidate | cached work, finality over several reorganizations |
| Mempool (`blockchain/mempool`) | transactions, admission metadata, nonce index, byte total | add, remove, clear | indexes that drift, limits, pointers shared with callers |
| Node (`p2p/block_handler.go`, `reorg_mempool.go`, `transaction_submit.go`, `chain_access.go`, `miner/`) | chain, state, mempool, advertised status, admission lock | accept a block, mine, reorganize with recovery of the pool, admit a transaction | four kinds of goroutines over objects with a lock each |
| Sync, peers, gossip (`p2p/`) | peer table, scores, response channels | connect, handshake, request, answer, relay, time out, ban | late answers, replaced connections, relaying that must end although nobody remembers what was seen |
| Persistence (`blockchain/*storage.go`, `p2p/*persistence.go`, `cmd/sudharmad`) | chain, state, mempool and peer files | save all, load all, recover | crashes between and inside the saves |
| Pool (`pool/`), GPU miner (`gpuminer/`), GPU RPC (`rpc/gpu_mining.go`) | jobs, shares, balances, upstreams | submit, pay out, switch, retry | stale jobs, rounding, failover |
| Demand miner (`demandminer/`), faucet (`deployment/`) | wake queue, child process, claims | wake, start, stop, fund | expiry, late writes, retries |
| Wallet (`wallet/`), RPC (`rpc/`), commands (`cmd/`) | key files | create, rotate, sign, read | partial failure of a rotation |

Peers and RPC clients deliver blocks and transactions to the node. A block is
validated against the chain, processed on a clone of the state, appended, and
the clone is installed; its transactions leave the mempool. The synchronizer
downloads a candidate chain and asks for a reorganization, which replays the
candidate, replaces chain and state, and rebuilds the mempool from the orphaned
and the pending transactions. The miner does what a peer does, with a block it
built from the mempool.

## Modules

| Module | Models |
| --- | --- |
| `Ledger` | transactions, fees, the account state and the operators that apply a transaction and pay a reward |
| `BlockProcessor` | `ProcessBlockFor` step by step: clone, one transaction at a time, reward, commit or failure |
| `AtomicLedger` | the promise of `ProcessBlockFor`: a block is applied completely or not at all |
| `Replay` | `ProcessBlockFor` and `BuildStateFromChain` as functions, and comparison of chains, for the modules that use them as one step |
| `Consensus` | difficulty, median interval, target and work |
| `Chain` | the chain under `AddBlock` and `ReorganizeToCandidate`, with fork choice, depth and finality |
| `Emission` | the subsidies of both monetary policies, one block per step |
| `PoolEntries`, `BoundedPool` | the promise of the mempool: a map that is scanned on every decision |
| `Mempool` | the pool as written: four fields kept in step, and the pointers it shares |
| `PendingPool` | the pool as the node uses it, `ValidateMempoolTransactionFor`, the selection of a block's transactions, the order of recovery |
| `Node` | the goroutines of one node that change chain, state and pool, one action per critical section |
| `Sync` | `SyncFromPeer`: requests, batches, timeouts, the shared response channel and its lock |
| `Peers` | connections: handshakes, the table, read loops, keepalive, penalties, `Start` and `Stop` |
| `FileReplace` | how one file of the node is replaced, with names, inodes, failures and crashes |
| `Persistence` | the three files of a node: saving while it runs, crashing, loading |
| `WalletFiles` | rotation and backup of the encrypted wallet |
| `Discovery` | the peers a node knows: answers of others, automatic connections, the list that `sudharmad` merges, saves and loads |
| `Gossip` | several honest nodes that relay blocks and transactions, score each other and reconnect |
| `MiningPool` | the mining RPC of a node, the pool's engine, ledger and Stratum server, its workers, and the miner that mines alone |
| `DemandMiner` | supervisors with their lock and status loop, and the child that mines one block for the seed |
| `MCBlocks` | accounts, transactions and blocks shared by the small instances |
| `MCChain`, `MCRestart` | runs that go through several machines, one at a time: `part` chooses which one moves, and the others stay in one initial state |
| other `MC*` | the constants of the runs |
| `LedgerProofs`, `BlockProcessorProofs`, `MempoolProofs`, `PeersProofs`, `MiningPoolProofs` | the theorems about the module of that name |
| `PayoutProofs` | the theorem about the ledger of `MiningPool` |
| `ChainProofs` | the theorems about `Chain` and `Emission` |
| `HostProofs` | the theorems about `FileReplace`, `WalletFiles` and `DemandMiner` |

State and actions carry the names of the code. Some correspondences need a word:

* A transaction is a record whose `id` holds the fields that `calculateID`
  hashes: hashing is injective, so equal IDs mean equal fields. The signature is
  the domain (legacy or network) that it was made for; a wrong signature is a
  value of its own.
* `Total(f)` is the sum of a function of naturals, written as the number of
  pairs below its graph. The same form gives the work of a chain, the bytes of a
  pool, the issuance of an epoch and the balances of the mining pool. Adding to
  one value adds a block of pairs, so the prover can argue about sums with the
  cardinality of unions and products.
* A block hash is the block itself, a previous hash the parent in a tuple.
* In `Node`, `job[w]` is the program counter and the local variables of a
  goroutine; `call`, `syncer`, `loop`, `rot` and `bak` are the same in the other
  modules. A block that fails validation before anything is written is a step
  that is not taken.
* In `Sync` a batch carries nothing but blocks, as on the wire: it may answer a
  request that has timed out, or one that was sent to another peer.
* In `Peers` a connection that no goroutine uses any more becomes `Free` again.
  The score has no part in any property and is fixed in the run: every invalid
  message reaches the threshold.
* `Persistence` saves a file in the steps that a crash can tell apart:
  `FileReplace` has the finer ones. Its variable `orderly` is an assumption
  about a whole behaviour, chosen at the start: no change overlaps a save and
  the process ends after a complete save. `exclusive` in `Node` is one too: no
  two calls overlap.
* In `Discovery` a node ID is a number and an address is a group and a host,
  because the code sorts by ID and spreads by group. Remote nodes move, and
  others go on telling where they were.
* In `Gossip` one miner extends one chain and one sender has transactions, so a
  block is a height and a transaction a nonce. `loop[n][m]` is what the read
  loop of one peer has still to relay: it does so after its locks are released.
* In `MiningPool` a job is its height, the parent it announces and whether it
  is still the current one, which is all that comparing job IDs tells. The
  ledgers of all four schemes are kept side by side. Of one worker the whole
  connection is modelled, of another only its shares.
* In `DemandMiner` a copy of the seed's chain is fresh until the seed adopts a
  block. A killed supervisor takes its child with it: the service manager ends
  the whole control group.

## What the runs check

`block_processor` explores blocks of up to three transactions over two users, a
miner and the development account, valid and invalid in every way the code tells
apart. `SupplyIsExact` (conservation and the cap) holds half way through a
block, not only at its end. `NoLateRejection` says the checks behind the first
write never fail; `BlocksAreAtomic` is refinement of `AtomicLedger`.

`chain` enumerates headers with timestamps and proof-of-work flags and lets
candidates replace the chain. The depth limit is small so that reorganizations
at, below and beyond it happen. Its second part walks both monetary policies
past their last subsidy, with a remainder in some epochs and a cap that clips
(`IssuedOnSchedule`).

`mempool` adds, removes and clears with every limit within reach, and changes
transactions through the pointers that `GetTransaction` hands out.

`node` lets admissions overlap each other and a goroutine that accepts, mines
and reorganizes: state and advertised status stay right, and every call returns.
In the behaviours without overlap (`exclusive`) nothing confirmed is pending,
and a reorganization loses nothing that could be admitted.

`node_two_blocks` ends in a violation. Two overlapping `AcceptBlock` calls are
not atomic, as their comment says they are: the second commits a clone of the
state that lacks the first block.

`restart` is about what is on disk, in four parts.
* A node crashes and starts at every point of its saves and its changes. The
  chain on disk never loses work, and the pool that is loaded is all of the
  saved one that the loaded state admits. That the state belongs to the chain
  is shown for orderly behaviours only.
* One file is replaced, with a crash or a failure at every step.
* A wallet is rotated and backed up, with failures, kills and overlaps.
* The list of known peers is loaded, refreshed, merged and saved while nodes
  move, rumours arrive, saves fail and the process ends. A save is never refused
  for what it is given, a peer leaves the file only when another has its
  address, and attempts after a restart are spread over the network groups.

`known_peers` ends in a violation. `sudharmad` refreshes the entry of a peer
from its handshake, as its comment says, and then merges the discovered peers,
whose older address for the same peer replaces the one just given.

`sync` lets peers reorganize, reconnect and answer late, and the local chain grow
meanwhile. What is adopted is what the peer advertised, and the lock is always
given back.

`peers` lets two connections begin, end, be refused, be replaced and be stopped.

`gossip` runs a line and a triangle of three nodes with up to three blocks,
transactions and broken links, penalties that drop a peer, and one reconnection.
Nobody remembers what was relayed, yet relaying ends. In the line, while the
links are up, every block reaches every node.

`demand_miner` starts, stops and restarts two supervisors. One child mines at a
time, for the holder of the lock, and whatever is pending at the seed is
confirmed, although children time out with their block on the wire, mine on
copies that are stale, or lose the seed.

`mining_pool` has a worker with its connection, the shares of another worker, a
miner without a pool and the refreshes of sessions and ticker. What a miner
counts as accepted is credited, or in the chain; the balances add up; and the
job comes to extend a tip that rests.

### What does not hold beyond these settings

The properties hold under the settings of their runs, and some of them only
there. Changing the sets of goroutines in a `.cfg`, or dropping a premise, gives
a counterexample:

| Statement | Setting | What happens |
| --- | --- | --- |
| the work of the chain never falls | `Node` with a block worker beside a sync worker | a block accepted between fork choice and installation is lost to a chain with less work |
| `NoConfirmedPending` | `Node` without the premise `exclusive` | a transaction confirmed between its validation and its insertion stays pending |
| `RecoveryIsMaximal` | `Node` without the premise `exclusive` | a transaction admitted between the snapshot and the clear of the pool is dropped |
| `StateMatchesChain` | `Persistence` without the premise `orderly` | chain and state are saved under separate locks; a block in between, or a crash, leaves files that do not belong together, and the start does not compare them |
| `FileHoldsLastSave` | `FileReplace` with two savers | both write one temporary file; `sudharma-rpcd` saves once more before its periodic save is stopped |
| `FileSurvives` | `FileReplace` without the premise on `afterWrite` | a crash between remove and rename leaves no file |
| `BlocksReachEveryNode` | `Gossip` with a cycle (five nodes, two blocks) | two read loops relay two blocks in the other order; the node behind them refuses the later one and stays behind with all its links up |

### Observations

Met while modelling; none contradicts a property above.

* The pool credits a block to its ledger also when the node refuses it.
* A refresh by the ticker or for another session replaces the current job
  without a notification; a worker's shares are then stale until its next
  notify, and its client waits for one without dialling again. Overlapping
  refreshes may put back an older job for a while.
* The mining RPC reads the tip twice: the announced parent may be newer than
  the one the template was built on.
* The demand miner also mines for the faucet's balance and by schedule, while
  its design document says "No mining when the mempool is empty."
  (`docs/superpowers/specs/2026-08-27-demand-based-testnet-miner-design.md:93`).
* Only the side that connects synchronizes, `BroadcastBlock` gives up at the
  first write error, and a block relayed twice costs an honest peer points.
* A discovered address is never refreshed for an ID that is stored; of two IDs
  at one address only the first is saved; inbound peers are not remembered.
* `sudharmad` replaces a chain file that it cannot read by a new genesis chain.

## Bounds

Every bound is a constant of a module, given in the `.cfg` or the `MC` module:
heights, amounts, the number of blocks, the limits of the pool, `MaxInFlight`
of `Sync`. Amounts are small numbers with a small `MaxUint64`, so that overflow
is reachable. The limits are small enough to be hit and large enough that a
sender can have two transactions pending. Two accounts suffice because a
transaction touches a sender, a receiver and two fixed accounts, and nothing
relates two transactions except their sender and their order.

`Sync` has two peers, one synchronization and batches of one block for chains of
two, so that every download takes two requests, of which the second can be
answered by anything that is late. `Peers` has two connections and two nodes of
one network group: enough for a node to connect again while its old connection
ends and for two nodes to compete for the last place.

`Discovery` has three remote nodes in two groups, of which two may move, and room
for two connections, one in a group. `Gossip` has one reconnection and three
events (blocks, transactions, broken links) on three nodes; two penalties reach
the threshold. `DemandMiner` has two supervisors and two transactions of which a
block holds one, so that a sweep takes two children. `MiningPool` has one height
to win, two shares for each worker and a window of two, so that a share falls
out of the window, answers outlive their call and a job becomes stale.

## Fairness

* `Node`: a goroutine that can run is run by the Go scheduler (weak fairness of
  each call's own steps; `CanContinue` is `ENABLED` written out, which TLC
  evaluates faster). Go's mutex hands itself to a waiter that was passed over
  for a millisecond, which is strong fairness of taking a lock. Nothing makes a
  call begin.
* `Sync`: the same, and the timer of a request fires. A peer need not answer.
* `Peers`: a handshake ends within its deadline, a read from a closed socket
  fails, goroutines run. The peer need not send or close anything.
* `Gossip`: read loops, relays and synchronizations go on. Nobody has to mine,
  submit, connect or break a link.
* `DemandMiner`: a supervisor that has ended is started again, by the service
  manager after a failure (`Restart=on-failure`) and by whoever stopped it
  otherwise; timers fire and processes run (weak fairness). Requests, the exchange with the seed, the
  search and the delivery of a block may fail any number of times but not for
  ever (strong fairness): with a seed that never answers nothing is confirmed.
* `MiningPool`: the ticker ticks, requests are answered or fail, and the node is
  not unreachable for ever. No worker, rival or miner has to do anything.

## What is proved

All proofs are for arbitrary constants that satisfy the `ASSUME`s of the modules.

* `FeesStayExact`: the fee of everything an account could send is the exact
  floor of its rate, and its shares add up.
* `BlockProcessorSafety`, `NoncesStayGapless`, `LateChecksNeverFail`,
  `OwnerSpends`: by the invariant `IInv` of `BlockProcessorProofs`. Conservation
  alone is not inductive: the step needs that the working copy also sums to its
  own issued supply plus the fees taken and not yet paid, that the issued supply
  is below the cap, and that every processed transaction has a nonce at or below
  the account's.
* `ChainSafety`, `ForkChoiceProgress`, `FinalityKept`: the invariant is that the
  chain is valid and the cached work is the sum. Finality follows because the
  common height of a permitted reorganization is at least the finalized height.
* `EpochIssuance`: base subsidy times length plus one unit for each of the
  first remainder heights is the issuance of the epoch.
* `PoolSafety`, `PoolRefinement`: the invariant relates the nonce
  index and the byte total to the metadata recorded at admission, never to the
  transaction itself, which is why changes through pointers do no harm.
* `SavesAreWhole`, `RenamedFileSurvives`: the two names of a file never share an
  inode, a saver that writes has the temporary file open, and one that has
  written finds its data there.
* `WalletSafety`, `BackupOpens`: the invariant says, for each step of a rotation, which of the
  three files holds the key under which password, so that a failure or a kill
  there leaves one that opens; a backup that is kept was verified after the copy.
* `OneChildAtATime`: an exit gives the lock up whoever holds it, so the invariant
  adds that a supervisor that runs holds the lock, and that a child exists only
  while its supervisor waits for it.
* `LimitsKept`, `NothingLeaks`, `StopIsComplete`: the invariant follows each
  connection through its life: what its handshake, reader and keepalive
  goroutines may still do, and that a connection in the table is one that is
  read. The places taken are then the cardinality of the set of connections in
  that phase. Stop alone would not be inductive: it needs that an inbound
  handshake that is admitted after Stop is in the set being closed.
* `MiningSafety`: the invariant describes the conversation of a worker. No line
  has a request ID above the last one given; while the worker waits for the
  answer to a share, the request that carries the last ID is that share, and if
  its acceptance is under way, the ledger is ahead of the worker's count. Late
  answers carry older IDs and are skipped.
* `LedgersAddUp`: crediting one share adds the same to what is owed and to the
  balances. For PPLNS the parts of a block add up to the fee-reduced reward
  less a remainder that is smaller than the number of shares in the window; that
  sum over the window is by induction on its length.

The type invariants of `BlockProcessor`, `Chain`, `Mempool`, `FileReplace`,
`Peers` and `MiningPool` are part of these invariants.

Only model-checked: `Node`, `Sync`, `Persistence`, `Discovery`, `Gossip`, the
liveness properties, the schedules over whole policies and refinement of
`AtomicLedger`. Liveness under fairness is beyond the prover.

## Not modelled

* The proof-of-work functions: their value is a hash, and every property holds
  for any function.
* The faucet (`deployment/.../lambda`): its locks and claims are conditional
  writes of a database that the repository only configures.
* RPC reads, the explorer and its cursors: each formats one read of chain, state
  or pool. The submission of a transaction is the admission of `Node`.
* Readiness tables and manifests, which have no behaviour; the wallet commands
  and the local miner's command, which wire the parts above; user interfaces,
  packaging and scripts.
* Keys, signatures and the encoding of messages with their size limits, which
  are abstracted in every module.
