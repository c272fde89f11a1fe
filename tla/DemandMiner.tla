---------------------------- MODULE DemandMiner -----------------------------
(***************************************************************************)
(* The demand miner: a supervisor (demandminer.Supervisor.Run) that reads  *)
(* the status of a seed node and runs a child, sudharmad -mineblocks 1,    *)
(* for every block it wants (NativeRunner.MineOne).  The child copies the  *)
(* chain and the pool of the seed, mines on the copy and sends the block   *)
(* back.  The lock file keeps a second supervisor away.                    *)
(*                                                                         *)
(* A copy of the chain, and a block built on it, is fresh as long as the   *)
(* seed has adopted no block since.  The time since the last sweep is the  *)
(* one bit the supervisor computes from it (due).                          *)
(***************************************************************************)
EXTENDS Naturals, FiniteSets, FiniteSetsExt

CONSTANTS
  Process,              \* supervisors started on the host
  Tx,                   \* transactions; the faucet pays a unit in each
  BlocksPerSweepLimit, FaucetFundingBlocksLimit, FaucetMinBalance,
  MaxBlockTransactions, \* that fit into a block
  MaxFunds,             \* bound: the balance the model tells apart
  NoProcess

ASSUME DemandAssumption ==
  /\ {BlocksPerSweepLimit, FaucetFundingBlocksLimit,
      MaxBlockTransactions} \subseteq Nat \ {0}
  /\ {FaucetMinBalance, MaxFunds} \subseteq Nat
  /\ NoProcess \notin Process

VARIABLES
  rightNode,  \* the status names the expected network
  sup,        \* of each supervisor: where it is, and its counters
  child,      \* of each supervisor: its mining child
  lock,       \* the process that holds the lock file
  due,        \* lastSweep is ScheduledSweepDuration ago
  pending,    \* the pool of the seed
  confirmed,  \* in its chain
  funds,      \* balance of the reward address there
  wire        \* blocks on the way to the seed

vars == <<rightNode, sup, child, lock, due, pending, confirmed, funds, wire>>

world == <<rightNode, pending, confirmed, funds>>

Off == [at |-> "off", mined |-> 0]

NoChild == [at |-> "none"]

At(p, label) == sup[p].at = label

Goto(p, label) == sup' = [sup EXCEPT ![p].at = label]

Init ==
  /\ rightNode = TRUE
  /\ sup = [p \in Process |-> Off]
  /\ child = [p \in Process |-> NoChild]
  /\ lock = NoProcess
  /\ due = FALSE
  /\ pending = {}
  /\ confirmed = {}
  /\ funds = 0
  /\ wire = {}

-----------------------------------------------------------------------------
(***************************************************************************)
(* The process.                                                            *)
(***************************************************************************)
\* The lock is opened, and never taken.
Start_withoutLock(p) ==
  /\ At(p, "off")
  /\ lock' = p
  /\ Goto(p, "status")
  /\ due' = FALSE
  /\ UNCHANGED <<child, wire, world>>

\* acquireLock, or the process ends at once; lastSweep is now.
Start(p) ==
  /\ At(p, "off")
  /\ lock = NoProcess
  /\ lock' = p
  /\ Goto(p, "status")
  /\ due' = FALSE
  /\ UNCHANGED <<child, wire, world>>

\* run returns and the lock goes; whatever child is left dies with the service.
Exit(p) ==
  /\ sup' = [sup EXCEPT ![p] = Off]
  /\ child' = [child EXCEPT ![p] = NoChild]
  /\ lock' = NoProcess
  /\ UNCHANGED <<due, wire, world>>

\* A signal cancels the context, or the process is killed.
Stop(p) == ~At(p, "off") /\ Exit(p)

\* The timer of the sleep, or a wake that came before or during it.
Sleep(p) ==
  /\ At(p, "sleep")
  /\ Goto(p, "status")
  /\ UNCHANGED <<child, lock, due, wire, world>>

HalfHourPasses ==
  /\ due' = TRUE
  /\ UNCHANGED <<sup, child, lock, wire, world>>

-----------------------------------------------------------------------------
(***************************************************************************)
(* Supervisor.Run.                                                         *)
(***************************************************************************)
Move(p, label) ==
  /\ Goto(p, label)
  /\ UNCHANGED <<child, lock, due, wire, world>>

\* A request fails: log, back off and start again.
RequestFails(p) ==
  /\ sup[p].at \in {"status", "balance", "sweep", "verify", "fund", "fundVerify"}
  /\ Move(p, "sleep")

Status(p) ==
  /\ At(p, "status")
  /\ IF ~rightNode THEN Exit(p)
     ELSE /\ sup' = [sup EXCEPT ![p].at = IF pending # {} THEN "sweep" ELSE "balance",
                                ![p].mined = 0]
          /\ UNCHANGED <<child, lock, due, wire, world>>

needsFaucetFunding == FaucetMinBalance # 0 /\ funds < FaucetMinBalance

Balance(p) ==
  /\ At(p, "balance")
  /\ Move(p, IF needsFaucetFunding THEN "fund" ELSE "scheduled")

\* MineOne starts its child.
StartChild(p, next) ==
  /\ Goto(p, next)
  /\ child' = [child EXCEPT ![p] = [at |-> "started"]]
  /\ UNCHANGED <<lock, due, wire, world>>

\* lastSweep = now, and the cooldown.
SweepDone(p) ==
  /\ Goto(p, "sleep")
  /\ due' = FALSE
  /\ UNCHANGED <<child, lock, wire, world>>

\* clearPendingMempool reads the status again before every block.
Sweep(p) ==
  /\ At(p, "sweep")
  /\ \/ ~rightNode /\ Move(p, "sleep")
     \/ rightNode /\ pending = {} /\ SweepDone(p)
     \/ rightNode /\ pending # {} /\ StartChild(p, "sweeping")

SweepVerify(p) ==
  /\ At(p, "verify")
  /\ IF pending = {} THEN SweepDone(p) ELSE Move(p, "sleep")

\* mineFaucetFundingBlocks.
Fund(p) ==
  /\ At(p, "fund")
  /\ IF needsFaucetFunding THEN StartChild(p, "funding") ELSE SweepDone(p)

FundVerify(p) ==
  /\ At(p, "fundVerify")
  /\ IF needsFaucetFunding THEN Move(p, "sleep") ELSE SweepDone(p)

Scheduled(p) ==
  /\ At(p, "scheduled")
  /\ IF due THEN StartChild(p, "reward") ELSE Move(p, "sleep")

\* After the block of a loop: the next one, or the check at its end.
AfterBlock(p) ==
  LET mined == sup[p].mined + 1
      Then(limit, again, verify) == IF mined < limit THEN again ELSE verify
  IN  [sup[p] EXCEPT
         !.mined = mined,
         !.at = CASE At(p, "sweeping") -> Then(BlocksPerSweepLimit, "sweep", "verify")
                  [] At(p, "funding")  -> Then(FaucetFundingBlocksLimit, "fund", "fundVerify")
                  [] At(p, "reward")   -> "sleep"]

MineOneReturns(p) ==
  /\ sup' = [sup EXCEPT ![p] = AfterBlock(p)]
  /\ due' = IF At(p, "reward") THEN FALSE ELSE due
  /\ child' = [child EXCEPT ![p] = NoChild]
  /\ UNCHANGED <<lock, wire, world>>

MineOneFails(p) ==
  /\ Goto(p, "sleep")
  /\ child' = [child EXCEPT ![p] = NoChild]
  /\ UNCHANGED <<lock, due, wire, world>>

-----------------------------------------------------------------------------
(***************************************************************************)
(* The child: sudharmad with -peer and -mineblocks 1.                      *)
(***************************************************************************)
ChildBecomes(p, record) ==
  /\ child' = [child EXCEPT ![p] = record]
  /\ UNCHANGED <<sup, lock, due, world>>

\* The pool of the seed is not asked for.
ChildSync_chainOnly(p, got) ==
  /\ child[p].at = "started"
  /\ ChildBecomes(p, [at |-> "copied", txs |-> {}, fresh |-> TRUE, linked |-> TRUE])
  /\ UNCHANGED wire

\* The chain is copied; of the pool, what arrives until the exchange settles.
ChildSync(p, got) ==
  /\ child[p].at = "started"
  /\ ChildBecomes(p, [at |-> "copied", txs |-> got, fresh |-> TRUE, linked |-> TRUE])
  /\ UNCHANGED wire

\* No connection to the seed: the child goes on with its own genesis chain.
ChildAlone(p) ==
  /\ child[p].at = "started"
  /\ ChildBecomes(p, [at |-> "copied", txs |-> {}, fresh |-> FALSE, linked |-> FALSE])
  /\ UNCHANGED wire

\* The block that made the copy stale arrives.
ChildFollows(p) ==
  /\ child[p].at = "copied" /\ child[p].linked /\ ~child[p].fresh
  /\ ChildBecomes(p, [child[p] EXCEPT !.txs = @ \ confirmed, !.fresh = TRUE])
  /\ UNCHANGED wire

\* Synchronization fails, or no nonce is found: the process ends.
ChildFails(p) ==
  /\ child[p].at \in {"started", "copied"}
  /\ ChildBecomes(p, [at |-> "ended", txs |-> {}])
  /\ UNCHANGED wire

Chosen(txs) ==
  kSubset(IF Cardinality(txs) < MaxBlockTransactions THEN Cardinality(txs)
                                                     ELSE MaxBlockTransactions, txs)

\* runBlockMiningTest: MineNextBlock, BroadcastBlock, then the evidence.
ChildMines(p) ==
  /\ child[p].at = "copied"
  /\ \E txs \in Chosen(child[p].txs) :
       /\ ChildBecomes(p, [at |-> "ended", txs |-> txs])
       /\ wire' = IF child[p].linked
                  THEN wire \cup {[txs |-> txs, fresh |-> child[p].fresh]} ELSE wire

\* Without a transaction in the pool and in the block the run is an error.
validationError(p) == child[p].txs = {}

\* The evidence, or the end of the child, ends MineOne.
Reaped(p) ==
  /\ child[p].at = "ended"
  /\ IF validationError(p) THEN MineOneFails(p) ELSE MineOneReturns(p)

\* The deadline of the child; its block may be on the way.
Timeout(p) == child[p] # NoChild /\ MineOneFails(p)

-----------------------------------------------------------------------------
(***************************************************************************)
(* The seed.                                                               *)
(***************************************************************************)
Submit(t) ==
  /\ t \notin pending \cup confirmed
  /\ Cardinality(pending) < funds
  /\ pending' = pending \cup {t}
  /\ UNCHANGED <<rightNode, sup, child, lock, due, confirmed, funds, wire>>

\* A new tip: the copies of the old chain, and blocks built on it, are stale.
NewTip(txs, reward, others) ==
  /\ pending' = pending \ txs
  /\ confirmed' = confirmed \cup txs
  /\ funds' = Min({MaxFunds, funds + reward}) - Cardinality(txs)
  /\ wire' = {[b EXCEPT !.fresh = FALSE] : b \in others}
  /\ child' = [p \in Process |-> IF child[p].at = "copied"
                                 THEN [child[p] EXCEPT !.fresh = FALSE] ELSE child[p]]
  /\ UNCHANGED <<rightNode, sup, lock, due>>

\* AcceptBlock adopts a block that extends the tip.
Adopt(b) == b.fresh /\ NewTip(b.txs, 1, wire \ {b})

Rival(txs) == txs \in Chosen(pending) /\ NewTip(txs, 0, wire)

\* AcceptBlock refuses it, or the connection breaks before it is read.
Drop(b) ==
  /\ wire' = wire \ {b}
  /\ UNCHANGED <<rightNode, sup, child, lock, due, pending, confirmed, funds>>

\* The endpoint of the supervisor is now a node of another network.
OtherNetwork ==
  /\ rightNode' = FALSE
  /\ UNCHANGED <<sup, child, lock, due, pending, confirmed, funds, wire>>

Supervise(p) ==
  \/ Start(p) \/ Stop(p) \/ Sleep(p) \/ RequestFails(p)
  \/ Status(p) \/ Balance(p) \/ Sweep(p) \/ SweepVerify(p)
  \/ Fund(p) \/ FundVerify(p) \/ Scheduled(p)
  \/ Reaped(p) \/ Timeout(p)

Child(p) ==
  \/ \E got \in SUBSET pending : ChildSync(p, got)
  \/ ChildAlone(p) \/ ChildFollows(p) \/ ChildFails(p) \/ ChildMines(p)

Seed ==
  \/ \E t \in Tx : Submit(t)
  \/ \E b \in wire : Adopt(b) \/ Drop(b)
  \/ \E txs \in SUBSET pending : Rival(txs)
  \/ OtherNetwork

Next ==
  \/ \E p \in Process : Supervise(p) \/ Child(p)
  \/ HalfHourPasses
  \/ Seed

(***************************************************************************)
(* The service is started again when it has ended, and its steps are       *)
(* taken.  Requests, the exchange with the seed and the search for a nonce *)
(* may fail any number of times but not always, nor are the blocks of the  *)
(* children always late or lost.                                           *)
(***************************************************************************)
Fairness ==
  /\ WF_vars(\E p \in Process : Start(p))
  /\ WF_vars(\E p \in Process : Sleep(p) \/ SweepVerify(p) \/ FundVerify(p)
                                \/ Scheduled(p) \/ Reaped(p) \/ ChildFails(p))
  /\ SF_vars(\E p \in Process : Status(p))
  /\ SF_vars(\E p \in Process : Sweep(p))
  /\ WF_vars(\E p \in Process : Balance(p) \/ Fund(p))
  /\ SF_vars(\E p \in Process : ChildSync(p, pending))
  /\ SF_vars(\E p \in Process : child[p].at = "copied" /\ child[p].fresh
                                 /\ child[p].txs # {} /\ ChildMines(p))
  /\ SF_vars(\E b \in wire : b.txs # {} /\ Adopt(b))

Spec == Init /\ [][Next]_vars /\ Fairness

-----------------------------------------------------------------------------
Running == {p \in Process : child[p] # NoChild}

(***************************************************************************)
(* One child mines at a time, of the process that holds the lock, however  *)
(* many supervisors are started and stopped (acquireLock, MineOne).        *)
(***************************************************************************)
OneChild == \A p \in Running : lock = p

(***************************************************************************)
(* Every transaction in the pool of the seed gets confirmed, through       *)
(* failures, time-outs, late blocks and restarts, unless the endpoint of   *)
(* the supervisor answers for another network (Supervisor.Run).            *)
(***************************************************************************)
PendingIsConfirmed ==
  \A t \in Tx : t \in pending ~> (t \in confirmed \/ ~rightNode)
=============================================================================
