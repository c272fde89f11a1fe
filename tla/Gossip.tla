------------------------------- MODULE Gossip -------------------------------
(***************************************************************************)
(* A network of honest nodes: blocks and transactions spread by relaying   *)
(* (readLoop, relayBlock, relayTransaction), peers are scored for what     *)
(* they send, and a new connection begins with the synchronization of      *)
(* reconnectKnownPeersRuntime.                                             *)
(*                                                                         *)
(* Blocks extend the chain of one miner: a block is its height, a node has *)
(* the first height[n] blocks, and mined[h] transactions are confirmed by  *)
(* the first h.  Transactions are those of one sender: a transaction is    *)
(* its nonce.  Forks are the subject of Chain and Sync.                    *)
(***************************************************************************)
EXTENDS Integers, FiniteSets, FiniteSetsExt, SequencesExt

CONSTANTS
  NodeID, Miner,
  Submitter,     \* nodes with wallets
  Topology,      \* sets of links the network may have
  Penalty,       \* PeerPenaltyInvalidData
  PeerScoreMin, PeerScoreMax, PeerScoreGoodEvent, PeerDisconnectThreshold,
  MaxConnects,   \* bound: connections made after the first ones
  MaxEvents      \* bound: blocks mined, transactions submitted, links broken

ASSUME GossipAssumption ==
  /\ Miner \in NodeID
  /\ Submitter \subseteq NodeID
  /\ \A links \in Topology : links \subseteq kSubset(2, NodeID)
  /\ {Penalty, PeerScoreGoodEvent, MaxConnects, MaxEvents} \subseteq Nat
  /\ PeerScoreMin <= PeerDisconnectThreshold /\ PeerDisconnectThreshold < 0

VARIABLES
  links,    \* pairs of nodes that know each other
  link,     \* "up", "closed" by one side, or "down" when both have noticed
  wire,     \* wire[m][n]: messages on the way from m to n
  mined, height, pool,
  loop,     \* loop[n][m]: what the reader of m, or (m = n) a local call, has to relay
  cast,     \* the block the miner has to broadcast, or 0
  main,     \* the peer the main loop synchronizes with, and how far it is
  score,
  connects, events

node == <<mined, height, pool>>
vars == <<links, link, wire, node, loop, cast, main, score, connects, events>>

Idle == [type |-> "none"]
Resting == [at |-> "idle"]
Block(h) == [type |-> "block", height |-> h]
Tx(t) == [type |-> "transaction", nonce |-> t]
GetMempool == [type |-> "get_mempool"]

Init ==
  /\ links \in Topology
  /\ link = [l \in links |-> "up"]
  /\ wire = [m \in NodeID |-> [n \in NodeID |-> <<>>]]
  /\ mined = <<>>
  /\ height = [n \in NodeID |-> 0]
  /\ pool = [n \in NodeID |-> {}]
  /\ loop = [n \in NodeID |-> [m \in NodeID |-> Idle]]
  /\ cast = 0
  /\ main = [n \in NodeID |-> Resting]
  /\ score = [n \in NodeID |-> [m \in NodeID |-> 0]]
  /\ connects = 0
  /\ events = 0

\* The peers of n with a connection in the given state.
Peers(n, status) == {m \in NodeID : {n, m} \in links /\ link[{n, m}] = status}

\* wire after n has written messages to each of its peers in to.
Sent(n, to, messages) ==
  [wire EXCEPT ![n] = [m \in NodeID |-> IF m \in to THEN @[m] \o messages ELSE @[m]]]

Event == events < MaxEvents /\ events' = events + 1

confirmed(h) == IF h = 0 THEN 0 ELSE mined[h]

-----------------------------------------------------------------------------
(***************************************************************************)
(* Local calls: SubmitTransaction, and the miner.                          *)
(***************************************************************************)
\* The nonce follows the confirmed and the pending ones.
nextNonce(n) == confirmed(height[n]) + Cardinality(pool[n]) + 1

Submit(n) ==
  /\ Event
  /\ loop[n][n] = Idle
  /\ LET t == nextNonce(n)
     IN  /\ pool' = [pool EXCEPT ![n] = @ \cup {t}]
         /\ loop' = [loop EXCEPT ![n][n] = Tx(t)]
  /\ UNCHANGED <<links, link, wire, mined, height, cast, main, score, connects>>

\* AcceptBlock and MineNextBlock: the block is added and its transactions go.
Adopted(n, h, total) ==
  /\ height' = [height EXCEPT ![n] = h]
  /\ pool' = [pool EXCEPT ![n] = {t \in @ : t > total}]

Mine ==
  /\ Event
  /\ cast = 0
  /\ height[Miner] = Len(mined)
  /\ LET total == confirmed(Len(mined)) + Cardinality(pool[Miner])
     IN  /\ mined' = Append(mined, total)
         /\ Adopted(Miner, Len(mined) + 1, total)
  /\ cast' = Len(mined) + 1
  /\ UNCHANGED <<links, link, wire, loop, main, score, connects>>

\* BroadcastBlock gives up at the first peer it cannot write to.
BroadcastBlock ==
  /\ cast # 0
  /\ \E to \in SUBSET Peers(Miner, "up") :
       /\ Peers(Miner, "closed") = {} => to = Peers(Miner, "up")
       /\ wire' = Sent(Miner, to, <<Block(cast)>>)
  /\ cast' = 0
  /\ UNCHANGED <<links, link, node, loop, main, score, connects, events>>

-----------------------------------------------------------------------------
(***************************************************************************)
(* The read loop of n for the peer m.                                      *)
(***************************************************************************)
Clamped(s) == Max({PeerScoreMin, Min({PeerScoreMax, s})})

Reward(n, m) == score' = [score EXCEPT ![n][m] = Clamped(@ + PeerScoreGoodEvent)]

Read(n, m) == [wire EXCEPT ![m][n] = Tail(@)]

\* rewardValidPeerMessage, then the relay, outside all locks.
Accept(n, m, message) ==
  /\ Reward(n, m)
  /\ loop' = [loop EXCEPT ![n][m] = message]
  /\ wire' = Read(n, m)
  /\ UNCHANGED link

Ignore(n, m) ==
  /\ wire' = Read(n, m)
  /\ UNCHANGED <<link, height, pool, loop, score>>

\* penalizePeerAndMaybeDisconnect: what else has arrived is not read.
Punish(n, m) ==
  /\ score' = [score EXCEPT ![n][m] = Clamped(@ - Penalty)]
  /\ IF score'[n][m] <= PeerDisconnectThreshold
     THEN /\ link' = [link EXCEPT ![{n, m}] = "closed"]
          /\ wire' = [wire EXCEPT ![m][n] = <<>>]
     ELSE wire' = Read(n, m) /\ UNCHANGED link
  /\ UNCHANGED <<height, pool, loop>>

\* A known transaction is relayed again.
ReceiveTransaction_relaysKnown(n, m, t) ==
  IF t \in pool[n] THEN Accept(n, m, Tx(t)) /\ UNCHANGED <<height, pool>>
  ELSE IF t = nextNonce(n)
       THEN /\ pool' = [pool EXCEPT ![n] = @ \cup {t}]
            /\ Accept(n, m, Tx(t))
            /\ UNCHANGED height
       ELSE Punish(n, m)

ReceiveTransaction(n, m, t) ==
  IF t \in pool[n] THEN Ignore(n, m)
  ELSE IF t = nextNonce(n)
       THEN /\ pool' = [pool EXCEPT ![n] = @ \cup {t}]
            /\ Accept(n, m, Tx(t))
            /\ UNCHANGED height
       ELSE Punish(n, m)

\* A block that is known already is refused like any other.
ReceiveBlock(n, m, h) ==
  IF h = height[n] + 1
  THEN Adopted(n, h, mined[h]) /\ Accept(n, m, Block(h))
  ELSE Punish(n, m)

\* MempoolSnapshot: in the order of nonces.
Snapshot(n) ==
  LET ordered == SetToSortSeq(pool[n], <)
  IN  [i \in 1..Len(ordered) |-> Tx(ordered[i])]

\* syncMempoolToPeer.
ReceiveGetMempool(n, m) ==
  /\ IF link[{n, m}] = "up"
     THEN /\ wire' = [Read(n, m) EXCEPT ![n][m] = @ \o Snapshot(n)]
          /\ Reward(n, m)
     ELSE wire' = Read(n, m) /\ UNCHANGED score
  /\ UNCHANGED <<link, height, pool, loop>>

Receive(n, m) ==
  /\ loop[n][m] = Idle
  /\ wire[m][n] # <<>>
  /\ LET message == Head(wire[m][n])
     IN  CASE message.type = "transaction" -> ReceiveTransaction(n, m, message.nonce)
           [] message.type = "block"       -> ReceiveBlock(n, m, message.height)
           [] message.type = "get_mempool" -> ReceiveGetMempool(n, m)
  /\ UNCHANGED <<links, mined, cast, main, connects, events>>

\* The block stays with the node.
Relay_transactionsOnly(n, m) ==
  /\ loop[n][m] # Idle
  /\ wire' = IF loop[n][m].type = "block" THEN wire
             ELSE Sent(n, Peers(n, "up") \ {m}, <<loop[n][m]>>)
  /\ loop' = [loop EXCEPT ![n][m] = Idle]
  /\ UNCHANGED <<links, link, node, cast, main, score, connects, events>>

\* relayBlock, relayTransaction: to all but the sender; a failed write is skipped.
Relay(n, m) ==
  /\ loop[n][m] # Idle
  /\ wire' = Sent(n, Peers(n, "up") \ {m}, <<loop[n][m]>>)
  /\ loop' = [loop EXCEPT ![n][m] = Idle]
  /\ UNCHANGED <<links, link, node, cast, main, score, connects, events>>

-----------------------------------------------------------------------------
(***************************************************************************)
(* Connections.                                                            *)
(***************************************************************************)
Break(l) ==
  /\ link[l] = "up"
  /\ Event
  /\ link' = [link EXCEPT ![l] = "closed"]
  /\ UNCHANGED <<links, wire, node, loop, cast, main, score, connects>>

\* Both read loops have ended; what was under way is lost.
LoopsEnd(n, m) ==
  /\ {n, m} \in links /\ link[{n, m}] = "closed"
  /\ loop[n][m] = Idle /\ loop[m][n] = Idle
  /\ link' = [link EXCEPT ![{n, m}] = "down"]
  /\ wire' = [wire EXCEPT ![n][m] = <<>>, ![m][n] = <<>>]
  /\ UNCHANGED <<links, node, loop, cast, main, score, connects, events>>

\* The tick of the main loop finds a known peer offline and connects.
Connect(n, m) ==
  /\ main[n] = Resting
  /\ m \in Peers(n, "down")
  /\ connects < MaxConnects
  /\ connects' = connects + 1
  /\ link' = [link EXCEPT ![{n, m}] = "up"]
  /\ main' = [main EXCEPT ![n] = [at |-> "sync", peer |-> m]]
  /\ UNCHANGED <<links, wire, node, loop, cast, score, events>>

\* SyncFromPeer (see Sync) of the side that connected.
SyncFromPeer(n) ==
  /\ main[n].at = "sync"
  /\ LET m == main[n].peer
         h == Max({height[n], height[m]})
     IN  \/ /\ link[{n, m}] = "up"
            /\ Adopted(n, h, confirmed(h))
            /\ main' = [main EXCEPT ![n].at = "mempool"]
         \/ /\ main' = [main EXCEPT ![n] = Resting]  \* it fails
            /\ UNCHANGED <<height, pool>>
  /\ UNCHANGED <<links, link, wire, mined, loop, cast, score, connects, events>>

\* The pool, then the request for the pool of the peer.
SyncMempoolWithPeer(n) ==
  /\ main[n].at = "mempool"
  /\ LET m == main[n].peer
     IN  wire' = IF link[{n, m}] = "up"
                 THEN Sent(n, {m}, Append(Snapshot(n), GetMempool)) ELSE wire
  /\ main' = [main EXCEPT ![n] = Resting]
  /\ UNCHANGED <<links, link, node, loop, cast, score, connects, events>>

-----------------------------------------------------------------------------
\* What nobody has to begin.
Step ==
  \/ BroadcastBlock
  \/ \E n \in NodeID :
       \/ SyncFromPeer(n) \/ SyncMempoolWithPeer(n)
       \/ \E m \in NodeID : Receive(n, m) \/ Relay(n, m) \/ LoopsEnd(n, m)

Next ==
  \/ Step
  \/ Mine
  \/ \E n \in Submitter : Submit(n)
  \/ \E n, m \in NodeID : Connect(n, m)
  \/ \E l \in links : Break(l)

(***************************************************************************)
(* Goroutines that can run do; nobody has to mine, submit or connect.      *)
(***************************************************************************)
Spec == Init /\ [][Next]_vars /\ WF_vars(Step)

-----------------------------------------------------------------------------
Quiet ==
  /\ \A n, m \in NodeID : wire[n][m] = <<>> /\ loop[n][m] = Idle
  /\ cast = 0

(***************************************************************************)
(* Relaying ends: in a network with cycles no message travels for ever,    *)
(* although a node remembers only what is pending or in its chain          *)
(* (readLoop, relayTransaction, relayBlock).                               *)
(***************************************************************************)
GossipEnds == <>[]Quiet

Tree == Cardinality(links) = Cardinality(NodeID) - 1

(***************************************************************************)
(* In a network without cycles, as long as no link breaks and no peer is   *)
(* dropped for its score, every block reaches every node, in order         *)
(* (BroadcastBlock, readLoop, relayBlock).                                 *)
(***************************************************************************)
BlocksReachEveryNode ==
  Tree /\ [](\A l \in links : link[l] = "up")
    => []<>(\A n \in NodeID : height[n] = Len(mined))
=============================================================================
