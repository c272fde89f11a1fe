------------------------------- MODULE Peers --------------------------------
(***************************************************************************)
(* The connections of a node (p2p/node.go and the peer_*.go files).  A     *)
(* connection is made by the accept loop or by Connect, enters the table   *)
(* of peers after its handshake, and from then on has a read loop and a    *)
(* keepalive goroutine; either may find it broken and remove it, Stop      *)
(* removes all, and the same node may connect again meanwhile.             *)
(***************************************************************************)
EXTENDS Integers, FiniteSets

CONSTANTS
  Conn, NodeID, NetworkGroup, NoConn,
  MaxConnectedPeers, MaxPeersPerNetworkGroup, MaxConcurrentInboundHandshakes,
  PeerScoreMin, PeerScoreMax, PeerScoreGoodEvent, PeerDisconnectThreshold,
  Penalty

ASSUME PeersAssumption ==
  /\ NoConn \notin Conn
  /\ {MaxConnectedPeers, MaxPeersPerNetworkGroup,
      MaxConcurrentInboundHandshakes} \subseteq Nat
  /\ {PeerScoreMin, PeerScoreMax, PeerDisconnectThreshold} \subseteq Int
  /\ PeerScoreMin <= 0 /\ 0 <= PeerScoreMax
  /\ PeerScoreGoodEvent \in Nat
  /\ Penalty \subseteq Nat \ {0}

VARIABLES
  listening,  \* n.listener # nil
  peers,      \* the connection of each connected node
  conn,       \* of each connection: identity, socket, goroutines
  slots,      \* inboundHandshakeSlots in use
  tracked,    \* inboundHandshakeConns
  closing,    \* what a Stop still has to close
  score

vars == <<listening, peers, conn, slots, tracked, closing, score>>

Free == [shake |-> "none", reader |-> "none", keeper |-> "none",
         open |-> FALSE, inbound |-> FALSE]

Init ==
  /\ listening = TRUE
  /\ peers = [id \in NodeID |-> NoConn]
  /\ conn = [c \in Conn |-> Free]
  /\ slots = 0
  /\ tracked = {}
  /\ closing = {}
  /\ score = [id \in NodeID |-> 0]

Connected == {id \in NodeID : peers[id] # NoConn}

\* A connection object that nobody uses any more is garbage.
Settled(record) ==
  IF /\ record.shake = "done"
     /\ record.reader \in {"none", "done"}
     /\ record.keeper \in {"none", "done"}
     /\ ~record.open
  THEN Free ELSE record

Update(c, record) == conn' = [conn EXCEPT ![c] = Settled(record)]

New(direction, id, group) ==
  [shake |-> "running", reader |-> "none", keeper |-> "none", open |-> TRUE,
   inbound |-> (direction = "inbound"), id |-> id, group |-> group]

-----------------------------------------------------------------------------
(***************************************************************************)
(* Connections begin.                                                      *)
(***************************************************************************)
Accept(c, id, group) ==
  /\ conn[c] = Free /\ c \notin closing
  /\ listening
  /\ slots < MaxConcurrentInboundHandshakes
  /\ slots' = slots + 1
  /\ tracked' = tracked \cup {c}
  /\ conn' = [conn EXCEPT ![c] = New("inbound", id, group)]
  /\ UNCHANGED <<listening, peers, closing, score>>

Connect(c, id, group) ==
  /\ conn[c] = Free /\ c \notin closing
  /\ conn' = [conn EXCEPT ![c] = New("outbound", id, group)]
  /\ UNCHANGED <<listening, peers, slots, tracked, closing, score>>

\* The policy for groups, one peer too late.
canStorePeer_offByOne(c) ==
  /\ peers[conn[c].id] = NoConn
  /\ Cardinality(Connected) < MaxConnectedPeers
  /\ Cardinality({id \in Connected : conn[peers[id]].group = conn[c].group})
       <= MaxPeersPerNetworkGroup

canStorePeer(c) ==
  /\ peers[conn[c].id] = NoConn
  /\ Cardinality(Connected) < MaxConnectedPeers
  /\ Cardinality({id \in Connected : conn[peers[id]].group = conn[c].group})
       < MaxPeersPerNetworkGroup

\* storePeer, and the goroutines that serve the connection.
StorePeer(c) ==
  /\ conn[c].shake = "running"
  /\ IF canStorePeer(c)
     THEN /\ peers' = [peers EXCEPT ![conn[c].id] = c]
          /\ conn' = [conn EXCEPT ![c].shake = "return",
                                  ![c].reader = "reading",
                                  ![c].keeper = "running"]
     ELSE /\ conn' = [conn EXCEPT ![c].shake = "return", ![c].open = FALSE]
          /\ UNCHANGED peers
  /\ UNCHANGED <<listening, slots, tracked, closing, score>>

HandshakeFails(c) ==
  /\ conn[c].shake = "running"
  /\ conn' = [conn EXCEPT ![c].shake = "return", ![c].open = FALSE]
  /\ UNCHANGED <<listening, peers, slots, tracked, closing, score>>

\* The deferred untrackInboundHandshake and releaseInboundHandshake.
HandshakeReturns(c) ==
  /\ conn[c].shake = "return"
  /\ Update(c, [conn[c] EXCEPT !.shake = "done"])
  /\ tracked' = tracked \ {c}
  /\ slots' = IF conn[c].inbound THEN slots - 1 ELSE slots
  /\ UNCHANGED <<listening, peers, closing, score>>

-----------------------------------------------------------------------------
(***************************************************************************)
(* Connections end.                                                        *)
(***************************************************************************)
Clamped(n) ==
  IF n > PeerScoreMax THEN PeerScoreMax
  ELSE IF n < PeerScoreMin THEN PeerScoreMin ELSE n

ReadValid(c) ==
  /\ conn[c].reader = "reading"
  /\ score' = [score EXCEPT ![conn[c].id] = Clamped(@ + PeerScoreGoodEvent)]
  /\ UNCHANGED <<listening, peers, conn, slots, tracked, closing>>

\* punishPeer: at the threshold the connection is closed and the loop ends.
ReadInvalid(c, amount) ==
  /\ conn[c].reader = "reading"
  /\ score' = [score EXCEPT ![conn[c].id] = Clamped(@ - amount)]
  /\ conn' = IF score'[conn[c].id] <= PeerDisconnectThreshold
             THEN [conn EXCEPT ![c].open = FALSE, ![c].reader = "ending"]
             ELSE conn
  /\ UNCHANGED <<listening, peers, slots, tracked, closing>>

\* The peer is gone, is idle for too long, or the socket is closed.
ReadError(c) ==
  /\ conn[c].reader = "reading"
  /\ conn' = [conn EXCEPT ![c].reader = "ending"]
  /\ UNCHANGED <<listening, peers, slots, tracked, closing, score>>

\* Whatever connection the node has now is removed.
removePeerConnection_byNodeID(c) == [peers EXCEPT ![conn[c].id] = NoConn]

\* Only the connection that ends is removed.
removePeerConnection(c) ==
  [peers EXCEPT ![conn[c].id] = IF @ = c THEN NoConn ELSE @]

\* The deferred removal is forgotten.
ReaderRemoves_skipped(c) ==
  /\ conn[c].reader = "ending"
  /\ conn' = [conn EXCEPT ![c].reader = "closing"]
  /\ UNCHANGED <<listening, peers, slots, tracked, closing, score>>

ReaderRemoves(c) ==
  /\ conn[c].reader = "ending"
  /\ peers' = removePeerConnection(c)
  /\ conn' = [conn EXCEPT ![c].reader = "closing"]
  /\ UNCHANGED <<listening, slots, tracked, closing, score>>

ReaderCloses(c) ==
  /\ conn[c].reader = "closing"
  /\ Update(c, [conn[c] EXCEPT !.reader = "done", !.open = FALSE])
  /\ UNCHANGED <<listening, peers, slots, tracked, closing, score>>

\* A tick of keepPeerAlive that finds the connection gone from the table.
KeeperEnds(c) ==
  /\ conn[c].keeper = "running"
  /\ peers[conn[c].id] # c
  /\ Update(c, [conn[c] EXCEPT !.keeper = "done"])
  /\ UNCHANGED <<listening, peers, slots, tracked, closing, score>>

\* A ping cannot be written; since the tick looked, the table may have changed.
KeeperRemoves(c) ==
  /\ conn[c].keeper = "running"
  /\ peers' = removePeerConnection(c)
  /\ conn' = [conn EXCEPT ![c].keeper = "closing"]
  /\ UNCHANGED <<listening, slots, tracked, closing, score>>

KeeperCloses(c) ==
  /\ conn[c].keeper = "closing"
  /\ Update(c, [conn[c] EXCEPT !.keeper = "done", !.open = FALSE])
  /\ UNCHANGED <<listening, peers, slots, tracked, closing, score>>

-----------------------------------------------------------------------------
Start ==
  /\ ~listening
  /\ listening' = TRUE
  /\ UNCHANGED <<peers, conn, slots, tracked, closing, score>>

\* Connections whose handshake is running are left to themselves.
Stop_peersOnly ==
  /\ listening' = FALSE
  /\ closing' = closing \cup {peers[id] : id \in Connected}
  /\ peers' = [id \in NodeID |-> NoConn]
  /\ tracked' = {}
  /\ UNCHANGED <<conn, slots, score>>

Stop ==
  /\ listening' = FALSE
  /\ closing' = closing \cup {peers[id] : id \in Connected} \cup tracked
  /\ peers' = [id \in NodeID |-> NoConn]
  /\ tracked' = {}
  /\ UNCHANGED <<conn, slots, score>>

StopCloses(c) ==
  /\ c \in closing
  /\ Update(c, [conn[c] EXCEPT !.open = FALSE])
  /\ closing' = closing \ {c}
  /\ UNCHANGED <<listening, peers, slots, tracked, score>>

Handshake(c) == StorePeer(c) \/ HandshakeFails(c) \/ HandshakeReturns(c)

Reader(c) == ReaderRemoves(c) \/ ReaderCloses(c)

Keeper(c) == KeeperEnds(c) \/ KeeperRemoves(c) \/ KeeperCloses(c)

Next ==
  \/ \E c \in Conn :
       \/ \E id \in NodeID, group \in NetworkGroup :
            Accept(c, id, group) \/ Connect(c, id, group)
       \/ Handshake(c)
       \/ ReadValid(c)
       \/ \E amount \in Penalty : ReadInvalid(c, amount)
       \/ ReadError(c)
       \/ Reader(c)
       \/ Keeper(c)
       \/ StopCloses(c)
  \/ Start \/ Stop

(***************************************************************************)
(* A handshake ends within its deadline, a read on a closed socket fails,  *)
(* and goroutines run.                                                     *)
(***************************************************************************)
Fairness ==
  \A c \in Conn :
    /\ WF_vars(Handshake(c))
    /\ WF_vars(~conn[c].open /\ ReadError(c))
    /\ WF_vars(Reader(c))
    /\ WF_vars(KeeperEnds(c) \/ KeeperCloses(c))
    /\ WF_vars(StopCloses(c))

Spec == Init /\ [][Next]_vars /\ Fairness

-----------------------------------------------------------------------------
PeerLimits ==
  /\ Cardinality(Connected) <= MaxConnectedPeers
  /\ \A group \in NetworkGroup :
       Cardinality({id \in Connected : conn[peers[id]].group = group})
         <= MaxPeersPerNetworkGroup

SlotsAreExact ==
  slots = Cardinality({c \in Conn : conn[c].inbound /\
                                    conn[c].shake \in {"running", "return"}})

(***************************************************************************)
(* However handshakes end together, the table never exceeds its limits in  *)
(* all and per network group (canStorePeerLocked), every inbound handshake *)
(* holds one slot until it returns and nothing else does                   *)
(* (tryAcquireInboundHandshake, releaseInboundHandshake).                  *)
(***************************************************************************)
LimitsAreExact == PeerLimits /\ SlotsAreExact

BeingClosed(c) ==
  c \in closing \/ conn[c].keeper = "closing" \/ conn[c].reader = "closing"

(***************************************************************************)
(* An open connection that is read is the one the table has for its node,  *)
(* unless somebody is about to close it: the end of an old connection      *)
(* never removes a new one of the same node (removePeerConnection).        *)
(***************************************************************************)
NoLeakedConnection ==
  \A c \in Conn :
    conn[c].open /\ conn[c].reader \in {"reading", "ending"} /\ ~BeingClosed(c) =>
      peers[conn[c].id] = c

(***************************************************************************)
(* Stop reaches every inbound connection, admitted or in its handshake     *)
(* (inboundHandshakeConns).                                                *)
(***************************************************************************)
StopReachesInbound ==
  ~listening => \A c \in Conn : conn[c].inbound /\ conn[c].open => BeingClosed(c)

(***************************************************************************)
(* A closed connection leaves the table (readLoop's deferred removal).     *)
(***************************************************************************)
ClosedLeavesTable ==
  \A c \in Conn : ~conn[c].open ~> \A id \in NodeID : peers[id] # c
=============================================================================
