----------------------------- MODULE Discovery ------------------------------
(***************************************************************************)
(* The peers a node knows: what sudharmad loads, refreshes, merges with    *)
(* the peers it has discovered and saves, over restarts, while the remote  *)
(* nodes move between addresses and others tell where they were            *)
(* (peer_discovery*.go, peer_persistence.go, partition_recovery.go, and    *)
(* the peer handling of sudharmad's main).                                 *)
(*                                                                         *)
(* A node ID is a number, so that lists can be sorted; an address is a     *)
(* pair of its network group and a host.  All are well formed.             *)
(***************************************************************************)
EXTENDS Naturals, Sequences, FiniteSets, SequencesExt

CONSTANTS
  Remote,              \* the IDs of the other nodes
  Local,               \* the ID of this one
  PeerAddress, LocalAddress, NoAddress,
  Home,                \* the addresses of the remote nodes at first
  Mobile,              \* the remote nodes that may move
  Rumour,              \* what a peer may answer to get_peers
  Earlier,             \* what an earlier run has saved
  Flag,                \* values of -peer, NoAddress without it
  MaxPeers, MaxPerGroup

VARIABLES
  where,       \* the address at which each remote node listens
  table,       \* n.peers: the address each connected node gave
  discovered,  \* n.discoveredPeers
  candidates,  \* of AutoConnectDiscoveredPeers, still to be tried
  asked,       \* RequestPartitionRecoveryPeers has asked the peers, and goes on to
  known,       \* knownPeers of main
  saved,       \* the file of known peers
  main         \* where main is

peerVars == <<where, table, discovered, candidates, asked, known, saved, main>>

KnownPeer(id, address) == [id |-> id, address |-> address]

PeerNetworkGroup(address) == address[1]

MainAt(label) == main.at = label

Connected == {id \in Remote : table[id] # NoAddress}

Nowhere == [id \in Remote |-> NoAddress]

-----------------------------------------------------------------------------
(***************************************************************************)
(* The list and the file.                                                  *)
(***************************************************************************)
\* The first entry of every ID and of every address.
Normalized(peers) ==
  LET Add(kept, peer) ==
        IF \E i \in DOMAIN kept : kept[i].id = peer.id \/ kept[i].address = peer.address
        THEN kept ELSE Append(kept, peer)
  IN  FoldLeft(Add, <<>>, peers)

Sorted(peers) == SortSeq(peers, LAMBDA p, q : p.id < q.id)

\* The list in the order of IDs, as the file is.
DiversifiedPeerOrder_byID(peers) == Sorted(Normalized(peers))

\* Round by round a peer of every network group.
DiversifiedPeerOrder(peers) ==
  LET kept == ToSet(Normalized(peers))
      Group(p) == PeerNetworkGroup(p.address)
      Round(p) == Cardinality({q \in kept : Group(q) = Group(p) /\ q.id < p.id})
  IN  SetToSortSeq(kept, LAMBDA p, q : \/ Round(p) < Round(q)
                                       \/ Round(p) = Round(q) /\ Group(p) < Group(q))

LoadKnownPeersFromFile ==
  DiversifiedPeerOrder(SelectSeq(saved, LAMBDA p : p.id # Local))

\* A list with the local node is refused; writing may fail.
SaveKnownPeersToFile(peers) ==
  \/ saved' = saved
  \/ /\ \A i \in DOMAIN peers : peers[i].id # Local
     /\ saved' = Sorted(Normalized(peers))

rememberKnownPeer(peers, peer) ==
  IF \E i \in DOMAIN peers : peers[i].id = peer.id
  THEN [i \in DOMAIN peers |-> IF peers[i].id = peer.id THEN peer ELSE peers[i]]
  ELSE Append(peers, peer)

DiscoveredPeersSnapshot ==
  LET ids == {id \in DOMAIN discovered : discovered[id] # NoAddress}
  IN  SetToSortSeq({KnownPeer(id, discovered[id]) : id \in ids},
                   LAMBDA p, q : p.id < q.id)

WithDiscovered(peers) == FoldLeft(rememberKnownPeer, peers, DiscoveredPeersSnapshot)

\* In place, so that the loop over the list sees it, until the list is copied
\* to grow.
RememberedIn(lists, peer) ==
  LET peers == rememberKnownPeer(lists.known, peer)
  IN  [known |-> peers, loop |-> IF Len(peers) = Len(lists.loop) THEN peers ELSE lists.loop]

-----------------------------------------------------------------------------
(***************************************************************************)
(* The table and what others tell.                                         *)
(***************************************************************************)
\* storePeer's policy, for the node that listens at an address.
CanStore(id) ==
  /\ table[id] = NoAddress
  /\ Cardinality(Connected) < MaxPeers
  /\ Cardinality({other \in Connected : PeerNetworkGroup(table[other])
                                          = PeerNetworkGroup(where[id])}) < MaxPerGroup

\* Connect reaches the node that listens at the address, and stores it.
Connects(address, id) ==
  /\ where[id] = address
  /\ CanStore(id)
  /\ table' = [table EXCEPT ![id] = address]

\* Every peer of the answer, the local node as well.
mergeDiscoveredPeers_withLocal(peers) ==
  [id \in Remote \cup {Local} |->
     IF discovered[id] = NoAddress /\ \E p \in peers : p.id = id
     THEN (CHOOSE p \in peers : p.id = id).address ELSE discovered[id]]

\* filterDiscoveredPeers: not this node, no connected one.  An ID that is
\* there keeps its address.
mergeDiscoveredPeers(peers) ==
  LET Useful(p) ==
        /\ p.id # Local /\ p.address # LocalAddress
        /\ p.id \notin Connected
        /\ \A other \in Connected : table[other] # p.address
  IN  [id \in Remote \cup {Local} |->
         IF discovered[id] = NoAddress /\ \E p \in peers : p.id = id /\ Useful(p)
         THEN (CHOOSE p \in peers : p.id = id).address ELSE discovered[id]]

\* readLoop: a peers message; what is new starts AutoConnectDiscoveredPeers.
ReceivePeers(id, peers) ==
  /\ asked /\ id \in Connected
  /\ discovered' = mergeDiscoveredPeers(peers)
  /\ candidates' = IF discovered' = discovered THEN candidates
                   ELSE {c \in Remote : discovered'[c] # NoAddress}
  /\ UNCHANGED <<where, table, asked, known, saved, main>>

\* One candidate: connected by now, avoided for its reputation, one too many
\* of its group, unreachable, or connected.
AutoConnect(id) ==
  /\ id \in candidates
  /\ candidates' = candidates \ {id}
  /\ \/ UNCHANGED table
     \/ \E reached \in Remote : Connects(discovered[id], reached)
  /\ UNCHANGED <<where, discovered, asked, known, saved, main>>

\* A remote node connects to this one.
Accept(id) ==
  /\ ~MainAt("off")
  /\ where[id] # NoAddress
  /\ Connects(where[id], id)
  /\ UNCHANGED <<where, discovered, candidates, asked, known, saved, main>>

Disconnect(id) ==
  /\ id \in Connected
  /\ table' = [table EXCEPT ![id] = NoAddress]
  /\ UNCHANGED <<where, discovered, candidates, asked, known, saved, main>>

\* A remote node is restarted at an address that is free, or not at all.
Relocate(id, address) ==
  /\ id \in Mobile
  /\ address = NoAddress \/ \A other \in Remote : where[other] # address
  /\ where' = [where EXCEPT ![id] = address]
  /\ UNCHANGED <<table, discovered, candidates, asked, known, saved, main>>

-----------------------------------------------------------------------------
(***************************************************************************)
(* sudharmad.                                                              *)
(***************************************************************************)
PeerInit ==
  /\ where = Home
  /\ table = Nowhere
  /\ discovered = [id \in Remote \cup {Local} |-> NoAddress]
  /\ candidates = {}
  /\ asked = FALSE
  /\ known = <<>>
  /\ saved = Earlier
  /\ main = [at |-> "off"]

MainGoes(label) == main' = [at |-> label]

\* The list is not loaded when -peer names a peer.
StartNode_fresh(flag) ==
  /\ MainAt("off")
  /\ known' = IF flag = NoAddress THEN LoadKnownPeersFromFile ELSE <<>>
  /\ main' = IF flag # NoAddress THEN [at |-> "flag", address |-> flag]
             ELSE [at |-> "auto", i |-> 1, list |-> known']
  /\ UNCHANGED <<where, table, discovered, candidates, asked, saved>>

\* The remembered peers are tried unless -peer names one.
StartNode(flag) ==
  /\ MainAt("off")
  /\ known' = LoadKnownPeersFromFile
  /\ main' = IF flag # NoAddress THEN [at |-> "flag", address |-> flag]
             ELSE [at |-> "auto", i |-> 1, list |-> known']
  /\ UNCHANGED <<where, table, discovered, candidates, asked, saved>>

\* An entry of the loop over the remembered peers, then the next.
AutoPeer ==
  /\ MainAt("auto")
  /\ IF main.i > Len(main.list)
     THEN MainGoes("run") /\ UNCHANGED table
     ELSE \/ /\ main' = [main EXCEPT !.i = @ + 1]
             /\ UNCHANGED table
          \/ \E id \in Remote :
               /\ Connects(main.list[main.i].address, id)
               /\ main' = [at |-> "save", i |-> main.i, list |-> main.list,
                           peer |-> KnownPeer(id, where[id])]
  /\ UNCHANGED <<where, discovered, candidates, asked, known, saved>>

\* The peer of -peer; without it the node goes on.
FlagPeer ==
  /\ MainAt("flag")
  /\ \/ MainGoes("run") /\ UNCHANGED table
     \/ \E id \in Remote :
          /\ Connects(main.address, id)
          /\ main' = [at |-> "save", i |-> 0, list |-> <<>>,
                      peer |-> KnownPeer(id, where[id])]
  /\ UNCHANGED <<where, discovered, candidates, asked, known, saved>>

\* The entry is refreshed, the discovered peers are merged, and all is saved.
Remember ==
  /\ MainAt("save")
  /\ LET lists == FoldLeft(RememberedIn, [known |-> known, loop |-> main.list],
                           <<main.peer>> \o DiscoveredPeersSnapshot)
     IN  /\ known' = lists.known
         /\ main' = [at |-> "sync", i |-> main.i, peer |-> main.peer, list |-> lists.loop]
  /\ SaveKnownPeersToFile(known')
  /\ UNCHANGED <<where, table, discovered, candidates, asked>>

\* The chain and the pool are synchronized, and the peers asked for theirs, or
\* not: with -peer the node ends then.
Synchronize ==
  /\ MainAt("sync")
  /\ \/ /\ main.i > 0
        /\ main' = [at |-> "auto", i |-> main.i + 1, list |-> main.list]
     \/ main.i = 0 /\ MainGoes("run")
  /\ asked' \in (IF main.i = 0 THEN {TRUE} ELSE {asked, TRUE})
  /\ UNCHANGED <<where, table, discovered, candidates, known, saved>>

Tick ==
  /\ MainAt("run")
  /\ main' = [at |-> "reconnect", i |-> 1]
  /\ UNCHANGED <<where, table, discovered, candidates, asked, known, saved>>

\* reconnectKnownPeersRuntime: connected peers are skipped, nothing is saved.
Reconnect ==
  /\ MainAt("reconnect")
  /\ IF main.i > Len(known)
     THEN MainGoes("run") /\ UNCHANGED <<table, asked>>
     ELSE /\ main' = [main EXCEPT !.i = @ + 1]
          /\ \/ UNCHANGED <<table, asked>>
             \/ /\ known[main.i].id \notin Connected
                /\ \E id \in Remote : Connects(known[main.i].address, id)
                /\ asked' \in {asked, TRUE}
  /\ UNCHANGED <<where, discovered, candidates, known, saved>>

Ended ==
  /\ MainGoes("off")
  /\ known' = <<>>
  /\ table' = Nowhere
  /\ discovered' = [id \in Remote \cup {Local} |-> NoAddress]
  /\ candidates' = {}
  /\ asked' = FALSE
  /\ UNCHANGED where

Shutdown ==
  /\ MainAt("run")
  /\ SaveKnownPeersToFile(WithDiscovered(known))
  /\ Ended

\* The process is killed, or returns before the list is saved.
NodeEnds == ~MainAt("off") /\ Ended /\ UNCHANGED saved

PeerNext ==
  \/ \E id \in Remote :
       \/ \E peers \in Rumour : ReceivePeers(id, peers)
       \/ AutoConnect(id) \/ Accept(id) \/ Disconnect(id)
       \/ \E address \in PeerAddress \cup {NoAddress} : Relocate(id, address)
  \/ \E flag \in Flag : StartNode(flag)
  \/ AutoPeer \/ FlagPeer \/ Remember \/ Synchronize
  \/ Tick \/ Reconnect \/ Shutdown \/ NodeEnds

PeerSpec == PeerInit /\ [][PeerNext]_peerVars

-----------------------------------------------------------------------------
(***************************************************************************)
(* A save is never refused for what it is given, whoever told what: the    *)
(* list never holds the local node, and no ID twice (filterDiscoveredPeers *)
(* and storePeer keep it out, SaveKnownPeersToFile would return an error   *)
(* for the whole list).                                                    *)
(***************************************************************************)
ListCanBeSaved ==
  LET merged == WithDiscovered(known)
  IN  /\ \A i \in DOMAIN merged : merged[i].id # Local
      /\ \A i, j \in DOMAIN merged : merged[i].id = merged[j].id => i = j

(***************************************************************************)
(* After a restart every saved peer is in the list, and attempts are       *)
(* spread: a network group gets a further one only after every group that  *)
(* has as many peers (LoadKnownPeersFromFile, DiversifiedPeerOrder).       *)
(***************************************************************************)
AttemptsAreSpread ==
  LET list == LoadKnownPeersFromFile
      Count(group, n) ==
        Cardinality({i \in 1..n : PeerNetworkGroup(list[i].address) = group})
      Groups == {PeerNetworkGroup(list[i].address) : i \in DOMAIN list}
  IN  /\ ToSet(list) = ToSet(saved) /\ Len(list) = Len(saved)
      /\ \A n \in DOMAIN list, g, h \in Groups :
           \/ Count(g, n) <= Count(h, n) + 1
           \/ Count(h, n) = Count(h, Len(list))

(***************************************************************************)
(* A peer leaves the file only when another peer has its address there,    *)
(* whichever runs crash and whichever saves fail (rememberKnownPeer,       *)
(* SaveKnownPeersToFile).                                                  *)
(***************************************************************************)
PeersAreKept ==
  [][\A p \in ToSet(saved) :
       \/ \E q \in ToSet(saved') : q.id = p.id
       \/ \E q \in ToSet(saved'), r \in ToSet(WithDiscovered(known)) \cup ToSet(known') :
            r.id = p.id /\ q.address = r.address]_peerVars

(***************************************************************************)
(* What main remembers of a peer it has just connected to is the address   *)
(* of its handshake (main, "Refresh the remembered identity/address using  *)
(* the peer's current handshake information").                             *)
(***************************************************************************)
HandshakeAddressIsKept ==
  MainAt("sync") => main.peer \in ToSet(known)
=============================================================================
