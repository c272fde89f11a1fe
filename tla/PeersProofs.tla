---------------------------- MODULE PeersProofs -----------------------------
(***************************************************************************)
(* The limits of the table of peers and the end of every connection, for   *)
(* any number of connections, nodes and network groups.                    *)
(***************************************************************************)
EXTENDS Peers, FiniteSetTheorems, TLAPS

\* A connection that somebody made and that is not garbage yet.
Made ==
  [shake : {"running", "return", "done"},
   reader : {"none", "reading", "ending", "closing", "done"},
   keeper : {"none", "running", "closing", "done"},
   open : BOOLEAN, inbound : BOOLEAN, id : NodeID, group : NetworkGroup]

TypeOK ==
  /\ listening \in BOOLEAN
  /\ peers \in [NodeID -> Conn \cup {NoConn}]
  /\ conn \in [Conn -> Made \cup {Free}]
  /\ slots \in Int
  /\ tracked \subseteq Conn
  /\ closing \subseteq Conn

Handshakes ==
  {c \in Conn : conn[c].inbound /\ conn[c].shake \in {"running", "return"}}

(***************************************************************************)
(* The table names only connections that are still read, so a connection   *)
(* that becomes garbage, and is made anew for another node, is not in it.  *)
(***************************************************************************)
TableIsRead ==
  \A id \in Connected :
    /\ conn[peers[id]] \in Made
    /\ conn[peers[id]].id = id
    /\ conn[peers[id]].reader \in {"reading", "ending"}

(***************************************************************************)
(* How far a connection is: its goroutines start when its handshake has    *)
(* stored it; one that is open and not yet read is in its handshake, and   *)
(* if inbound Stop can find it; one whose read loop is over is closed.     *)
(***************************************************************************)
Life(c) ==
  /\ conn[c].shake \in {"none", "running"} =>
       conn[c].reader = "none" /\ conn[c].keeper = "none"
  /\ conn[c].open /\ conn[c].reader = "none" =>
       /\ conn[c].shake = "running"
       /\ conn[c].inbound => c \in tracked \cup closing
  /\ conn[c].reader = "done" => ~conn[c].open
  /\ conn[c].open /\ conn[c].reader \in {"reading", "ending"} /\ ~BeingClosed(c) =>
       peers[conn[c].id] = c
  /\ ~listening /\ conn[c].inbound /\ conn[c].open => BeingClosed(c)

(***************************************************************************)
(* The limits, and that the sets they count are finite, since one          *)
(* connection is made at a time.                                           *)
(***************************************************************************)
PeersCounted == IsFiniteSet(Connected) /\ PeerLimits

SlotsCounted == IsFiniteSet(Handshakes) /\ slots = Cardinality(Handshakes)

IInv ==
  /\ TypeOK
  /\ TableIsRead
  /\ \A c \in Conn : Life(c)
  /\ PeersCounted
  /\ SlotsCounted

-----------------------------------------------------------------------------
LEMMA InitInv == Init => IInv
<1> SUFFICES ASSUME Init PROVE IInv
  OBVIOUS
<1>1. TypeOK
  BY PeersAssumption DEF Init, TypeOK
<1>2. Connected = {} /\ Handshakes = {}
  BY DEF Init, Connected, Handshakes, Free
<1>3. TableIsRead
  BY <1>2 DEF TableIsRead
<1>4. \A c \in Conn : Life(c)
  BY DEF Init, Life, Free
<1>5. PeersCounted
  <2>1. \A group \in NetworkGroup :
          {id \in Connected : conn[peers[id]].group = group} = {}
    BY <1>2
  <2> QED
    BY <1>2, <2>1, FS_EmptySet, PeersAssumption DEF PeersCounted, PeerLimits
<1>6. SlotsCounted
  BY <1>2, FS_EmptySet DEF SlotsCounted, Init
<1> QED
  BY <1>1, <1>3, <1>4, <1>5, <1>6 DEF IInv

\* Nodes that leave the table keep it within its limits.
LEMMA TableShrinks ==
  ASSUME PeersCounted, Connected' \subseteq Connected,
         \A id \in Connected' : conn'[peers'[id]].group = conn[peers[id]].group
  PROVE  PeersCounted'
<1>1. /\ IsFiniteSet(Connected)
      /\ Cardinality(Connected) \in Nat
      /\ Cardinality(Connected) <= MaxConnectedPeers
  BY FS_CardinalityType DEF PeersCounted, PeerLimits
<1>2. /\ IsFiniteSet(Connected')
      /\ Cardinality(Connected') \in Nat
      /\ Cardinality(Connected') <= Cardinality(Connected)
  BY <1>1, FS_Subset, FS_CardinalityType
<1>3. ASSUME NEW group \in NetworkGroup
      PROVE  Cardinality({id \in Connected' : conn'[peers'[id]].group = group})
               <= MaxPeersPerNetworkGroup
  <2> DEFINE S == {id \in Connected : conn[peers[id]].group = group}
             T == {id \in Connected' : conn'[peers'[id]].group = group}
  <2>1. T \subseteq S /\ S \subseteq Connected
    OBVIOUS
  <2>2. Cardinality(S) <= MaxPeersPerNetworkGroup
    BY DEF PeersCounted, PeerLimits
  <2> HIDE DEF S, T
  <2>3. IsFiniteSet(S) /\ Cardinality(S) \in Nat
    BY <2>1, <1>1, FS_Subset, FS_CardinalityType
  <2>4. Cardinality(T) \in Nat /\ Cardinality(T) <= Cardinality(S)
    BY <2>1, <2>3, FS_Subset, FS_CardinalityType
  <2>5. Cardinality(T) <= MaxPeersPerNetworkGroup
    BY <2>2, <2>3, <2>4, PeersAssumption
  <2> QED
    BY <2>5 DEF T
<1>4. Cardinality(Connected') <= MaxConnectedPeers
  BY <1>1, <1>2, PeersAssumption
<1> QED
  BY <1>2, <1>3, <1>4 DEF PeersCounted, PeerLimits

(***************************************************************************)
(* A step of one connection: it becomes r, may leave the table, and does   *)
(* not touch what the node keeps of the others.                            *)
(***************************************************************************)
LEMMA StepOfOne ==
  ASSUME TypeOK, TableIsRead, PeersCounted, \A d \in Conn : Life(d),
         NEW c \in Conn, NEW r \in Made \cup {Free},
         conn' = [conn EXCEPT ![c] = r],
         peers' \in [NodeID -> Conn \cup {NoConn}],
         \A id \in NodeID : peers'[id] # peers[id] =>
           peers[id] = c /\ peers'[id] = NoConn,
         \A id \in NodeID : peers'[id] = c =>
           /\ r \in Made
           /\ r.id = conn[c].id /\ r.group = conn[c].group
           /\ r.reader \in {"reading", "ending"},
         listening' = listening, slots' \in Int,
         tracked' \subseteq Conn, closing' \subseteq Conn,
         \A d \in Conn \ {c} : d \in tracked \cup closing => d \in tracked' \cup closing',
         \A d \in Conn \ {c} : d \in closing' <=> d \in closing,
         Life(c)'
  PROVE  TypeOK' /\ TableIsRead' /\ (\A d \in Conn : Life(d)') /\ PeersCounted'
<1>1. TypeOK'
  BY DEF TypeOK
<1>2. conn'[c] = r /\ \A d \in Conn \ {c} : conn'[d] = conn[d]
  BY DEF TypeOK
<1>3. ASSUME NEW id \in Connected'
      PROVE  /\ id \in Connected /\ peers'[id] = peers[id] /\ peers[id] \in Conn
             /\ conn'[peers[id]] \in Made
             /\ conn'[peers[id]].id = id
             /\ conn'[peers[id]].group = conn[peers[id]].group
             /\ conn'[peers[id]].reader \in {"reading", "ending"}
  <2>1. id \in NodeID /\ peers'[id] = peers[id] /\ id \in Connected /\ peers[id] \in Conn
    BY DEF Connected, TypeOK
  <2>2. CASE peers[id] = c
    BY <2>1, <2>2, <1>2 DEF TableIsRead
  <2>3. CASE peers[id] # c
    BY <2>1, <2>3, <1>2 DEF TableIsRead
  <2> QED
    BY <2>2, <2>3
<1>4. TableIsRead'
  BY <1>3 DEF TableIsRead
<1>5. PeersCounted'
  BY <1>3, TableShrinks
<1>6. ASSUME NEW d \in Conn, d # c
      PROVE  Life(d)'
  <2>1. conn'[d] = conn[d] /\ Life(d)
    BY <1>2, <1>6
  <2>2. BeingClosed(d)' <=> BeingClosed(d)
    BY <2>1, <1>6 DEF BeingClosed
  <2>3. \A id \in NodeID : peers[id] = d => peers'[id] = d
    BY <1>6
  <2>4. conn[d].reader # "none" => conn[d].id \in NodeID
    BY DEF TypeOK, Made, Free
  <2> QED
    BY <2>1, <2>2, <2>3, <2>4, <1>6 DEF Life
<1> QED
  BY <1>1, <1>4, <1>5, <1>6

\* A step after which the same inbound handshakes hold the same slots.
LEMMA SlotsKept ==
  ASSUME TypeOK, SlotsCounted, slots' = slots,
         NEW c \in Conn, NEW r, conn' = [conn EXCEPT ![c] = r],
         /\ r.inbound /\ r.shake \in {"running", "return"}
         <=> /\ conn[c].inbound /\ conn[c].shake \in {"running", "return"}
  PROVE  SlotsCounted'
<1>1. Handshakes' = Handshakes
  BY DEF Handshakes, TypeOK
<1> QED
  BY <1>1 DEF SlotsCounted

-----------------------------------------------------------------------------
\* What Settled leaves of a connection.
LEMMA SettledIs ==
  ASSUME NEW r \in Made \cup {Free}
  PROVE  /\ Settled(r) \in Made \cup {Free}
         /\ \/ Settled(r) = r
            \/ /\ Settled(r) = Free /\ ~r.open /\ r.shake = "done"
               /\ r.reader \in {"none", "done"}
BY DEF Settled

\* The lemmas above, for a connection that somebody settles.
LEMMA Settling ==
  ASSUME IInv, NEW c \in Conn, NEW r \in Made, conn[c] \in Made,
         Update(c, r), r.id = conn[c].id, r.group = conn[c].group,
         r.inbound = conn[c].inbound,
         UNCHANGED <<listening, peers>>,
         tracked' \in {tracked, tracked \ {c}},
         conn[c].shake = "running" => tracked' = tracked,
         slots' \in Int, closing' \subseteq Conn,
         \A d \in Conn \ {c} : d \in closing' <=> d \in closing,
         conn[c].reader \in {"reading", "ending"} => r.reader = conn[c].reader,
         r.shake = "running" <=> conn[c].shake = "running",
         r.shake = "running" => r.reader = "none" /\ r.keeper = "none",
         r.reader = "done" => ~r.open,
         r.open =>
           /\ r = [conn[c] EXCEPT !.shake = r.shake, !.keeper = r.keeper]
           /\ conn[c].keeper = "closing" => r.keeper = "closing"
           /\ c \in closing => c \in closing'
  PROVE  TypeOK' /\ TableIsRead' /\ (\A d \in Conn : Life(d)') /\ PeersCounted'
<1> DEFINE s == Settled(r)
<1>1. /\ s \in Made \cup {Free}
      /\ \/ s = r
         \/ s = Free /\ ~r.open /\ r.shake = "done" /\ r.reader \in {"none", "done"}
  BY SettledIs
<1>2. conn' = [conn EXCEPT ![c] = s]
  BY DEF Update
<1> HIDE DEF s
<1>3. conn'[c] = s
  BY <1>2 DEF IInv, TypeOK
<1>4. Life(c)
  BY DEF IInv
<1>5. ASSUME NEW id \in NodeID, peers'[id] = c
      PROVE  /\ s \in Made
             /\ s.id = conn[c].id /\ s.group = conn[c].group
             /\ s.reader \in {"reading", "ending"}
  <2>1. conn[c].reader \in {"reading", "ending"}
    BY <1>5, PeersAssumption DEF IInv, TableIsRead, Connected
  <2> QED
    BY <2>1, <1>1
<1>6. Life(c)'
  <2>1. CASE s = Free
    BY <2>1, <1>3 DEF Life, Free
  <2>2. CASE s = r /\ ~r.open
    BY <2>2, <1>3, <1>4 DEF Life, Made
  <2>3. CASE s = r /\ r.open
    <3>1. /\ r.reader = conn[c].reader /\ r.open = conn[c].open
          /\ r.inbound = conn[c].inbound /\ r.id = conn[c].id
          /\ r.shake # "none"
      BY Zenon, <2>3 DEF Made
    <3>2. BeingClosed(c) => BeingClosed(c)'
      BY <2>3, <3>1, <1>3 DEF BeingClosed
    <3> QED
      BY <2>3, <3>1, <3>2, <1>3, <1>4 DEF Life
  <2> QED
    BY <2>1, <2>2, <2>3, <1>1
<1>7. peers' \in [NodeID -> Conn \cup {NoConn}] /\ tracked' \subseteq Conn
  BY DEF IInv, TypeOK
<1>8. \A d \in Conn \ {c} : d \in tracked \cup closing => d \in tracked' \cup closing'
  OBVIOUS
<1>9. \A id \in NodeID : peers'[id] # peers[id] => peers[id] = c /\ peers'[id] = NoConn
  OBVIOUS
<1>10. TypeOK /\ TableIsRead /\ PeersCounted /\ \A d \in Conn : Life(d)
  BY DEF IInv
<1> QED
  BY Zenon, <1>1, <1>2, <1>5, <1>6, <1>7, <1>8, <1>9, <1>10, StepOfOne

\* A goroutine that runs for a connection runs for one that was made.
LEMMA MadeIfUsed ==
  ASSUME IInv, NEW c \in Conn,
         \/ conn[c].shake # "none" \/ conn[c].reader # "none"
         \/ conn[c].keeper # "none"
  PROVE  conn[c] \in Made
BY DEF IInv, TypeOK, Free

\* A connection that is settled holds its slot as before.
LEMMA SettlingKeepsSlots ==
  ASSUME IInv, NEW c \in Conn, NEW r \in Made, Update(c, r), slots' = slots,
         r.inbound = conn[c].inbound, r.shake = conn[c].shake
  PROVE  SlotsCounted'
<1> DEFINE s == Settled(r)
<1>1. s = r \/ (s = Free /\ r.shake = "done")
  BY SettledIs
<1>2. conn' = [conn EXCEPT ![c] = s]
  BY DEF Update
<1> HIDE DEF s
<1>3. /\ s.inbound /\ s.shake \in {"running", "return"}
      <=> /\ conn[c].inbound /\ conn[c].shake \in {"running", "return"}
  BY <1>1 DEF Free
<1> QED
  BY Zenon, <1>2, <1>3, SlotsKept DEF IInv

LEMMA ReaderClosesStep ==
  ASSUME IInv, NEW c \in Conn, ReaderCloses(c)
  PROVE  IInv'
<1> DEFINE r == [conn[c] EXCEPT !.reader = "done", !.open = FALSE]
<1>1. conn[c] \in Made
  BY MadeIfUsed DEF ReaderCloses
<1>2. /\ r \in Made /\ r.id = conn[c].id /\ r.group = conn[c].group
      /\ r.inbound = conn[c].inbound /\ r.shake = conn[c].shake
      /\ ~r.open /\ r.reader = "done"
      /\ conn[c].reader = "closing" /\ conn[c].shake # "running"
  BY Zenon, <1>1 DEF Made, ReaderCloses, IInv, Life
<1>3. /\ Update(c, r) /\ slots' \in Int /\ closing' \subseteq Conn
      /\ UNCHANGED <<listening, peers, slots, tracked, closing>>
  BY DEF ReaderCloses, IInv, TypeOK
<1> HIDE DEF r
<1>4. SlotsCounted'
  BY <1>2, <1>3, SettlingKeepsSlots
<1>5. TypeOK' /\ TableIsRead' /\ (\A d \in Conn : Life(d)') /\ PeersCounted'
  BY <1>1, <1>2, <1>3, Settling
<1> QED
  BY <1>4, <1>5 DEF IInv

LEMMA KeeperEndsStep ==
  ASSUME IInv, NEW c \in Conn, KeeperEnds(c)
  PROVE  IInv'
<1> DEFINE r == [conn[c] EXCEPT !.keeper = "done"]
<1>1. conn[c] \in Made
  BY MadeIfUsed DEF KeeperEnds
<1>2. /\ r \in Made /\ r.id = conn[c].id /\ r.group = conn[c].group
      /\ r.inbound = conn[c].inbound /\ r.shake = conn[c].shake
      /\ r.open = conn[c].open /\ r.reader = conn[c].reader /\ r.keeper = "done"
      /\ conn[c].keeper = "running" /\ conn[c].shake # "running"
      /\ r = [conn[c] EXCEPT !.shake = r.shake, !.keeper = r.keeper]
  BY Zenon, <1>1 DEF Made, KeeperEnds, IInv, Life
<1>3. /\ Update(c, r) /\ slots' \in Int /\ closing' \subseteq Conn
      /\ UNCHANGED <<listening, peers, slots, tracked, closing>>
  BY DEF KeeperEnds, IInv, TypeOK
<1>4. r.reader = "done" => ~r.open
  BY <1>2 DEF IInv, Life
<1> HIDE DEF r
<1>5. SlotsCounted'
  BY Zenon, <1>2, <1>3, SettlingKeepsSlots
<1>6. TypeOK' /\ TableIsRead' /\ (\A d \in Conn : Life(d)') /\ PeersCounted'
  BY <1>1, <1>2, <1>3, <1>4, Settling
<1> QED
  BY <1>5, <1>6 DEF IInv

LEMMA KeeperClosesStep ==
  ASSUME IInv, NEW c \in Conn, KeeperCloses(c)
  PROVE  IInv'
<1> DEFINE r == [conn[c] EXCEPT !.keeper = "done", !.open = FALSE]
<1>1. conn[c] \in Made
  BY MadeIfUsed DEF KeeperCloses
<1>2. /\ r \in Made /\ r.id = conn[c].id /\ r.group = conn[c].group
      /\ r.inbound = conn[c].inbound /\ r.shake = conn[c].shake
      /\ ~r.open /\ r.reader = conn[c].reader
      /\ conn[c].shake # "running"
  BY Zenon, <1>1 DEF Made, KeeperCloses, IInv, Life
<1>3. /\ Update(c, r) /\ slots' \in Int /\ closing' \subseteq Conn
      /\ UNCHANGED <<listening, peers, slots, tracked, closing>>
  BY DEF KeeperCloses, IInv, TypeOK
<1> HIDE DEF r
<1>4. SlotsCounted'
  BY <1>2, <1>3, SettlingKeepsSlots
<1>5. TypeOK' /\ TableIsRead' /\ (\A d \in Conn : Life(d)') /\ PeersCounted'
  BY <1>1, <1>2, <1>3, Settling
<1> QED
  BY <1>4, <1>5 DEF IInv

LEMMA StopClosesStep ==
  ASSUME IInv, NEW c \in Conn, StopCloses(c)
  PROVE  IInv'
<1> DEFINE r == [conn[c] EXCEPT !.open = FALSE]
<1>1. /\ Update(c, r) /\ slots' \in Int /\ closing' \subseteq Conn
      /\ UNCHANGED <<listening, peers, slots, tracked>>
      /\ \A d \in Conn \ {c} : d \in closing' <=> d \in closing
  BY DEF StopCloses, IInv, TypeOK
<1>2. CASE conn[c] \in Made
  <2>1. /\ r \in Made /\ r.id = conn[c].id /\ r.group = conn[c].group
        /\ r.inbound = conn[c].inbound /\ r.shake = conn[c].shake
        /\ ~r.open /\ r.reader = conn[c].reader /\ r.keeper = conn[c].keeper
    BY Zenon, <1>2 DEF Made
  <2>2. r.shake = "running" => r.reader = "none" /\ r.keeper = "none"
    BY <2>1 DEF IInv, Life
  <2> HIDE DEF r
  <2>3. SlotsCounted'
    BY <1>1, <2>1, SettlingKeepsSlots
  <2>4. TypeOK' /\ TableIsRead' /\ (\A d \in Conn : Life(d)') /\ PeersCounted'
    BY <1>1, <1>2, <2>1, <2>2, Settling
  <2> QED
    BY <2>3, <2>4 DEF IInv
<1>3. CASE conn[c] = Free
  <2>0. r = Free
    <3>1. /\ conn[c] = [field \in {"shake", "reader", "keeper", "open", "inbound"} |->
                          conn[c][field]]
          /\ conn[c]["open"] = FALSE
      BY <1>3 DEF Free
    <3> QED
      BY Zenon, <1>3, <3>1
  <2>1. r = Free /\ Settled(r) = Free
    BY <2>0 DEF Settled
  <2>2. conn' = [conn EXCEPT ![c] = Free]
    BY Zenon, <1>1, <2>1 DEF Update
  <2>3. conn' = conn
    BY <2>2, <1>3 DEF IInv, TypeOK
  <2>4. SlotsCounted'
    BY <2>3, <1>1 DEF IInv, SlotsCounted, Handshakes
  <2>5. PeersCounted' /\ TableIsRead' /\ TypeOK'
    BY <2>3, <1>1 DEF IInv, PeersCounted, PeerLimits, TableIsRead, Connected, TypeOK
  <2>6. ASSUME NEW d \in Conn PROVE Life(d)'
    BY <2>3, <1>1, <1>3 DEF IInv, Life, Free, BeingClosed
  <2> QED
    BY <2>4, <2>5, <2>6 DEF IInv
<1> QED
  BY <1>2, <1>3 DEF IInv, TypeOK

LEMMA HandshakeReturnsStep ==
  ASSUME IInv, NEW c \in Conn, HandshakeReturns(c)
  PROVE  IInv'
<1> DEFINE r == [conn[c] EXCEPT !.shake = "done"]
           s == Settled(r)
<1>1. conn[c] \in Made
  BY MadeIfUsed DEF HandshakeReturns
<1>2. /\ r \in Made /\ r.id = conn[c].id /\ r.group = conn[c].group
      /\ r.inbound = conn[c].inbound /\ r.shake = "done"
      /\ r.open = conn[c].open /\ r.reader = conn[c].reader /\ r.keeper = conn[c].keeper
      /\ conn[c].shake = "return" /\ conn[c].inbound \in BOOLEAN
      /\ r = [conn[c] EXCEPT !.shake = r.shake, !.keeper = r.keeper]
  BY Zenon, <1>1 DEF Made, HandshakeReturns
<1>3. /\ Update(c, r) /\ slots' \in Int /\ closing' \subseteq Conn
      /\ UNCHANGED <<listening, peers, closing>>
      /\ tracked' = tracked \ {c}
      /\ slots' = IF conn[c].inbound THEN slots - 1 ELSE slots
  BY DEF HandshakeReturns, IInv, TypeOK
<1>4. r.reader = "done" => ~r.open
  BY <1>2 DEF IInv, Life
<1>5. s.shake \in {"none", "done"}
  BY <1>2 DEF Settled, Free
<1>6. conn' = [conn EXCEPT ![c] = s]
  BY <1>3 DEF Update
<1> HIDE DEF r, s
<1>7. SlotsCounted'
  <2>1. conn'[c] = s /\ \A d \in Conn \ {c} : conn'[d] = conn[d]
    BY <1>6 DEF IInv, TypeOK
  <2>2. IsFiniteSet(Handshakes) /\ slots = Cardinality(Handshakes)
    BY DEF IInv, SlotsCounted
  <2>3. CASE conn[c].inbound
    <3>1. Handshakes' = Handshakes \ {c} /\ c \in Handshakes
      BY <1>2, <1>5, <2>1, <2>3 DEF Handshakes
    <3> QED
      BY <1>3, <2>2, <2>3, <3>1, FS_RemoveElement DEF SlotsCounted
  <2>4. CASE ~conn[c].inbound
    <3>1. Handshakes' = Handshakes
      BY <1>5, <2>1, <2>4 DEF Handshakes
    <3> QED
      BY <1>3, <2>2, <2>4, <3>1 DEF SlotsCounted
  <2> QED
    BY <2>3, <2>4
<1>8. TypeOK' /\ TableIsRead' /\ (\A d \in Conn : Life(d)') /\ PeersCounted'
  BY <1>1, <1>2, <1>3, <1>4, Settling
<1> QED
  BY <1>7, <1>8 DEF IInv

\* A step of one connection that makes no slot free and takes none.
LEMMA StepInPlace ==
  ASSUME IInv, NEW c \in Conn, NEW r \in Made, conn[c] \in Made,
         conn' = [conn EXCEPT ![c] = r],
         r.id = conn[c].id, r.group = conn[c].group, r.inbound = conn[c].inbound,
         r.shake \in {"running", "return"} <=> conn[c].shake \in {"running", "return"},
         peers' \in [NodeID -> Conn \cup {NoConn}],
         \A id \in NodeID : peers'[id] # peers[id] =>
           peers[id] = c /\ peers'[id] = NoConn,
         \A id \in NodeID : peers'[id] = c => r.reader \in {"reading", "ending"},
         UNCHANGED <<listening, slots, tracked, closing>>,
         Life(c)'
  PROVE  IInv'
<1>1. SlotsCounted'
  BY Zenon, SlotsKept DEF IInv
<1>2. slots' \in Int /\ tracked' \subseteq Conn /\ closing' \subseteq Conn
  BY DEF IInv, TypeOK
<1>3. TypeOK' /\ TableIsRead' /\ (\A d \in Conn : Life(d)') /\ PeersCounted'
  BY Zenon, <1>2, StepOfOne DEF IInv
<1> QED
  BY <1>1, <1>3 DEF IInv

\* A handshake that ends without a peer: it failed, or storePeer refused it.
LEMMA RefusedStep ==
  ASSUME IInv, NEW c \in Conn, conn[c].shake = "running",
         conn' = [conn EXCEPT ![c].shake = "return", ![c].open = FALSE],
         UNCHANGED <<listening, peers, slots, tracked, closing>>
  PROVE  IInv'
<1> DEFINE r == [conn[c] EXCEPT !.shake = "return", !.open = FALSE]
<1>1. conn[c] \in Made
  BY MadeIfUsed
<1>2. /\ r \in Made /\ r.id = conn[c].id /\ r.group = conn[c].group
      /\ r.inbound = conn[c].inbound /\ r.shake = "return" /\ ~r.open
      /\ r.reader = conn[c].reader /\ r.keeper = conn[c].keeper
  BY Zenon, <1>1 DEF Made
<1>3. conn' = [conn EXCEPT ![c] = r]
  BY Zenon DEF IInv, TypeOK
<1> HIDE DEF r
<1>4. conn'[c] = r
  BY Zenon, <1>3 DEF IInv, TypeOK
<1>5. \A id \in NodeID : peers'[id] = c => r.reader \in {"reading", "ending"}
  BY <1>2, PeersAssumption DEF IInv, TableIsRead, Connected
<1>6. Life(c)'
  BY <1>2, <1>4 DEF IInv, Life
<1>7. peers' \in [NodeID -> Conn \cup {NoConn}]
  BY DEF IInv, TypeOK
<1> QED
  BY Zenon, <1>1, <1>2, <1>3, <1>5, <1>6, <1>7, StepInPlace

\* The read loop ends: on an error, or because the peer is punished.
LEMMA LoopEndsStep ==
  ASSUME IInv, NEW c \in Conn, NEW open \in BOOLEAN, conn[c].reader = "reading",
         open => conn[c].open,
         conn' = [conn EXCEPT ![c] = [conn[c] EXCEPT !.reader = "ending", !.open = open]],
         UNCHANGED <<listening, peers, slots, tracked, closing>>
  PROVE  IInv'
<1> DEFINE r == [conn[c] EXCEPT !.reader = "ending", !.open = open]
<1>1. conn[c] \in Made
  BY MadeIfUsed
<1>2. /\ r \in Made /\ r.id = conn[c].id /\ r.group = conn[c].group
      /\ r.inbound = conn[c].inbound /\ r.shake = conn[c].shake
      /\ r.open = open /\ r.reader = "ending" /\ r.keeper = conn[c].keeper
      /\ conn[c].open \in BOOLEAN
  BY Zenon, <1>1 DEF Made
<1>3. conn' = [conn EXCEPT ![c] = r]
  OBVIOUS
<1> HIDE DEF r
<1>4. conn'[c] = r
  BY <1>3 DEF IInv, TypeOK
<1>5. Life(c) /\ (BeingClosed(c) => BeingClosed(c)')
  BY <1>2, <1>4 DEF IInv, BeingClosed
<1>6. Life(c)'
  BY <1>2, <1>4, <1>5 DEF Life
<1>7. peers' \in [NodeID -> Conn \cup {NoConn}]
  BY DEF IInv, TypeOK
<1> QED
  BY Zenon, <1>1, <1>2, <1>3, <1>6, <1>7, StepInPlace

\* The reader or the keeper takes the connection out of the table, if it is
\* the one there, before closing it.
LEMMA RemovalStep ==
  ASSUME IInv, NEW c \in Conn, NEW r \in Made, conn[c] \in Made,
         conn' = [conn EXCEPT ![c] = r], peers' = removePeerConnection(c),
         r.id = conn[c].id, r.group = conn[c].group, r.inbound = conn[c].inbound,
         r.shake = conn[c].shake, r.open = conn[c].open,
         r.reader \in {conn[c].reader, "closing"},
         r.keeper \in {conn[c].keeper, "closing"},
         r.reader = "closing" \/ r.keeper = "closing",
         conn[c].shake # "running",
         UNCHANGED <<listening, slots, tracked, closing>>
  PROVE  IInv'
<1>1. conn'[c] = r /\ conn[c].id \in NodeID
  BY DEF IInv, TypeOK, Made
<1>2. /\ peers' \in [NodeID -> Conn \cup {NoConn}]
      /\ \A id \in NodeID : peers'[id] # peers[id] =>
           peers[id] = c /\ peers'[id] = NoConn
      /\ peers'[conn[c].id] # c
  BY <1>1, PeersAssumption DEF IInv, TypeOK, removePeerConnection
<1>3. ASSUME NEW id \in NodeID, peers'[id] = c PROVE FALSE
  <2>1. peers[id] = c /\ id \in Connected
    BY <1>2, <1>3, PeersAssumption DEF Connected
  <2> QED
    BY <2>1, <1>2, <1>3 DEF IInv, TableIsRead
<1>4. BeingClosed(c)'
  BY <1>1 DEF BeingClosed
<1>5. Life(c)'
  BY <1>1, <1>4 DEF IInv, Life, Made
<1> QED
  BY Zenon, <1>2, <1>3, <1>5, StepInPlace

LEMMA ReaderRemovesStep ==
  ASSUME IInv, NEW c \in Conn, ReaderRemoves(c)
  PROVE  IInv'
<1> DEFINE r == [conn[c] EXCEPT !.reader = "closing"]
<1>1. conn[c] \in Made
  BY MadeIfUsed DEF ReaderRemoves
<1>2. /\ r \in Made /\ r.id = conn[c].id /\ r.group = conn[c].group
      /\ r.inbound = conn[c].inbound /\ r.shake = conn[c].shake
      /\ r.open = conn[c].open /\ r.reader = "closing" /\ r.keeper = conn[c].keeper
  BY <1>1 DEF Made
<1>3. conn' = [conn EXCEPT ![c] = r]
  BY DEF IInv, TypeOK, ReaderRemoves
<1>4. conn[c].shake # "running"
  BY DEF IInv, Life, ReaderRemoves
<1>5. peers' = removePeerConnection(c) /\ UNCHANGED <<listening, slots, tracked, closing>>
  BY DEF ReaderRemoves
<1> HIDE DEF r
<1> QED
  BY Zenon, <1>1, <1>2, <1>3, <1>4, <1>5, RemovalStep

LEMMA KeeperRemovesStep ==
  ASSUME IInv, NEW c \in Conn, KeeperRemoves(c)
  PROVE  IInv'
<1> DEFINE r == [conn[c] EXCEPT !.keeper = "closing"]
<1>1. conn[c] \in Made
  BY MadeIfUsed DEF KeeperRemoves
<1>2. /\ r \in Made /\ r.id = conn[c].id /\ r.group = conn[c].group
      /\ r.inbound = conn[c].inbound /\ r.shake = conn[c].shake
      /\ r.open = conn[c].open /\ r.reader = conn[c].reader /\ r.keeper = "closing"
  BY <1>1 DEF Made
<1>3. conn' = [conn EXCEPT ![c] = r]
  BY DEF IInv, TypeOK, KeeperRemoves
<1>4. conn[c].shake # "running"
  BY DEF IInv, Life, KeeperRemoves
<1>5. peers' = removePeerConnection(c) /\ UNCHANGED <<listening, slots, tracked, closing>>
  BY DEF KeeperRemoves
<1> HIDE DEF r
<1> QED
  BY Zenon, <1>1, <1>2, <1>3, <1>4, <1>5, RemovalStep

LEMMA StopStep ==
  ASSUME IInv, Stop
  PROVE  IInv'
<1>1. /\ listening' = FALSE /\ tracked' = {}
      /\ closing' = closing \cup {peers[id] : id \in Connected} \cup tracked
      /\ peers' = [id \in NodeID |-> NoConn]
      /\ conn' = conn /\ slots' = slots
  BY DEF Stop
<1>2. Connected' = {}
  BY <1>1 DEF Connected
<1>3. TypeOK' /\ TableIsRead'
  <2>1. closing' \subseteq Conn
    BY <1>1 DEF IInv, TypeOK, Connected
  <2>2. peers' \in [NodeID -> Conn \cup {NoConn}]
    BY <1>1
  <2> QED
    BY Zenon, <1>1, <1>2, <2>1, <2>2 DEF IInv, TypeOK, TableIsRead
<1>4. PeersCounted'
  BY <1>2, TableShrinks DEF IInv
<1>5. SlotsCounted'
  BY <1>1 DEF IInv, SlotsCounted, Handshakes
<1>6. ASSUME NEW c \in Conn PROVE Life(c)'
  <2>1. Life(c) /\ conn'[c] = conn[c] /\ (BeingClosed(c) => BeingClosed(c)')
    BY <1>1 DEF IInv, BeingClosed
  <2>2. conn[c] \in Made \cup {Free}
    BY DEF IInv, TypeOK
  <2>3. c \in tracked \cup closing => BeingClosed(c)' /\ c \in closing'
    BY <1>1 DEF BeingClosed
  <2>4. conn[c].open /\ conn[c].reader \in {"reading", "ending"} => BeingClosed(c)'
    <3> SUFFICES ASSUME conn[c].open, conn[c].reader \in {"reading", "ending"},
                        ~BeingClosed(c)
                 PROVE  c \in closing'
      BY <2>1 DEF BeingClosed
    <3>1. peers[conn[c].id] = c /\ conn[c].id \in NodeID
      BY <2>1, <2>2 DEF Life, Made, Free
    <3>2. conn[c].id \in Connected
      BY <3>1, PeersAssumption DEF Connected
    <3> QED
      BY <1>1, <3>1, <3>2
  <2>5. conn[c].reader = "closing" => BeingClosed(c)'
    BY <2>1 DEF BeingClosed
  <2>6. conn[c].reader \in {"none", "reading", "ending", "closing", "done"}
    BY <2>2 DEF Made, Free
  <2> QED
    BY <2>1, <2>3, <2>4, <2>5, <2>6, <1>1 DEF Life
<1> QED
  BY <1>3, <1>4, <1>5, <1>6 DEF IInv

LEMMA StartStep ==
  ASSUME IInv, Start
  PROVE  IInv'
<1>1. listening' = TRUE /\ UNCHANGED <<peers, conn, slots, tracked, closing>>
  BY DEF Start
<1>2. TypeOK' /\ TableIsRead'
  BY <1>1 DEF IInv, TypeOK, TableIsRead, Connected
<1>3. PeersCounted' /\ SlotsCounted'
  BY <1>1 DEF IInv, PeersCounted, PeerLimits, Connected, SlotsCounted, Handshakes
<1>4. ASSUME NEW c \in Conn PROVE Life(c)'
  BY <1>1 DEF IInv, Life, BeingClosed
<1> QED
  BY <1>2, <1>3, <1>4 DEF IInv

-----------------------------------------------------------------------------
\* What a new connection may be made of, and that the table does not have it.
LEMMA NewIs ==
  ASSUME IInv, NEW c \in Conn, conn[c] = Free, NEW id \in NodeID,
         NEW group \in NetworkGroup, NEW direction
  PROVE  /\ New(direction, id, group) \in Made
         /\ New(direction, id, group).shake = "running"
         /\ New(direction, id, group).reader = "none"
         /\ New(direction, id, group).keeper = "none"
         /\ New(direction, id, group).open
         /\ New(direction, id, group).inbound <=> direction = "inbound"
         /\ \A n \in NodeID : peers[n] # c
<1>1. Free \notin Made
  BY DEF Free, Made
<1>2. \A n \in NodeID : peers[n] # c
  BY <1>1, PeersAssumption DEF IInv, TableIsRead, Connected
<1> QED
  BY Zenon, <1>2 DEF New, Made

LEMMA ConnectStep ==
  ASSUME IInv, NEW c \in Conn, NEW id \in NodeID, NEW group \in NetworkGroup,
         Connect(c, id, group)
  PROVE  IInv'
<1> DEFINE r == New("outbound", id, group)
<1>1. /\ conn[c] = Free /\ conn' = [conn EXCEPT ![c] = r]
      /\ UNCHANGED <<listening, peers, slots, tracked, closing>>
  BY DEF Connect
<1>2. /\ r \in Made /\ r.shake = "running" /\ r.reader = "none"
      /\ r.keeper = "none" /\ r.open /\ ~r.inbound
      /\ \A n \in NodeID : peers'[n] # c
  BY <1>1, NewIs
<1> HIDE DEF r
<1>3. conn'[c] = r
  BY <1>1 DEF IInv, TypeOK
<1>4. Life(c)'
  BY <1>2, <1>3 DEF Life
<1>5. SlotsCounted'
  <2>1. ~conn[c].inbound
    BY <1>1 DEF Free
  <2> QED
    BY Zenon, <1>1, <1>2, <2>1, SlotsKept DEF IInv
<1>6. /\ slots' \in Int /\ tracked' \subseteq Conn /\ closing' \subseteq Conn
      /\ peers' \in [NodeID -> Conn \cup {NoConn}]
  BY <1>1 DEF IInv, TypeOK
<1>7. TypeOK' /\ TableIsRead' /\ (\A d \in Conn : Life(d)') /\ PeersCounted'
  BY Zenon, <1>1, <1>2, <1>4, <1>6, StepOfOne DEF IInv
<1> QED
  BY <1>5, <1>7 DEF IInv

LEMMA AcceptStep ==
  ASSUME IInv, NEW c \in Conn, NEW id \in NodeID, NEW group \in NetworkGroup,
         Accept(c, id, group)
  PROVE  IInv'
<1> DEFINE r == New("inbound", id, group)
<1>1. /\ conn[c] = Free /\ conn' = [conn EXCEPT ![c] = r]
      /\ listening /\ slots' = slots + 1 /\ tracked' = tracked \cup {c}
      /\ UNCHANGED <<listening, peers, closing>>
  BY DEF Accept
<1>2. /\ r \in Made /\ r.shake = "running" /\ r.reader = "none"
      /\ r.keeper = "none" /\ r.open /\ r.inbound
      /\ \A n \in NodeID : peers'[n] # c
  BY <1>1, NewIs
<1> HIDE DEF r
<1>3. conn'[c] = r /\ \A d \in Conn \ {c} : conn'[d] = conn[d]
  BY <1>1 DEF IInv, TypeOK
<1>4. Life(c)'
  BY <1>1, <1>2, <1>3 DEF Life
<1>5. SlotsCounted'
  <2>1. Handshakes' = Handshakes \cup {c} /\ c \notin Handshakes
    BY <1>1, <1>2, <1>3 DEF Handshakes, Free
  <2> QED
    BY <1>1, <2>1, FS_AddElement DEF IInv, SlotsCounted
<1>6. /\ slots' \in Int /\ tracked' \subseteq Conn /\ closing' \subseteq Conn
      /\ peers' \in [NodeID -> Conn \cup {NoConn}]
  BY <1>1 DEF IInv, TypeOK
<1>7. TypeOK' /\ TableIsRead' /\ (\A d \in Conn : Life(d)') /\ PeersCounted'
  BY Zenon, <1>1, <1>2, <1>4, <1>6, StepOfOne DEF IInv
<1> QED
  BY <1>5, <1>7 DEF IInv

\* A connection that the policy admits enters the table.
LEMMA AdmittedStep ==
  ASSUME IInv, NEW c \in Conn, NEW r \in Made, NEW n \in NodeID,
         conn[c] \in Made, conn[c].reader = "none", conn[c].keeper = "none",
         conn[c].shake = "running",
         r.id = n, r.inbound = conn[c].inbound, r.open = conn[c].open,
         r.shake = "return", r.reader = "reading", r.keeper = "running",
         peers[n] = NoConn, Cardinality(Connected) < MaxConnectedPeers,
         Cardinality({id \in Connected : conn[peers[id]].group = r.group})
           < MaxPeersPerNetworkGroup,
         conn' = [conn EXCEPT ![c] = r],
         peers' = [peers EXCEPT ![n] = c],
         UNCHANGED <<listening, slots, tracked, closing>>
  PROVE  IInv'
<1>1. conn'[c] = r /\ \A d \in Conn \ {c} : conn'[d] = conn[d]
  BY DEF IInv, TypeOK
<1>2. /\ peers' \in [NodeID -> Conn \cup {NoConn}]
      /\ peers'[n] = c /\ \A id \in NodeID \ {n} : peers'[id] = peers[id]
  BY DEF IInv, TypeOK
<1>3. TypeOK'
  <2>1. conn' \in [Conn -> Made \cup {Free}]
    BY DEF IInv, TypeOK
  <2> QED
    BY <1>2, <2>1 DEF IInv, TypeOK
<1>4. \A id \in Connected : peers[id] # c /\ id # n /\ peers[id] \in Conn
  BY DEF IInv, TypeOK, TableIsRead, Connected
<1>5. Connected' = Connected \cup {n} /\ n \notin Connected
  BY <1>2, PeersAssumption DEF Connected
<1>6. \A id \in Connected : peers'[id] = peers[id] /\ conn'[peers'[id]] = conn[peers[id]]
  BY <1>1, <1>2, <1>4 DEF Connected
<1>7. TableIsRead'
  <2> SUFFICES ASSUME NEW id \in Connected'
               PROVE  /\ conn'[peers'[id]] \in Made
                      /\ conn'[peers'[id]].id = id
                      /\ conn'[peers'[id]].reader \in {"reading", "ending"}
    BY DEF TableIsRead
  <2>1. CASE id = n
    BY <1>1, <1>2, <2>1
  <2>2. CASE id \in Connected
    BY <1>6, <2>2 DEF IInv, TableIsRead
  <2> QED
    BY <1>5, <2>1, <2>2
<1>8. PeersCounted'
  <2>1. /\ IsFiniteSet(Connected) /\ IsFiniteSet(Connected')
        /\ Cardinality(Connected) \in Nat
        /\ Cardinality(Connected') = Cardinality(Connected) + 1
    BY <1>5, FS_AddElement, FS_CardinalityType DEF IInv, PeersCounted
  <2>2. ASSUME NEW group \in NetworkGroup
        PROVE  Cardinality({id \in Connected' : conn'[peers'[id]].group = group})
                 <= MaxPeersPerNetworkGroup
    <3> DEFINE S == {id \in Connected : conn[peers[id]].group = group}
               T == {id \in Connected' : conn'[peers'[id]].group = group}
    <3>1. Cardinality(S) <= MaxPeersPerNetworkGroup
      BY DEF IInv, PeersCounted, PeerLimits
    <3>2. S \subseteq Connected
      OBVIOUS
    <3>3. CASE group = r.group
      <4>1. T = S \cup {n} /\ n \notin S
        BY <1>1, <1>2, <1>5, <1>6, <3>3
      <4>2. Cardinality(S) < MaxPeersPerNetworkGroup
        BY <3>3
      <4> HIDE DEF S, T
      <4>3. IsFiniteSet(S) /\ Cardinality(S) \in Nat
        BY <2>1, <3>2, FS_Subset, FS_CardinalityType
      <4>4. Cardinality(T) = Cardinality(S) + 1
        BY Zenon, <4>1, <4>3, FS_AddElement
      <4>5. Cardinality(T) <= MaxPeersPerNetworkGroup
        BY <4>2, <4>3, <4>4, PeersAssumption
      <4> QED
        BY <4>5 DEF T
    <3>4. CASE group # r.group
      <4>1. T = S
        <5>1. n \notin T
          BY <1>1, <1>2, <3>4
        <5>2. \A id \in Connected : id \in T <=> id \in S
          BY <1>5, <1>6
        <5> QED
          BY <1>5, <5>1, <5>2
      <4> QED
        BY Zenon, <3>1, <4>1
    <3> QED
      BY <3>3, <3>4
  <2>3. Cardinality(Connected') <= MaxConnectedPeers
    BY <2>1, PeersAssumption
  <2> QED
    BY <2>1, <2>2, <2>3 DEF PeersCounted, PeerLimits
<1>9. SlotsCounted'
  BY Zenon, SlotsKept DEF IInv
<1>10. ASSUME NEW d \in Conn PROVE Life(d)'
  <2>1. CASE d = c
    BY <2>1, <1>1, <1>2 DEF IInv, Life, BeingClosed
  <2>2. CASE d # c
    <3>1. conn'[d] = conn[d] /\ Life(d) /\ (BeingClosed(d)' <=> BeingClosed(d))
      BY <1>1, <2>2 DEF IInv, BeingClosed
    <3>2. \A id \in NodeID : peers[id] = d => peers'[id] = d
      BY <1>2, PeersAssumption
    <3>3. conn[d].reader # "none" => conn[d].id \in NodeID
      BY DEF IInv, TypeOK, Made, Free
    <3> QED
      BY <3>1, <3>2, <3>3 DEF Life
  <2> QED
    BY <2>1, <2>2
<1> QED
  BY <1>3, <1>7, <1>8, <1>9, <1>10 DEF IInv

LEMMA StorePeerStep ==
  ASSUME IInv, NEW c \in Conn, StorePeer(c)
  PROVE  IInv'
<1>1. conn[c] \in Made /\ conn[c].shake = "running"
  BY MadeIfUsed DEF StorePeer
<1>2. UNCHANGED <<listening, slots, tracked, closing>>
  BY DEF StorePeer
<1>3. CASE canStorePeer(c)
  <2> DEFINE r == [conn[c] EXCEPT !.shake = "return", !.reader = "reading",
                                  !.keeper = "running"]
             n == conn[c].id
  <2>1. /\ r \in Made /\ n \in NodeID /\ r.id = n /\ r.group = conn[c].group
        /\ r.inbound = conn[c].inbound /\ r.open = conn[c].open
        /\ r.shake = "return" /\ r.reader = "reading" /\ r.keeper = "running"
        /\ conn[c].reader = "none" /\ conn[c].keeper = "none"
    BY Zenon, <1>1 DEF Made, IInv, Life
  <2>2. conn' = [conn EXCEPT ![c] = r] /\ peers' = [peers EXCEPT ![n] = c]
    BY Zenon, <1>3 DEF IInv, TypeOK, StorePeer
  <2>3. /\ peers[n] = NoConn /\ Cardinality(Connected) < MaxConnectedPeers
        /\ Cardinality({id \in Connected : conn[peers[id]].group = r.group})
             < MaxPeersPerNetworkGroup
    BY <1>3, <2>1 DEF canStorePeer
  <2> HIDE DEF r, n
  <2> QED
    BY Zenon, <1>1, <1>2, <2>1, <2>2, <2>3, AdmittedStep
<1>4. CASE ~canStorePeer(c)
  BY <1>1, <1>2, <1>4, RefusedStep DEF StorePeer
<1> QED
  BY <1>3, <1>4

LEMMA ReadInvalidStep ==
  ASSUME IInv, NEW c \in Conn, NEW amount \in Penalty, ReadInvalid(c, amount)
  PROVE  IInv'
<1>1. conn[c].reader = "reading" /\ UNCHANGED <<listening, peers, slots, tracked, closing>>
  BY DEF ReadInvalid
<1>2. CASE conn' = [conn EXCEPT ![c].open = FALSE, ![c].reader = "ending"]
  <2>1. conn' = [conn EXCEPT ![c] = [conn[c] EXCEPT !.reader = "ending", !.open = FALSE]]
    BY Zenon, <1>2 DEF IInv, TypeOK
  <2> QED
    BY <1>1, <2>1, LoopEndsStep
<1>3. CASE conn' = conn
  BY <1>1, <1>3 DEF IInv, TypeOK, TableIsRead, PeersCounted, PeerLimits, Connected,
                    SlotsCounted, Handshakes, Life, BeingClosed
<1> QED
  BY <1>2, <1>3 DEF ReadInvalid

LEMMA ReadErrorStep ==
  ASSUME IInv, NEW c \in Conn, ReadError(c)
  PROVE  IInv'
<1>1. conn[c].reader = "reading" /\ UNCHANGED <<listening, peers, slots, tracked, closing>>
  BY DEF ReadError
<1>2. conn[c] \in Made
  BY <1>1, MadeIfUsed
<1>3. conn[c].open \in BOOLEAN
  BY <1>2 DEF Made
<1>4. [conn[c] EXCEPT !.reader = "ending", !.open = conn[c].open]
        = [conn[c] EXCEPT !.reader = "ending"]
  BY Zenon, <1>2 DEF Made
<1>5. conn' = [conn EXCEPT ![c] =
                 [conn[c] EXCEPT !.reader = "ending", !.open = conn[c].open]]
  BY Zenon, <1>4 DEF IInv, TypeOK, ReadError
<1> QED
  BY <1>1, <1>3, <1>5, LoopEndsStep

-----------------------------------------------------------------------------
\* What the invariant says of a state.
LEMMA InvImplies ==
  IInv => LimitsAreExact /\ NoLeakedConnection /\ StopReachesInbound
BY DEF IInv, PeersCounted, SlotsCounted, Handshakes, LimitsAreExact, SlotsAreExact,
       Life, NoLeakedConnection, StopReachesInbound

LEMMA NextInv ==
  ASSUME IInv, [Next]_vars
  PROVE  IInv'
<1>1. ASSUME NEW c \in Conn, Handshake(c) PROVE IInv'
  <2>1. CASE StorePeer(c)
    BY <2>1, StorePeerStep
  <2>2. CASE HandshakeFails(c)
    BY Zenon, <2>2, RefusedStep DEF HandshakeFails
  <2>3. CASE HandshakeReturns(c)
    BY <2>3, HandshakeReturnsStep
  <2> QED
    BY <1>1, <2>1, <2>2, <2>3 DEF Handshake
<1>2. ASSUME NEW c \in Conn, ReadValid(c) PROVE IInv'
  BY <1>2 DEF ReadValid, IInv, TypeOK, TableIsRead, PeersCounted, PeerLimits,
              Connected, SlotsCounted, Handshakes, Life, BeingClosed
<1>3. ASSUME NEW c \in Conn, Reader(c) PROVE IInv'
  BY <1>3, ReaderRemovesStep, ReaderClosesStep DEF Reader
<1>4. ASSUME NEW c \in Conn, Keeper(c) PROVE IInv'
  BY <1>4, KeeperEndsStep, KeeperRemovesStep, KeeperClosesStep DEF Keeper
<1>5. CASE UNCHANGED vars
  BY <1>5 DEF vars, IInv, TypeOK, TableIsRead, PeersCounted, PeerLimits,
              Connected, SlotsCounted, Handshakes, Life, BeingClosed
<1> QED
  BY <1>1, <1>2, <1>3, <1>4, <1>5, AcceptStep, ConnectStep, ReadInvalidStep,
     ReadErrorStep, StopClosesStep, StartStep, StopStep DEF Next

LEMMA IInvAlways == Spec => []IInv
BY InitInv, NextInv, PTL DEF Spec

(***************************************************************************)
(* However the goroutines of the connections interleave, the table keeps   *)
(* its limits and the slots taken are those of the inbound handshakes      *)
(* (canStorePeerLocked, releaseInboundHandshake).                          *)
(***************************************************************************)
THEOREM LimitsKept == Spec => []LimitsAreExact
BY IInvAlways, InvImplies, PTL

(***************************************************************************)
(* No connection that is read is lost by the table, although the old       *)
(* connection of a peer may end after the new one was stored               *)
(* (removePeerConnection).                                                 *)
(***************************************************************************)
THEOREM NothingLeaks == Spec => []NoLeakedConnection
BY IInvAlways, InvImplies, PTL

(***************************************************************************)
(* Stop leaves no inbound connection open that nobody closes (Stop).       *)
(***************************************************************************)
THEOREM StopIsComplete == Spec => []StopReachesInbound
BY IInvAlways, InvImplies, PTL
=============================================================================
