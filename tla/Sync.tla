-------------------------------- MODULE Sync --------------------------------
(***************************************************************************)
(* SyncFromPeer (p2p/sync_handler.go): the chain of a peer is downloaded   *)
(* in batches into a candidate, checked against what the peer advertised   *)
(* at the handshake, and adopted if it beats the local chain.              *)
(*                                                                         *)
(* All requests share one channel with room for one batch.  A request      *)
(* holds syncRequestMu until its answer or its timeout; the read loop of a *)
(* peer tells by TryLock whether somebody waits (p2p/sync_abuse.go).       *)
(* Nothing in a batch says which request it answers: it may come late,     *)
(* from a peer that was asked before, or after that peer reorganized.      *)
(***************************************************************************)
EXTENDS Replay

CONSTANTS
  Peer, Syncer,          \* read loops, and calls of SyncFromPeer
  NoOwner,
  PeerChain,             \* chains that peers may have
  LocalBlock,            \* blocks that reach this node otherwise
  MaxBlocksPerMessage,
  MaxAutomaticReorgDepth,
  MaxInFlight            \* bound: requests and answers on one connection

ASSUME SyncAssumption ==
  /\ MaxBlocksPerMessage \in Nat \ {0}
  /\ NoOwner \notin Peer \cup Syncer
  /\ Peer \cap Syncer = {}

VARIABLES
  chain,       \* of this node
  remote,      \* the chain of each peer
  advertised,  \* peer.Info of each connection
  requests,    \* on the way to each peer
  answers,     \* on the way back
  response,    \* blocksResponse: at most one batch
  lock,        \* the owner of syncRequestMu
  syncer,      \* where each synchronization is
  loop         \* where each read loop is

network == <<remote, advertised, requests, answers>>
vars == <<chain, network, response, lock, syncer, loop>>

Idle == [at |-> "idle"]

Status(c) == [height |-> Len(c), tip |-> TipHash(c), work |-> TotalWork(c)]

At(s, label) == syncer[s].at = label

Become(s, new) == syncer' = [syncer EXCEPT ![s] = new]

Init ==
  /\ chain = <<>>
  /\ remote \in [Peer -> PeerChain]
  /\ advertised = [p \in Peer |-> Status(remote[p])]
  /\ requests = [p \in Peer |-> <<>>]
  /\ answers = [p \in Peer |-> <<>>]
  /\ response = <<>>
  /\ lock = NoOwner
  /\ syncer = [s \in Syncer |-> Idle]
  /\ loop = [p \in Peer |-> Idle]

-----------------------------------------------------------------------------
(***************************************************************************)
(* The peers.                                                              *)
(***************************************************************************)
\* A peer adopts a better chain; this node is not told.
PeerAdopts(p, c) ==
  /\ BetterChain(remote[p], c)
  /\ remote' = [remote EXCEPT ![p] = c]
  /\ UNCHANGED <<chain, advertised, requests, answers, response, lock, syncer, loop>>

\* A new connection: what was on its way is lost.
Reconnect(p) ==
  /\ advertised[p] # Status(remote[p])
  /\ loop[p] = Idle
  /\ advertised' = [advertised EXCEPT ![p] = Status(remote[p])]
  /\ requests' = [requests EXCEPT ![p] = <<>>]
  /\ answers' = [answers EXCEPT ![p] = <<>>]
  /\ UNCHANGED <<chain, remote, response, lock, syncer, loop>>

blocksFromHeight(c, request) ==
  SubSeq(c, request.start,
         Min({Len(c), request.start + request.limit - 1}))

\* Nothing to send is not answered.
handleGetBlocks(p) ==
  /\ requests[p] # <<>>
  /\ requests' = [requests EXCEPT ![p] = Tail(@)]
  /\ LET blocks == blocksFromHeight(remote[p], Head(requests[p]))
     IN  answers' = [answers EXCEPT ![p] = IF blocks = <<>> THEN @
                                           ELSE Append(@, blocks)]
  /\ UNCHANGED <<chain, remote, advertised, response, lock, syncer, loop>>

-----------------------------------------------------------------------------
(***************************************************************************)
(* handleBlocksResponseSecure.                                             *)
(***************************************************************************)
Arrived(p) ==
  /\ loop[p] = Idle
  /\ answers[p] # <<>>
  /\ answers' = [answers EXCEPT ![p] = Tail(@)]

\* A batch is taken for an answer when the lock is held, by a request or by
\* the TryLock of another read loop.
BlocksArrive(p) ==
  /\ Arrived(p)
  /\ lock # NoOwner
  /\ loop' = [loop EXCEPT ![p] = [at |-> "deliver", blocks |-> Head(answers[p])]]
  /\ UNCHANGED <<chain, remote, advertised, requests, response, lock, syncer>>

\* TryLock succeeds: nobody waits.  The peer is penalized.
UnsolicitedArrive(p) ==
  /\ Arrived(p)
  /\ lock = NoOwner
  /\ lock' = p
  /\ loop' = [loop EXCEPT ![p] = [at |-> "unlock"]]
  /\ UNCHANGED <<chain, remote, advertised, requests, response, syncer>>

UnlockUnsolicited(p) ==
  /\ loop[p].at = "unlock"
  /\ lock' = NoOwner
  /\ loop' = [loop EXCEPT ![p] = Idle]
  /\ UNCHANGED <<chain, network, response, syncer>>

\* A batch that finds the channel full is dropped.
Deliver(p) ==
  /\ loop[p].at = "deliver"
  /\ response' = IF response = <<>> THEN <<loop[p].blocks>> ELSE response
  /\ loop' = [loop EXCEPT ![p] = Idle]
  /\ UNCHANGED <<chain, network, lock, syncer>>

-----------------------------------------------------------------------------
(***************************************************************************)
(* SyncFromPeer, downloadCandidateChain and RequestBlocks.                 *)
(***************************************************************************)
SyncFromPeer(s, p) ==
  LET peer == advertised[p]
  IN  /\ At(s, "idle")
      /\ <<peer.height, peer.tip>> # <<Len(chain), TipHash(chain)>>
      /\ peer.work >= TotalWork(chain)
      /\ peer.work = TotalWork(chain) => peer.height > Len(chain)
      /\ Become(s, [at |-> "request", peer |-> p, status |-> peer,
                    candidate |-> <<>>])
      /\ UNCHANGED <<chain, network, response, lock, loop>>

\* Take the lock, clear an old response, send.
RequestBlocks(s) ==
  LET p == syncer[s].peer
      have == Len(syncer[s].candidate)
      request == [start |-> have + 1,
                  limit |-> Min({syncer[s].status.height - have,
                                 MaxBlocksPerMessage})]
  IN  /\ At(s, "request")
      /\ lock = NoOwner
      /\ Len(requests[p]) + Len(answers[p]) < MaxInFlight
      /\ lock' = s
      /\ response' = <<>>
      /\ requests' = [requests EXCEPT ![p] = Append(@, request)]
      /\ Become(s, [syncer[s] EXCEPT !.at = "wait"])
      /\ UNCHANGED <<chain, remote, advertised, answers, loop>>

\* The lock outlives the call.
TimeOut_keepsLock(s) ==
  /\ At(s, "wait")
  /\ Become(s, Idle)
  /\ UNCHANGED <<chain, network, response, lock, loop>>

TimeOut(s) ==
  /\ At(s, "wait")
  /\ lock' = NoOwner
  /\ Become(s, Idle)
  /\ UNCHANGED <<chain, network, response, loop>>

(***************************************************************************)
(* The blocks of a batch one after the other, up to the advertised height. *)
(* A block that does not extend the candidate ends the download.           *)
(***************************************************************************)
Extended(candidate, height, blocks) ==
  FoldLeft(LAMBDA acc, block :
             IF ~acc.ok \/ Len(acc.chain) = height THEN acc
             ELSE IF LinksToTip(acc.chain, block)
                  THEN [acc EXCEPT !.chain = Append(@, block)]
                  ELSE [acc EXCEPT !.ok = FALSE],
           [ok |-> TRUE, chain |-> candidate], blocks)

ReceiveBatch(s) ==
  LET result == Extended(syncer[s].candidate, syncer[s].status.height,
                         Head(response))
  IN  /\ At(s, "wait")
      /\ response # <<>>
      /\ response' = <<>>
      /\ lock' = NoOwner
      /\ IF ~result.ok
         THEN Become(s, Idle)
         ELSE Become(s, [syncer[s] EXCEPT
                !.at = IF Len(result.chain) < syncer[s].status.height
                       THEN "request" ELSE "check",
                !.candidate = result.chain])
      /\ UNCHANGED <<chain, network, loop>>

\* The candidate is not compared with the advertised tip.
Matches_heightOnly(candidate, status) ==
  Len(candidate) = status.height

Matches(candidate, status) == Status(candidate) = status

\* The last checks, and the reorganization of Node.  The chain of a peer that
\* is advertised can be replayed: the peer did.
Adopt(s) ==
  /\ At(s, "check")
  /\ chain' = IF /\ Matches(syncer[s].candidate, syncer[s].status)
                 /\ BetterChain(chain, syncer[s].candidate)
                 /\ ReorgDepth(chain, syncer[s].candidate) <= MaxAutomaticReorgDepth
              THEN syncer[s].candidate ELSE chain
  /\ Become(s, Idle)
  /\ UNCHANGED <<network, response, lock, loop>>

AcceptBlock(block) ==
  /\ LinksToTip(chain, block)
  /\ chain' = Append(chain, block)
  /\ UNCHANGED <<network, response, lock, syncer, loop>>

LoopStep(p) ==
  \/ handleGetBlocks(p) \/ BlocksArrive(p) \/ UnsolicitedArrive(p)
  \/ UnlockUnsolicited(p) \/ Deliver(p)

SyncStep(s) == RequestBlocks(s) \/ TimeOut(s) \/ ReceiveBatch(s) \/ Adopt(s)

Next ==
  \/ \E p \in Peer :
       \/ \E c \in PeerChain : PeerAdopts(p, c)
       \/ Reconnect(p)
       \/ LoopStep(p)
       \/ \E s \in Syncer : SyncFromPeer(s, p)
  \/ \E s \in Syncer : SyncStep(s)
  \/ \E block \in LocalBlock : AcceptBlock(block)

(***************************************************************************)
(* Read loops and timers run; a mutex is handed to a waiter that was       *)
(* passed over.  Nothing makes a synchronization begin.                    *)
(***************************************************************************)
Fairness ==
  /\ \A p \in Peer : WF_vars(LoopStep(p))
  /\ \A s \in Syncer :
       /\ SF_vars(RequestBlocks(s))
       /\ WF_vars(TimeOut(s) \/ ReceiveBatch(s) \/ Adopt(s))

Spec == Init /\ [][Next]_vars /\ Fairness

-----------------------------------------------------------------------------
(***************************************************************************)
(* Whatever batches a download was answered with, the chain it adopts is   *)
(* the one the peer advertised, block by block (downloadCandidateChain).   *)
(***************************************************************************)
AdoptedIsAdvertised ==
  [][\A s \in Syncer :
       At(s, "check") /\ syncer'[s] = Idle /\ chain' # chain =>
         \E c \in PeerChain : c = chain' /\ Status(c) = syncer[s].status]_vars

(***************************************************************************)
(* Every synchronization returns, whether or not the peer answers, and the *)
(* next one gets the lock (RequestBlocks' timer and deferred Unlock).      *)
(***************************************************************************)
EverySyncReturns == \A s \in Syncer : []<>At(s, "idle")
=============================================================================
