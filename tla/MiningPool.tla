----------------------------- MODULE MiningPool -----------------------------
(***************************************************************************)
(* Mining over RPC: the node's work and submit handlers, the GPU miner     *)
(* that mines alone (gpuminer.Loop), and the pool between them and its     *)
(* workers (pool.Engine, PayoutLedger, the Stratum server and client).     *)
(*                                                                         *)
(* A job of the pool is the height of its block, the height of the parent  *)
(* it announces and whether it still is the engine's current job: that is  *)
(* all that comparing job IDs tells.  A nonce is the kind of share it is.  *)
(* The seeds behind the failover client are in step.                       *)
(***************************************************************************)
EXTENDS Integers, Sequences, FiniteSets

CONSTANTS
  Worker,
  Other,                       \* workers whose connections are left out
  Ticker,                      \* the refresher that belongs to no session of a Worker
  BlockReward, PoolDifficulty, BlockDifficulty,
  poolFeeBPS, FeeDivisor,      \* FeeDivisor stands for 10000
  Window,                      \* the last shares that PPLNS pays
  MaxHeight,                   \* bound: no block above this height
  MaxSubmissions               \* bound: shares each worker submits

ASSUME MiningPoolAssumption ==
  /\ {BlockReward, PoolDifficulty, BlockDifficulty, FeeDivisor, Window}
       \subseteq Nat \ {0}
  /\ PoolDifficulty <= BlockDifficulty
  /\ poolFeeBPS \in 0..FeeDivisor
  /\ Ticker \notin Worker /\ Worker \cap Other = {}

Refresher == Worker \cup {Ticker}

VARIABLES
  node,      \* height of the chain, and blocks in it by their miner
  current,   \* Engine.current
  refresh,   \* where each RefreshWork is
  session,   \* handleConn of each worker
  up, down,  \* the lines on each connection
  client,    \* the Stratum client of each worker
  ledger,    \* of the pool, for each scheme it may be configured with
  other,     \* the block each other worker has found, by its height, or 0
  solo       \* the GPU miner without a pool

workers == <<session, up, down, client>>
vars == <<node, current, refresh, workers, ledger, other, solo>>

NoWork == [at |-> "idle"]
NoSession == [at |-> "closed", subscribed |-> FALSE, authorized |-> FALSE]
Started == [at |-> "start", id |-> 0, counted |-> 0]

Job(work) == [height |-> work.height, parent |-> work.parent, live |-> TRUE]
Notify(job) == [type |-> "notify", job |-> job]
Response(id, ok) == [type |-> "response", id |-> id, ok |-> ok]

PayoutScheme == {"solo", "pps", "pplns", "fpps"}

NewPayoutLedger ==
  [balances |-> [w \in Worker \cup Other |-> 0],
   credited |-> [w \in Worker \cup Other |-> 0],
   pending |-> <<>>, blocksFound |-> 0]

\* main fetches a first job before it listens.
Init ==
  /\ node = [height |-> 0, pool |-> 0, solo |-> 0]
  /\ current = [height |-> 1, parent |-> 0, live |-> TRUE]
  /\ refresh = [r \in Refresher |-> NoWork]
  /\ session = [w \in Worker |-> NoSession]
  /\ up = [w \in Worker |-> <<>>]
  /\ down = [w \in Worker |-> <<>>]
  /\ client = [w \in Worker |-> Started]
  /\ ledger = [scheme \in PayoutScheme |-> NewPayoutLedger]
  /\ other = [w \in Other |-> 0]
  /\ solo = [at |-> "work", accepted |-> 0]

-----------------------------------------------------------------------------
(***************************************************************************)
(* The node.  AcceptBlock takes a block that extends the tip.              *)
(***************************************************************************)
Fresh(height) == height = node.height + 1 /\ node.height < MaxHeight

Mined(by) == node' = [node EXCEPT !.height = @ + 1, ![by] = @ + 1]

\* A block of a height the chain has counts as accepted.
SubmitBlock_known(by, height, ok) ==
  \/ Fresh(height) /\ Mined(by) /\ ok \in BOOLEAN
  \/ ok = (height <= node.height) /\ UNCHANGED node

(***************************************************************************)
(* FailoverClient.SubmitBlock: accepted, or lost after the node has it (a  *)
(* second seed refuses it then), or refused, or never delivered.           *)
(***************************************************************************)
SubmitBlock(by, height, ok) ==
  \/ Fresh(height) /\ Mined(by) /\ ok \in BOOLEAN
  \/ ~ok /\ UNCHANGED node

-----------------------------------------------------------------------------
(***************************************************************************)
(* Engine.RefreshWork, by the ticker or for a session.  The handler reads  *)
(* the tip for the candidate, and again for the parent it announces.       *)
(***************************************************************************)
Fetch(r) ==
  /\ refresh[r].at = IF r = Ticker THEN "idle" ELSE "wanted"
  /\ refresh' = [refresh EXCEPT ![r] = [at |-> "candidate", height |-> node.height + 1]]
  /\ UNCHANGED <<node, current, workers, ledger, other, solo>>

handleMiningWork(r) ==
  /\ refresh[r].at = "candidate"
  /\ refresh' = [refresh EXCEPT ![r] = [at |-> "work", height |-> refresh[r].height,
                                        parent |-> node.height]]
  /\ UNCHANGED <<node, current, workers, ledger, other, solo>>

\* The loop of the ticker ends with the first error.
FetchFails_ends(r) ==
  /\ refresh[r].at = "candidate"
  /\ refresh' = [refresh EXCEPT ![r] = [at |-> IF r = Ticker THEN "ended" ELSE "idle"]]
  /\ session' = IF r = Ticker THEN session ELSE [session EXCEPT ![r].at = "read"]
  /\ UNCHANGED <<node, current, up, down, client, ledger, other, solo>>

\* It is logged; a session reads on without a job for its worker.
FetchFails(r) ==
  /\ refresh[r].at = "candidate"
  /\ refresh' = [refresh EXCEPT ![r] = NoWork]
  /\ session' = IF r = Ticker THEN session ELSE [session EXCEPT ![r].at = "read"]
  /\ UNCHANGED <<node, current, up, down, client, ledger, other, solo>>

\* A line that names a job which is current no longer.
Stale(line) == IF line.type \in {"notify", "submit"}
               THEN [line EXCEPT !.job.live = FALSE] ELSE line

Staled(lines) == [w \in Worker |-> [i \in DOMAIN lines[w] |-> Stale(lines[w][i])]]

\* Engine.current = job; pushJob tells the worker of the session.
Install(r) ==
  /\ refresh[r].at = "work"
  /\ current' = Job(refresh[r])
  /\ up' = Staled(up)
  /\ down' = LET old == Staled(down)
             IN  IF r = Ticker THEN old
                 ELSE [old EXCEPT ![r] = Append(@, Notify(Job(refresh[r])))]
  /\ client' = [w \in Worker |-> IF client[w].at = "mine"
                                 THEN [client[w] EXCEPT !.job.live = FALSE]
                                 ELSE client[w]]
  /\ session' = IF r = Ticker THEN session ELSE [session EXCEPT ![r].at = "read"]
  /\ refresh' = [refresh EXCEPT ![r] = NoWork]
  /\ UNCHANGED <<node, ledger, other, solo>>

-----------------------------------------------------------------------------
(***************************************************************************)
(* PayoutLedger.                                                           *)
(***************************************************************************)
applyFee(amount) == amount - (amount * poolFeeBPS) \div FeeDivisor

ShareValue == (BlockReward * PoolDifficulty) \div BlockDifficulty

\* The share that found the block is not part of the total.
distributePPLNS_before(balances, shares) ==
  [w \in Worker \cup Other |->
     balances[w] + Cardinality({i \in DOMAIN shares : shares[i] = w})
                     * (applyFee(BlockReward) \div
                          (IF Len(shares) = 1 THEN 1 ELSE Len(shares) - 1))]

\* All shares are of one difficulty: each gets the same part, rounded down.
distributePPLNS(balances, shares) ==
  [w \in Worker \cup Other |->
     balances[w] + Cardinality({i \in DOMAIN shares : shares[i] = w})
                     * (applyFee(BlockReward) \div Len(shares))]

lastShares(shares) ==
  IF Len(shares) > Window THEN SubSeq(shares, Len(shares) - Window + 1, Len(shares))
                          ELSE shares

Credited(scheme, l, w, kind) ==
  LET pending == IF scheme = "pplns" THEN lastShares(Append(l.pending, w)) ELSE <<>>
      perShare == IF scheme \in {"pps", "fpps"} THEN applyFee(ShareValue) ELSE 0
      perBlock == IF scheme \in {"solo", "fpps"} /\ kind = "block"
                  THEN applyFee(BlockReward) ELSE 0
      balances == [l.balances EXCEPT ![w] = @ + perShare + perBlock]
  IN  [balances |-> IF scheme = "pplns" /\ kind = "block"
                    THEN distributePPLNS(balances, pending) ELSE balances,
       credited |-> [l.credited EXCEPT ![w] = @ + 1],
       pending |-> pending,
       blocksFound |-> l.blocksFound + IF kind = "block" THEN 1 ELSE 0]

CreditShare(w, kind) ==
  ledger' = [scheme \in PayoutScheme |-> Credited(scheme, ledger[scheme], w, kind)]

-----------------------------------------------------------------------------
(***************************************************************************)
(* The Stratum server: handleConn of worker w.                             *)
(***************************************************************************)
Line(w, method) ==
  /\ session[w].at = "read"
  /\ up[w] # <<>> /\ Head(up[w]).type = method
  /\ up' = [up EXCEPT ![w] = Tail(@)]

Answer(w, ok) == down' = [down EXCEPT ![w] = Append(@, Response(Head(up[w]).id, ok))]

Subscribe(w) ==
  /\ Line(w, "subscribe")
  /\ Answer(w, TRUE)
  /\ session' = [session EXCEPT ![w].subscribed = TRUE]
  /\ UNCHANGED <<node, current, refresh, client, ledger, other, solo>>

\* The first job comes with the authorization.
Authorize(w) ==
  /\ Line(w, "authorize")
  /\ Answer(w, TRUE)
  /\ session' = [session EXCEPT ![w].authorized = TRUE,
                                ![w].at = IF session[w].subscribed THEN "push" ELSE "read"]
  /\ refresh' = IF session[w].subscribed
                THEN [refresh EXCEPT ![w] = [at |-> "wanted"]] ELSE refresh
  /\ UNCHANGED <<node, current, client, ledger, other, solo>>

\* What ValidateShare finds: it hashes the block of the job, and the worker
\* a header with the announced parent.
Validated(job, kind) ==
  IF job.parent = job.height - 1 THEN {kind} ELSE {"invalid", "valid", "block"}

Submit(w) ==
  /\ Line(w, "submit")
  /\ LET line == Head(up[w])
     IN  \/ /\ ~line.job.live                                  \* stale job
            /\ Answer(w, FALSE)
            /\ UNCHANGED <<session, ledger>>
         \/ /\ line.job.live
            /\ \E kind \in Validated(line.job, line.kind) :
                 \/ /\ kind = "invalid"
                    /\ Answer(w, FALSE)
                    /\ UNCHANGED <<session, ledger>>
                 \/ /\ kind = "valid"
                    /\ CreditShare(w, kind)
                    /\ Answer(w, TRUE)
                    /\ UNCHANGED session
                 \/ /\ kind = "block"
                    /\ CreditShare(w, kind)
                    /\ session' = [session EXCEPT ![w] = [at |-> "block", id |-> line.id,
                                     height |-> line.job.height,
                                     subscribed |-> TRUE, authorized |-> TRUE]]
                    /\ UNCHANGED down
  /\ UNCHANGED <<node, current, refresh, client, other, solo>>

\* The credit stays when the block is refused.
SubmitShareBlock(w) ==
  /\ session[w].at = "block"
  /\ \E ok \in BOOLEAN :
       /\ SubmitBlock("pool", session[w].height, ok)
       /\ down' = [down EXCEPT ![w] = Append(@, Response(session[w].id, ok))]
       /\ session' = [session EXCEPT ![w] = [at |-> IF ok THEN "push" ELSE "read",
                                             subscribed |-> TRUE, authorized |-> TRUE]]
       /\ refresh' = IF ok THEN [refresh EXCEPT ![w] = [at |-> "wanted"]] ELSE refresh
  /\ UNCHANGED <<current, up, client, ledger, other, solo>>

\* Another worker submits a share of the current job, then the block if it is one.
OtherSubmits(w, kind) ==
  /\ other[w] = 0
  /\ ledger["solo"].credited[w] < MaxSubmissions
  /\ CreditShare(w, kind)
  /\ other' = [other EXCEPT ![w] = IF kind = "block" THEN current.height ELSE 0]
  /\ UNCHANGED <<node, current, refresh, workers, solo>>

OtherSubmitsBlock(w) ==
  /\ other[w] # 0
  /\ \E ok \in BOOLEAN : SubmitBlock("pool", other[w], ok)
  /\ other' = [other EXCEPT ![w] = 0]
  /\ UNCHANGED <<current, refresh, workers, ledger, solo>>

\* Two minutes without a line, or the connection breaks.
SessionEnds(w) ==
  /\ session[w].at = "read"
  /\ session' = [session EXCEPT ![w] = NoSession]
  /\ up' = [up EXCEPT ![w] = <<>>]
  /\ UNCHANGED <<node, current, refresh, down, client, ledger, other, solo>>

-----------------------------------------------------------------------------
(***************************************************************************)
(* The Stratum client of worker w.                                         *)
(***************************************************************************)
ClientAt(w, label) == client[w].at = label

NextID(w) == client[w].id + 1

\* call: the line is a request with the next ID.
Call(w, line, next) ==
  /\ client' = [client EXCEPT ![w] = [at |-> next, id |-> NextID(w),
                                      counted |-> client[w].counted]]
  /\ up' = IF session[w].at = "closed" THEN up
           ELSE [up EXCEPT ![w] = Append(@, line)]

Dial(w) ==
  /\ ClientAt(w, "start") /\ session[w].at = "closed"
  /\ session' = [session EXCEPT ![w].at = "read"]
  /\ client' = [client EXCEPT ![w] = [at |-> "subscribing", id |-> 1,
                                      counted |-> client[w].counted]]
  /\ up' = [up EXCEPT ![w] = <<[type |-> "subscribe", id |-> 1]>>]
  /\ down' = [down EXCEPT ![w] = <<>>]
  /\ UNCHANGED <<node, current, refresh, ledger, other, solo>>

Waiting(w) == client[w].at \in {"subscribing", "authorizing", "submitting"}

\* Line i answers the last request.
Answers(w, i) ==
  /\ down[w][i].type = "response"
  /\ down[w][i].id = client[w].id

Rest(w, n) == [down EXCEPT ![w] = SubSeq(@, n + 1, Len(@))]

\* call skips the lines before its answer; the handshake goes on, or a share
\* is counted.
Return(w) ==
  /\ Waiting(w)
  /\ \E i \in DOMAIN down[w] :
       /\ Answers(w, i)
       /\ down' = Rest(w, i)
       /\ \/ /\ ClientAt(w, "subscribing")
             /\ Call(w, [type |-> "authorize", id |-> NextID(w)], "authorizing")
          \/ /\ ClientAt(w, "authorizing")
             /\ client' = [client EXCEPT ![w].at = "wait"]
             /\ UNCHANGED up
          \/ /\ ClientAt(w, "submitting")
             /\ client' = [client EXCEPT ![w].at = "wait",
                                         ![w].counted = @ + IF down[w][i].ok THEN 1 ELSE 0]
             /\ UNCHANGED up
  /\ UNCHANGED <<node, current, refresh, session, ledger, other, solo>>

\* The deadline of call, after it has skipped any lines: the handshake gives
\* up, a share is not counted.
CallFails(w) ==
  /\ Waiting(w)
  /\ \E n \in 0 .. Len(down[w]) :
       /\ \A i \in 1 .. n : ~Answers(w, i)
       /\ down' = Rest(w, n)
  /\ client' = [client EXCEPT ![w].at = IF ClientAt(w, "submitting") THEN "wait" ELSE "start"]
  /\ UNCHANGED <<node, current, refresh, session, up, ledger, other, solo>>

\* NextJob skips everything but a notification.
NextJob(w) ==
  /\ ClientAt(w, "wait")
  /\ down[w] # <<>>
  /\ down' = [down EXCEPT ![w] = Tail(@)]
  /\ client' = IF Head(down[w]).type # "notify" THEN client
               ELSE [client EXCEPT ![w] = [at |-> "mine", id |-> client[w].id,
                                           counted |-> client[w].counted,
                                           job |-> Head(down[w]).job]]
  /\ UNCHANGED <<node, current, refresh, session, up, ledger, other, solo>>

MineShare(w, kind) ==
  /\ ClientAt(w, "mine")
  /\ client[w].id < 2 + MaxSubmissions
  /\ Call(w, [type |-> "submit", id |-> NextID(w), job |-> client[w].job,
              kind |-> kind], "submitting")
  /\ UNCHANGED <<node, current, refresh, session, down, ledger, other, solo>>

-----------------------------------------------------------------------------
(***************************************************************************)
(* gpuminer.Loop: GetWork, mineCandidateBlock, SubmitBlock.  To the pool   *)
(* its blocks are those of any rival.                                      *)
(***************************************************************************)
SoloWork ==
  /\ solo.at = "work"
  /\ solo' = [at |-> "mine", accepted |-> solo.accepted, height |-> node.height + 1]
  /\ UNCHANGED <<node, current, refresh, workers, ledger, other>>

SoloMines ==
  /\ solo.at = "mine"
  /\ \E ok \in BOOLEAN :
       /\ SubmitBlock("solo", solo.height, ok)
       /\ solo' = [at |-> "work", accepted |-> solo.accepted + IF ok THEN 1 ELSE 0]
  /\ UNCHANGED <<current, refresh, workers, ledger, other>>

-----------------------------------------------------------------------------
Next ==
  \/ \E r \in Refresher : Fetch(r) \/ handleMiningWork(r) \/ FetchFails(r) \/ Install(r)
  \/ \E w \in Worker :
       \/ Subscribe(w) \/ Authorize(w) \/ Submit(w) \/ SubmitShareBlock(w)
       \/ SessionEnds(w)
       \/ Dial(w) \/ Return(w) \/ CallFails(w) \/ NextJob(w)
       \/ \E kind \in {"valid", "block"} : MineShare(w, kind)
  \/ \E w \in Other :
       \/ \E kind \in {"valid", "block"} : OtherSubmits(w, kind)
       \/ OtherSubmitsBlock(w)
  \/ SoloWork \/ SoloMines

(***************************************************************************)
(* The ticker ticks, a request is answered or fails, and the node is not   *)
(* always unreachable.                                                     *)
(***************************************************************************)
Fairness ==
  /\ WF_vars(\E r \in Refresher : Install(r))
  /\ WF_vars(Fetch(Ticker))
  /\ SF_vars(handleMiningWork(Ticker))
  /\ \A w \in Worker : WF_vars(Fetch(w) \/ handleMiningWork(w))

Spec == Init /\ [][Next]_vars /\ Fairness

-----------------------------------------------------------------------------
(***************************************************************************)
(* What a miner counts as accepted has happened: a share is in the ledger, *)
(* a block in the chain, through time-outs, late answers and lost ones     *)
(* (stratum.Client.call, stratum.Loop.Run, gpuminer.Loop.Run).             *)
(***************************************************************************)
AcceptedIsCredited ==
  /\ \A w \in Worker, scheme \in PayoutScheme :
       client[w].counted <= ledger[scheme].credited[w]
  /\ solo.accepted <= node.solo

\* A sum of naturals counts the pairs under its graph.
UnderGraph(f) == UNION {{x} \X (1 .. f[x]) : x \in DOMAIN f}

Sum(f) == Cardinality(UnderGraph(f))

(***************************************************************************)
(* The balances add up to what the scheme promises for the shares and      *)
(* blocks seen; PPLNS rounds away less than a unit for each share of the   *)
(* window (CreditShare, distributePPLNSLocked).                            *)
(***************************************************************************)
LedgerAddsUp ==
  \A scheme \in PayoutScheme :
    LET l == ledger[scheme]
        perShare == IF scheme \in {"pps", "fpps"} THEN applyFee(ShareValue) ELSE 0
        perBlock == IF scheme = "pps" THEN 0 ELSE applyFee(BlockReward)
        owed == Sum(l.credited) * perShare + l.blocksFound * perBlock
        dust == IF scheme = "pplns" THEN l.blocksFound * (Window - 1) ELSE 0
    IN  Sum(l.balances) <= owed /\ owed <= Sum(l.balances) + dust

(***************************************************************************)
(* When the chain rests, the engine's job comes to extend its tip and      *)
(* stays so, although a refresh that began earlier may put back an older   *)
(* job (RefreshWork).                                                      *)
(***************************************************************************)
JobFollowsTip ==
  \A h \in 0..MaxHeight :
    <>[](node.height = h) => <>[](current.height = h + 1)
=============================================================================
