------------------------------- MODULE Chain --------------------------------
(***************************************************************************)
(* The active chain of one node and the two ways it changes, one call at a *)
(* time: a block on top of the tip (p2p.AcceptBlock with Chain.AddBlock)   *)
(* and a reorganization to a better candidate chain                        *)
(* (blockchain.ReorganizeToCandidate with its fork choice, depth and       *)
(* finality rules).  Node models what happens when calls overlap.          *)
(*                                                                         *)
(* A chain is the sequence of its headers after genesis.  A block hash     *)
(* commits to the previous hash and so to all ancestors: the hash of the   *)
(* block at height h is the chain up to h.                                 *)
(***************************************************************************)
EXTENDS Consensus

CONSTANTS
  Header,                  \* [timestamp, difficulty, sound, ...]
  GenesisDifficulty,
  MaxAutomaticReorgDepth,  \* 120 in the code
  Replays(_),              \* BuildStateFromChain succeeds on the chain
  Candidate                \* the chains that peers and miners offer

ASSUME ChainAssumption ==
  /\ \A header \in Header : /\ header.timestamp \in Int
                            /\ header.difficulty \in Difficulty
                            /\ header.sound \in BOOLEAN
  /\ GenesisDifficulty \in Difficulty
  /\ MaxAutomaticReorgDepth \in Nat
  /\ Candidate \subseteq Seq(Header)

VARIABLES chain, totalWork

vars == <<chain, totalWork>>

-----------------------------------------------------------------------------
\* The genesis block has height 0 and time 0.
TimestampAt(c, h) == IF h = 0 THEN 0 ELSE c[h].timestamp

DifficultyAt(c, h) == IF h = 0 THEN GenesisDifficulty ELSE c[h].difficulty

Hash(c, h) == SubSeq(c, 1, h)

\* The heights whose intervals count: the last DifficultyHistoryWindow.
RecentHeights(c) ==
  {h \in 1 .. Len(c) : h > Len(c) - DifficultyHistoryWindow}

ExpectedNextDifficulty(c) ==
  NextDifficulty(DifficultyAt(c, Len(c)),
                 MedianBlockInterval(
                   [h \in RecentHeights(c) |->
                      TimestampAt(c, h) - TimestampAt(c, h - 1)]))

(***************************************************************************)
(* The checks of AddBlock and validateBlockCoreWithProof on a block that   *)
(* links to the tip.  sound stands for version, merkle root, transaction   *)
(* bounds and proof of work.  The bound on timestamps in the future only   *)
(* delays a block and is left to when the block is offered.                *)
(***************************************************************************)
CanAddBlock(c, header) ==
  /\ header.difficulty = ExpectedNextDifficulty(c)
  /\ header.timestamp > TimestampAt(c, Len(c))
  /\ header.sound

\* ValidateAndCloneChain: every block passes AddBlock on top of the previous.
ValidChain(c) == \A h \in 1 .. Len(c) : CanAddBlock(Hash(c, h - 1), c[h])

(***************************************************************************)
(* The cumulative work of a chain, counted in units: unit k of block h     *)
(* exists when k is at most the work of the block.                         *)
(***************************************************************************)
WorkUnits(c) ==
  {u \in (1 .. Len(c)) \X Difficulty :
     u[2] <= WorkFromDifficulty(c[u[1]].difficulty)}

WorkOf(c) == WorkFromDifficulty(GenesisDifficulty) + Cardinality(WorkUnits(c))

-----------------------------------------------------------------------------
BetterChain_notShorter(candidate) ==
  \/ WorkOf(candidate) > totalWork
  \/ WorkOf(candidate) = totalWork /\ Len(candidate) >= Len(chain)

\* BetterChain prefers the candidate.
BetterChain(candidate) ==
  \/ WorkOf(candidate) > totalWork
  \/ WorkOf(candidate) = totalWork /\ Len(candidate) > Len(chain)

(***************************************************************************)
(* The height at which the search of ReorgDepth stops: it goes down from   *)
(* the lower of the two tips to the first equal hashes.                    *)
(***************************************************************************)
SameBlock(c, d, h) == h <= Len(c) /\ h <= Len(d) /\ Hash(c, h) = Hash(d, h)

IsCommonHeight_lowerTip(c, d, h) == h = IF Len(d) < Len(c) THEN Len(d) ELSE Len(c)

IsCommonHeight(c, d, h) ==
  /\ SameBlock(c, d, h)
  /\ \A g \in 0 .. Len(c) : SameBlock(c, d, g) => g <= h

FinalizedHeight(c) ==
  IF Len(c) <= MaxAutomaticReorgDepth THEN 0
  ELSE Len(c) - MaxAutomaticReorgDepth

ValidateFinalizedReorg(commonHeight) == commonHeight >= FinalizedHeight(chain)

ValidateAutomaticReorgDepth(depth) == depth <= MaxAutomaticReorgDepth

-----------------------------------------------------------------------------
TypeOK ==
  /\ chain \in Seq(Header)
  /\ totalWork \in Nat

Init ==
  /\ chain = <<>>
  /\ totalWork = WorkFromDifficulty(GenesisDifficulty)

(***************************************************************************)
(* AcceptBlock: the candidate is the active chain with one block on top.   *)
(* The block is validated and its transactions are processed on a clone    *)
(* before it is added.                                                     *)
(***************************************************************************)
AcceptBlock_workNotAdded(candidate) ==
  LET header == candidate[Len(candidate)]
  IN  /\ Len(candidate) = Len(chain) + 1
      /\ Hash(candidate, Len(chain)) = chain
      /\ CanAddBlock(chain, header)
      /\ Replays(candidate)
      /\ chain' = Append(chain, header)
      /\ totalWork' = totalWork

AcceptBlock(candidate) ==
  LET header == candidate[Len(candidate)]
  IN  /\ Len(candidate) = Len(chain) + 1
      /\ Hash(candidate, Len(chain)) = chain
      /\ CanAddBlock(chain, header)
      /\ Replays(candidate)
      /\ chain' = Append(chain, header)
      /\ totalWork' = totalWork + WorkFromDifficulty(header.difficulty)

(***************************************************************************)
(* ReorganizeToCandidate.  Work is recomputed from the candidate's blocks. *)
(***************************************************************************)
ReorganizeToCandidate(candidate) ==
  /\ ValidChain(candidate)
  /\ BetterChain(candidate)
  /\ \E commonHeight \in 0 .. Len(chain) :
       /\ IsCommonHeight(chain, candidate, commonHeight)
       /\ ValidateFinalizedReorg(commonHeight)
       /\ ValidateAutomaticReorgDepth(Len(chain) - commonHeight)
  /\ Replays(candidate)
  /\ chain' = candidate
  /\ totalWork' = WorkOf(candidate)

Next ==
  \E candidate \in Candidate :
    \/ AcceptBlock(candidate)
    \/ ReorganizeToCandidate(candidate)

Spec == Init /\ [][Next]_vars

-----------------------------------------------------------------------------
ChainStaysValid == ValidChain(chain) /\ (chain # <<>> => Replays(chain))

CachedWorkIsExact == totalWork = WorkOf(chain)

(***************************************************************************)
(* Whatever the sequence of accepted blocks and reorganizations, the       *)
(* active chain passes validation from genesis under the history-based     *)
(* difficulty rule, and its transactions replay: a restart or a            *)
(* ValidateAndCloneChain of it cannot fail.  The cached cumulative work is *)
(* the work recomputed from its blocks: BetterChain compares the one with  *)
(* the other.                                                              *)
(***************************************************************************)
ChainIsExact == ChainStaysValid /\ CachedWorkIsExact

(***************************************************************************)
(* The node only moves to more work, or to equal work and a greater        *)
(* height, so it never returns to a chain it left (AddBlock, BetterChain). *)
(***************************************************************************)
OnlyBetterChains ==
  [][\/ totalWork' > totalWork
     \/ totalWork' = totalWork /\ Len(chain') > Len(chain)]_vars

(***************************************************************************)
(* No step replaces a block at or below the finalized height               *)
(* (ValidateFinalizedReorg, FinalizedHeight), also where more work means   *)
(* fewer blocks and the finalized height itself falls.                     *)
(***************************************************************************)
FinalizedBlocksStay ==
  [][/\ Len(chain') >= FinalizedHeight(chain)
     /\ \A h \in 0 .. FinalizedHeight(chain) : Hash(chain', h) = Hash(chain, h)
    ]_vars
=============================================================================
