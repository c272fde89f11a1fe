------------------------------ MODULE MCChain -------------------------------
(***************************************************************************)
(* The consensus rules in one run that goes through one of two machines.   *)
(*                                                                         *)
(* chain: Chain on every valid chain of up to MaxHeight blocks whose       *)
(* intervals are fast or slow, and chains spoiled in their last block.     *)
(* Fast blocks raise the difficulty, so that chains with fewer blocks and  *)
(* more work exist.                                                        *)
(*                                                                         *)
(* emission: Emission past the last epoch and the last halving, with a     *)
(* remainder in most epochs and a testnet cap that cuts a subsidy.         *)
(***************************************************************************)
EXTENDS Chain, Emission

CONSTANTS MaxHeight, Interval

VARIABLE part

MCEpochs == <<30, 27, 25, 21, 18, 15, 12, 10>>

MCHeader ==
  [timestamp : 0 .. 99, difficulty : Difficulty, sound : BOOLEAN, spends : BOOLEAN]

MCReplays(c) == \A h \in 1 .. Len(c) : c[h].spends

Extensions(c) ==
  {Append(c, [timestamp |-> TimestampAt(c, Len(c)) + i,
              difficulty |-> ExpectedNextDifficulty(c),
              sound |-> TRUE, spends |-> TRUE]) : i \in Interval}

GoodChains[n \in 0 .. MaxHeight] ==
  IF n = 0 THEN {<<>>} ELSE UNION {Extensions(c) : c \in GoodChains[n - 1]}

\* One defect in the last block: proof, transactions, difficulty or time.
Spoiled(c) ==
  LET n == Len(c)
  IN  {[c EXCEPT ![n].sound = FALSE], [c EXCEPT ![n].spends = FALSE],
       [c EXCEPT ![n].difficulty = (@ % MaxUint32) + 1],
       [c EXCEPT ![n].timestamp = TimestampAt(c, n - 1)]}

MCCandidate ==
  UNION {GoodChains[n] : n \in 1 .. MaxHeight}
    \cup UNION {Spoiled(c) : c \in GoodChains[2] \cup GoodChains[3]}

MCInit ==
  /\ part \in {"chain", "emission"}
  /\ Init /\ EmissionInit
  /\ part = "chain" => policy = "testnet"

MCNext ==
  /\ UNCHANGED part
  /\ \/ part = "chain" /\ Next /\ UNCHANGED emissionVars
     \/ part = "emission" /\ EmissionNext /\ UNCHANGED vars

MCSpec == MCInit /\ [][MCNext]_<<part, vars, emissionVars>>
=============================================================================
