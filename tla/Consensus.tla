----------------------------- MODULE Consensus ------------------------------
(***************************************************************************)
(* The consensus arithmetic (package consensus): the difficulty a block    *)
(* must carry and the work it counts for.  Emission has the subsidy.       *)
(***************************************************************************)
EXTENDS Integers, Sequences, FiniteSets

CONSTANTS
  MaxUint32,                \* the largest difficulty, ^uint32(0)
  TargetBlockTimeSeconds,   \* 60 in the code
  DifficultyHistoryWindow,  \* 11 in the code
  HashSpace                 \* 2^256 in the code

ASSUME ConsensusAssumption ==
  /\ MaxUint32 \in Nat \ {0}
  /\ TargetBlockTimeSeconds \in Nat \ {0}
  /\ DifficultyHistoryWindow \in Nat \ {0}
  /\ HashSpace \in Nat
  /\ HashSpace > MaxUint32

Difficulty == 1 .. MaxUint32

-----------------------------------------------------------------------------
(***************************************************************************)
(* Difficulty.                                                             *)
(***************************************************************************)
AtLeastOne(n) == IF n = 0 THEN 1 ELSE n

(***************************************************************************)
(* 25% up after fast blocks, saturating at the width of the field; 20%     *)
(* down after slow ones, never below 1.                                    *)
(***************************************************************************)
NextDifficulty(currentDifficulty, seconds) ==
  LET current  == AtLeastOne(currentDifficulty)
      increase == AtLeastOne(current \div 4)
      decrease == AtLeastOne(current \div 5)
  IN  CASE seconds < TargetBlockTimeSeconds \div 2 ->
             IF current > MaxUint32 - increase THEN MaxUint32
                                               ELSE current + increase
        [] seconds > TargetBlockTimeSeconds * 2 ->
             IF decrease >= current THEN 1 ELSE current - decrease
        [] OTHER -> current

(***************************************************************************)
(* MedianBlockInterval of a function of intervals: the positive ones       *)
(* sorted, the one at index len/2.  In sorted order that is the value with *)
(* at most len/2 smaller ones and more than len/2 not larger.              *)
(***************************************************************************)
MedianBlockInterval(interval) ==
  LET valid   == {i \in DOMAIN interval : interval[i] > 0}
      half    == Cardinality(valid) \div 2
      Less(v) == {i \in valid : interval[i] < v}
      NotMore(v) == {i \in valid : interval[i] <= v}
  IN  IF valid = {}
      THEN TargetBlockTimeSeconds
      ELSE CHOOSE v \in {interval[i] : i \in valid} :
             Cardinality(Less(v)) <= half /\ half < Cardinality(NotMore(v))

-----------------------------------------------------------------------------
(***************************************************************************)
(* Work.                                                                   *)
(***************************************************************************)
TargetFromDifficulty(difficulty) ==
  IF difficulty = 0 THEN 0 ELSE (HashSpace - 1) \div difficulty

WorkFromDifficulty(difficulty) ==
  IF TargetFromDifficulty(difficulty) = 0 THEN 0
  ELSE HashSpace \div (TargetFromDifficulty(difficulty) + 1)
=============================================================================
