------------------------------ MODULE Emission ------------------------------
(***************************************************************************)
(* The issuance schedule (consensus.BlockSubsidyFor with the tables of     *)
(* package params) and the supply it adds up to when every block is paid   *)
(* as CreditMinerRewardFor pays it.                                        *)
(***************************************************************************)
EXTENDS Integers, Sequences, FiniteSets

CONSTANTS
  InitialBlockReward, HalvingInterval, MaxSupply,
  Uint64Bits,             \* 64: a shift by as much leaves nothing
  MainnetEpochLength,     \* 131490 in the code
  MainnetEmissionEpochs,  \* the issuance of each epoch, 40 of them
  MainnetMaxSupply,
  LastHeight              \* bound: the last height that is mined

ASSUME EmissionAssumption ==
  /\ {InitialBlockReward, MaxSupply, Uint64Bits, MainnetMaxSupply} \subseteq Nat
  /\ HalvingInterval \in Nat \ {0}
  /\ MainnetEpochLength \in Nat \ {0}
  /\ MainnetEmissionEpochs \in Seq(Nat)
  /\ LastHeight \in Nat

VARIABLES policy, height, issued

emissionVars == <<policy, height, issued>>

-----------------------------------------------------------------------------
MainnetFinalSubsidyHeight == MainnetEpochLength * Len(MainnetEmissionEpochs)

MaxSupplyFor(p) == IF p = "mainnet" THEN MainnetMaxSupply ELSE MaxSupply

TestnetSubsidy(h) ==
  LET halvings == h \div HalvingInterval
  IN  IF halvings >= Uint64Bits THEN 0 ELSE InitialBlockReward \div 2 ^ halvings

\* The first blocks of an epoch carry the remainder, one unit each.
EpochSubsidy(issuance, offset) ==
  (issuance \div MainnetEpochLength)
    + (IF offset < (issuance % MainnetEpochLength) THEN 1 ELSE 0)

MainnetSubsidy_fromZero(h) ==
  IF h >= MainnetFinalSubsidyHeight THEN 0
  ELSE EpochSubsidy(MainnetEmissionEpochs[(h \div MainnetEpochLength) + 1],
                    h % MainnetEpochLength)

MainnetSubsidy(h) ==
  IF h = 0 \/ h > MainnetFinalSubsidyHeight THEN 0
  ELSE EpochSubsidy(MainnetEmissionEpochs[((h - 1) \div MainnetEpochLength) + 1],
                    (h - 1) % MainnetEpochLength)

BlockSubsidyFor(p, h) ==
  IF p = "testnet" THEN TestnetSubsidy(h) ELSE MainnetSubsidy(h)

-----------------------------------------------------------------------------
EmissionInit ==
  /\ policy \in {"testnet", "mainnet"}
  /\ height = 0
  /\ issued = 0

RemainingSupply == MaxSupplyFor(policy) - issued

\* The subsidy of the next block, cut to the supply that remains.
CreditMinerReward ==
  LET subsidy == BlockSubsidyFor(policy, height + 1)
  IN  issued' = issued + IF subsidy > RemainingSupply THEN RemainingSupply
                                                      ELSE subsidy

MineBlock ==
  /\ height < LastHeight
  /\ height' = height + 1
  /\ CreditMinerReward
  /\ UNCHANGED policy

EmissionNext == MineBlock

EmissionSpec == EmissionInit /\ [][EmissionNext]_emissionVars

-----------------------------------------------------------------------------
\* The units paid by one epoch of the given issuance: unit k of offset o.
EpochUnits(issuance) ==
  {u \in (0 .. (MainnetEpochLength - 1)) \X (1 .. (issuance + 1)) :
     u[2] <= EpochSubsidy(issuance, u[1])}

(***************************************************************************)
(* Every epoch of the table pays out exactly its issuance, wherever the    *)
(* division leaves a remainder (BlockSubsidyFor).                          *)
(***************************************************************************)
EpochsAreExact ==
  \A e \in 1 .. Len(MainnetEmissionEpochs) :
    Cardinality(EpochUnits(MainnetEmissionEpochs[e])) = MainnetEmissionEpochs[e]

\* The table entries of the epochs that are complete at height h, in units.
CompletedUnits(h) ==
  {u \in (1 .. Len(MainnetEmissionEpochs)) \X (1 .. MainnetMaxSupply) :
     u[1] * MainnetEpochLength <= h /\ u[2] <= MainnetEmissionEpochs[u[1]]}

MainnetOnSchedule ==
  policy = "mainnet" =>
    /\ height % MainnetEpochLength = 0 =>
         issued = Cardinality(CompletedUnits(height))
    /\ height >= MainnetFinalSubsidyHeight <=> issued = MainnetMaxSupply

TestnetOnSchedule ==
  LET Period(n) == {h \in 1 .. height : h \div HalvingInterval = n}
      Paid(n)   == Period(n) \X {k \in 1 .. InitialBlockReward :
                                   k * 2 ^ n <= InitialBlockReward}
      scheduled == Cardinality(UNION {Paid(n) : n \in 0 .. Uint64Bits})
  IN  policy = "testnet" =>
        issued = IF scheduled > MaxSupply THEN MaxSupply ELSE scheduled

(***************************************************************************)
(* At every epoch boundary the mainnet supply is the sum of the completed  *)
(* table entries, and the table is used up at the final subsidy height:    *)
(* no unit is cut by the supply cap on the way.  The testnet supply is the *)
(* sum of the halved rewards of all heights so far, or the cap where that  *)
(* sum passes it; genesis is not paid, so the first period has one block   *)
(* less (BlockSubsidyFor, CreditMinerRewardFor).                           *)
(***************************************************************************)
IssuedOnSchedule == MainnetOnSchedule /\ TestnetOnSchedule
=============================================================================
