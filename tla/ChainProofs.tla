---------------------------- MODULE ChainProofs -----------------------------
(***************************************************************************)
(* Proofs about Chain for every difficulty rule parameter, reorganization  *)
(* limit and set of candidate chains.                                      *)
(***************************************************************************)
EXTENDS Chain, Emission, FiniteSetTheorems, TLAPS

-----------------------------------------------------------------------------
(***************************************************************************)
(* A block of difficulty d counts for at least one and at most d units of  *)
(* work (WorkFromDifficulty).                                              *)
(***************************************************************************)
LEMMA WorkBounds ==
  ASSUME NEW d \in Difficulty
  PROVE  WorkFromDifficulty(d) \in 1 .. d
<1> DEFINE t == (HashSpace - 1) \div d
           w == HashSpace \div (t + 1)
<1>1. /\ d \in Nat /\ d >= 1 /\ d <= MaxUint32
      /\ HashSpace \in Nat /\ HashSpace > d
  BY ConsensusAssumption DEF Difficulty
<1>2. t \in Nat /\ d * t <= HashSpace - 1 /\ HashSpace - 1 < d * t + d
  BY <1>1
<1>3. t >= 1
  BY <1>1, <1>2
<1>4. t + 1 <= HashSpace
  <2>1. t <= d * t
    BY <1>1, <1>2
  <2> QED BY <1>1, <1>2, <2>1
<1>5. HashSpace <= d * (t + 1)
  <2>1. d * (t + 1) = d * t + d
    BY <1>1, <1>2
  <2> QED BY <1>1, <1>2, <2>1
<1> HIDE DEF t
<1>6. w \in Nat /\ (t + 1) * w <= HashSpace /\ HashSpace < (t + 1) * w + (t + 1)
  BY <1>1, <1>2
<1>7. w >= 1
  BY <1>1, <1>2, <1>4, <1>6
<1>8. w <= d
  <2> SUFFICES ASSUME w >= d + 1 PROVE FALSE
    BY <1>1, <1>6
  <2> HIDE DEF w
  <2>1. (t + 1) * w >= (t + 1) * (d + 1)
    BY <1>1, <1>2, <1>6
  <2>2. (t + 1) * (d + 1) = d * (t + 1) + t + 1
    BY <1>1, <1>2
  <2> QED BY <1>1, <1>2, <1>5, <1>6, <2>1, <2>2
<1>9. WorkFromDifficulty(d) = w
  BY <1>1, <1>2, <1>3 DEF WorkFromDifficulty, TargetFromDifficulty, t
<1> HIDE DEF w
<1> QED BY <1>1, <1>6, <1>7, <1>8, <1>9

-----------------------------------------------------------------------------
\* The units of work of one block of work w at height h.
BlockUnits(h, w) == {h} \X (1 .. w)

LEMMA BlockUnitsCardinality ==
  ASSUME NEW h \in Nat, NEW w \in Nat
  PROVE  IsFiniteSet(BlockUnits(h, w)) /\ Cardinality(BlockUnits(h, w)) = w
<1> DEFINE S == {h}
           T == 1 .. w
<1>1. IsFiniteSet(S) /\ Cardinality(S) = 1
  BY FS_Singleton
<1>2. IsFiniteSet(T) /\ Cardinality(T) = w
  BY FS_Interval
<1> HIDE DEF S, T
<1>3. IsFiniteSet(S \X T) /\ Cardinality(S \X T) = Cardinality(S) * Cardinality(T)
  BY <1>1, <1>2, FS_Product, Zenon
<1>4. Cardinality(S \X T) = w
  BY <1>1, <1>2, <1>3
<1> QED BY <1>3, <1>4 DEF S, T, BlockUnits

LEMMA WorkUnitsFinite ==
  ASSUME NEW c \in Seq(Header)
  PROVE  IsFiniteSet(WorkUnits(c)) /\ Cardinality(WorkUnits(c)) \in Nat
<1> DEFINE S == 1 .. Len(c)
<1>1. IsFiniteSet(S)
  BY FS_Interval
<1>2. IsFiniteSet(Difficulty)
  BY FS_Interval, ConsensusAssumption DEF Difficulty
<1>3. WorkUnits(c) \subseteq S \X Difficulty
  BY DEF WorkUnits
<1> HIDE DEF S
<1>4. IsFiniteSet(S \X Difficulty)
  BY <1>1, <1>2, FS_Product, Zenon
<1>5. IsFiniteSet(WorkUnits(c))
  BY <1>3, <1>4, FS_Subset, Zenon
<1> QED BY <1>5, FS_CardinalityType

\* The work of a chain is a number.
LEMMA WorkOfType ==
  ASSUME NEW c \in Seq(Header)
  PROVE  WorkOf(c) \in Nat
<1>1. WorkFromDifficulty(GenesisDifficulty) \in Nat
  BY WorkBounds, ChainAssumption DEF Difficulty
<1> QED BY <1>1, WorkUnitsFinite DEF WorkOf

(***************************************************************************)
(* AddBlock adds exactly the block's own work to the work of the chain.    *)
(***************************************************************************)
LEMMA WorkOfAppend ==
  ASSUME NEW c \in Seq(Header), NEW header \in Header
  PROVE  WorkOf(Append(c, header))
           = WorkOf(c) + WorkFromDifficulty(header.difficulty)
<1> DEFINE n == Len(c)
           w == WorkFromDifficulty(header.difficulty)
           e == Append(c, header)
<1>1. n \in Nat /\ Len(e) = n + 1 /\ e[n + 1] = header
      /\ \A i \in 1 .. n : e[i] = c[i]
  OBVIOUS
<1>2. w \in Nat /\ w >= 1 /\ w <= MaxUint32
  <2>1. header.difficulty \in Difficulty
    BY ChainAssumption
  <2> QED BY <2>1, WorkBounds, ConsensusAssumption DEF Difficulty
<1> HIDE DEF w
<1>3. WorkUnits(e) = WorkUnits(c) \cup BlockUnits(n + 1, w)
  <2> HIDE DEF e, n
  <2>1. ASSUME NEW u \in WorkUnits(e) PROVE u \in WorkUnits(c) \cup BlockUnits(n + 1, w)
    <3>1. u \in (1 .. (n + 1)) \X Difficulty /\ u[2] <= WorkFromDifficulty(e[u[1]].difficulty)
      BY <1>1 DEF WorkUnits
    <3>2. u = <<u[1], u[2]>> /\ u[1] \in 1 .. (n + 1) /\ u[2] \in Difficulty
      BY <3>1
    <3>3. CASE u[1] = n + 1
      <4>1. u[2] \in 1 .. w
        BY <3>1, <3>2, <3>3, <1>1, <1>2, ConsensusAssumption DEF w, Difficulty
      <4> QED BY <3>2, <3>3, <4>1 DEF BlockUnits
    <3>4. CASE u[1] # n + 1
      <4>1. u[1] \in 1 .. n
        BY <3>2, <3>4, <1>1
      <4>2. u[2] <= WorkFromDifficulty(c[u[1]].difficulty)
        BY <4>1, <3>1, <1>1
      <4> QED BY <3>2, <4>1, <4>2 DEF WorkUnits, n
    <3> QED BY <3>3, <3>4
  <2>2. ASSUME NEW u \in WorkUnits(c) PROVE u \in WorkUnits(e)
    <3>1. u \in (1 .. n) \X Difficulty /\ u[2] <= WorkFromDifficulty(c[u[1]].difficulty)
      BY DEF WorkUnits, n
    <3>2. u \in (1 .. Len(e)) \X Difficulty /\ e[u[1]] = c[u[1]]
      BY <3>1, <1>1
    <3> QED BY <3>1, <3>2 DEF WorkUnits
  <2>3. ASSUME NEW u \in BlockUnits(n + 1, w) PROVE u \in WorkUnits(e)
    <3>1. u \in {n + 1} \X (1 .. w)
      BY DEF BlockUnits
    <3>2. u[1] = n + 1 /\ u[2] \in 1 .. w /\ u = <<u[1], u[2]>>
      BY <3>1
    <3>3. u[2] \in Difficulty /\ u[2] <= w
      BY <3>2, <1>2, ConsensusAssumption DEF Difficulty
    <3>4. u \in (1 .. Len(e)) \X Difficulty
      BY <3>2, <3>3, <1>1
    <3>5. u[2] <= WorkFromDifficulty(e[u[1]].difficulty)
      BY <3>2, <3>3, <1>1 DEF w
    <3> QED BY <3>4, <3>5 DEF WorkUnits
  <2> QED BY <2>1, <2>2, <2>3
<1>4. WorkUnits(c) \cap BlockUnits(n + 1, w) = {}
  <2> SUFFICES ASSUME NEW u \in WorkUnits(c), u \in BlockUnits(n + 1, w) PROVE FALSE
    OBVIOUS
  <2>1. u[1] \in 1 .. n
    BY DEF WorkUnits
  <2>2. u[1] = n + 1
    BY DEF BlockUnits
  <2> QED BY <2>1, <2>2, <1>1
<1>5. IsFiniteSet(WorkUnits(c)) /\ Cardinality(WorkUnits(c)) \in Nat
  BY WorkUnitsFinite
<1>6. IsFiniteSet(BlockUnits(n + 1, w)) /\ Cardinality(BlockUnits(n + 1, w)) = w
  BY <1>1, <1>2, BlockUnitsCardinality
<1>7. Cardinality({}) = 0
  BY FS_EmptySet
<1>8. Cardinality(WorkUnits(e)) = Cardinality(WorkUnits(c)) + w
  <2>1. Cardinality(WorkUnits(e))
          = Cardinality(WorkUnits(c)) + Cardinality(BlockUnits(n + 1, w))
              - Cardinality(WorkUnits(c) \cap BlockUnits(n + 1, w))
    BY <1>3, <1>5, <1>6, FS_Union
  <2>2. Cardinality(WorkUnits(c) \cap BlockUnits(n + 1, w)) = 0
    BY <1>4, <1>7, Zenon
  <2> HIDE DEF n, e
  <2> QED BY <2>1, <2>2, <1>2, <1>5, <1>6
<1>9. WorkFromDifficulty(GenesisDifficulty) \in Nat
  BY WorkBounds, ChainAssumption DEF Difficulty
<1> QED BY <1>2, <1>5, <1>8, <1>9 DEF WorkOf, w

-----------------------------------------------------------------------------
\* A block on top changes no hash below it.
LEMMA HashOfAppend ==
  ASSUME NEW c \in Seq(Header), NEW header \in Header, NEW h \in 0 .. Len(c)
  PROVE  Hash(Append(c, header), h) = Hash(c, h)
BY DEF Hash

\* Equal hashes at one height mean equal hashes at every height below it.
LEMMA HashLinks ==
  ASSUME NEW c \in Seq(Header), NEW d \in Seq(Header),
         NEW h \in Nat, SameBlock(c, d, h), NEW g \in 0 .. h
  PROVE  Hash(c, g) = Hash(d, g)
<1>1. h <= Len(c) /\ h <= Len(d) /\ SubSeq(c, 1, h) = SubSeq(d, 1, h)
  BY DEF SameBlock, Hash
<1>2. \A i \in 1 .. h : c[i] = d[i]
  <2> TAKE i \in 1 .. h
  <2>1. SubSeq(c, 1, h)[i] = c[i] /\ SubSeq(d, 1, h)[i] = d[i]
    BY <1>1
  <2> QED BY <1>1, <2>1
<1> QED BY <1>1, <1>2 DEF Hash

(***************************************************************************)
(* A candidate that links to the tip is the chain with its last block.     *)
(***************************************************************************)
LEMMA LinkedCandidate ==
  ASSUME NEW c \in Seq(Header), NEW d \in Seq(Header),
         Len(d) = Len(c) + 1, Hash(d, Len(c)) = c
  PROVE  /\ d[Len(d)] \in Header
         /\ d = Append(c, d[Len(d)])
<1>1. d[Len(d)] \in Header
  OBVIOUS
<1>2. \A i \in 1 .. Len(c) : d[i] = c[i]
  BY DEF Hash
<1>3. \A i \in 1 .. Len(d) : d[i] = Append(c, d[Len(d)])[i]
  BY <1>1, <1>2
<1> QED BY <1>1, <1>3

-----------------------------------------------------------------------------
(***************************************************************************)
(* The inductive invariant.  Comparing a candidate with the cached work    *)
(* only means something because the cache is exact.                        *)
(***************************************************************************)
IInv == TypeOK /\ ChainStaysValid /\ CachedWorkIsExact

LEMMA InitIInv == Init => IInv
<1> SUFFICES ASSUME Init PROVE IInv
  OBVIOUS
<1>1. chain \in Seq(Header) /\ Len(chain) = 0
  BY DEF Init
<1>2. WorkUnits(chain) = {}
  BY <1>1 DEF WorkUnits
<1>3. Cardinality(WorkUnits(chain)) = 0
  BY <1>2, FS_EmptySet
<1>4. WorkFromDifficulty(GenesisDifficulty) \in Nat
  BY WorkBounds, ChainAssumption DEF Difficulty
<1>5. CachedWorkIsExact
  BY <1>3, <1>4 DEF Init, CachedWorkIsExact, WorkOf
<1>6. ChainStaysValid
  BY <1>1 DEF Init, ChainStaysValid, ValidChain
<1> QED BY <1>1, <1>4, <1>5, <1>6 DEF IInv, TypeOK, Init

LEMMA AcceptBlockIInv ==
  ASSUME IInv, NEW candidate \in Candidate, AcceptBlock(candidate)
  PROVE  IInv'
<1> DEFINE header == candidate[Len(candidate)]
<1>1. chain \in Seq(Header) /\ candidate \in Seq(Header) /\ totalWork \in Nat
  BY ChainAssumption DEF IInv, TypeOK
<1>2. header \in Header /\ candidate = Append(chain, header)
  BY <1>1, LinkedCandidate DEF AcceptBlock
<1>3. /\ chain' = Append(chain, header)
      /\ totalWork' = totalWork + WorkFromDifficulty(header.difficulty)
      /\ CanAddBlock(chain, header)
      /\ Replays(candidate)
  BY DEF AcceptBlock
<1> HIDE DEF header
<1>4. WorkFromDifficulty(header.difficulty) \in Nat
  BY <1>2, WorkBounds, ChainAssumption DEF Difficulty
<1>5. TypeOK'
  BY <1>1, <1>2, <1>3, <1>4 DEF TypeOK
<1>6. CachedWorkIsExact'
  BY <1>1, <1>2, <1>3, WorkOfAppend DEF IInv, CachedWorkIsExact
<1>7. ValidChain(Append(chain, header))
  <2> DEFINE e == Append(chain, header)
  <2> SUFFICES ASSUME NEW h \in 1 .. Len(e) PROVE CanAddBlock(Hash(e, h - 1), e[h])
    BY DEF ValidChain
  <2>1. Len(e) = Len(chain) + 1 /\ Len(chain) \in Nat
    BY <1>1
  <2>2. Hash(e, h - 1) = Hash(chain, h - 1)
    <3>1. h - 1 \in 0 .. Len(chain)
      BY <2>1
    <3> QED BY <3>1, <1>1, <1>2, HashOfAppend
  <2>3. CASE h = Len(chain) + 1
    <3>1. Hash(chain, h - 1) = chain /\ e[h] = header
      BY <2>3, <1>1, <1>2 DEF Hash
    <3> QED BY <3>1, <2>2, <1>3
  <2>4. CASE h # Len(chain) + 1
    <3>1. h \in 1 .. Len(chain) /\ e[h] = chain[h]
      BY <2>1, <2>4, <1>1, <1>2
    <3>2. CanAddBlock(Hash(chain, h - 1), chain[h])
      BY <3>1 DEF IInv, ChainStaysValid, ValidChain
    <3> QED BY <3>1, <3>2, <2>2
  <2> QED BY <2>3, <2>4
<1>8. ChainStaysValid'
  BY <1>2, <1>3, <1>7 DEF ChainStaysValid
<1> QED BY <1>5, <1>6, <1>8 DEF IInv

LEMMA ReorganizeIInv ==
  ASSUME IInv, NEW candidate \in Candidate, ReorganizeToCandidate(candidate)
  PROVE  IInv'
<1>1. candidate \in Seq(Header)
  BY ChainAssumption
<1>2. /\ chain' = candidate /\ totalWork' = WorkOf(candidate)
      /\ ValidChain(candidate) /\ Replays(candidate)
  BY DEF ReorganizeToCandidate
<1> QED BY <1>1, <1>2, WorkOfType
        DEF IInv, TypeOK, ChainStaysValid, CachedWorkIsExact

LEMMA NextIInv == IInv /\ [Next]_vars => IInv'
<1> SUFFICES ASSUME IInv, [Next]_vars PROVE IInv'
  OBVIOUS
<1>1. CASE UNCHANGED vars
  <2>1. chain' = chain /\ totalWork' = totalWork
    BY <1>1 DEF vars
  <2> QED BY <2>1 DEF IInv, TypeOK, ChainStaysValid, CachedWorkIsExact
<1>2. CASE Next
  BY <1>2, AcceptBlockIInv, ReorganizeIInv DEF Next
<1> QED BY <1>1, <1>2

(***************************************************************************)
(* For all parameters: the chain always revalidates from genesis and       *)
(* replays, and the cached work is the work of its blocks                  *)
(* (AddBlock, ReorganizeToCandidate).                                      *)
(***************************************************************************)
THEOREM ChainSafety == Spec => [](TypeOK /\ ChainIsExact)
BY InitIInv, NextIInv, PTL DEF Spec, IInv, ChainIsExact

LEMMA IInvAlways == Spec => []IInv
BY InitIInv, NextIInv, PTL DEF Spec

LEMMA BetterStep ==
  ASSUME IInv, [Next]_vars
  PROVE  [\/ totalWork' > totalWork
          \/ totalWork' = totalWork /\ Len(chain') > Len(chain)]_vars
<1> SUFFICES ASSUME NEW candidate \in Candidate,
                    AcceptBlock(candidate) \/ ReorganizeToCandidate(candidate)
             PROVE  \/ totalWork' > totalWork
                    \/ totalWork' = totalWork /\ Len(chain') > Len(chain)
  BY DEF Next
<1>1. chain \in Seq(Header) /\ candidate \in Seq(Header) /\ totalWork \in Nat
  BY ChainAssumption DEF IInv, TypeOK
<1>2. CASE AcceptBlock(candidate)
  <2> DEFINE header == candidate[Len(candidate)]
  <2>1. header \in Header
    BY <1>1, <1>2, LinkedCandidate DEF AcceptBlock
  <2>2. totalWork' = totalWork + WorkFromDifficulty(header.difficulty)
    BY <1>2 DEF AcceptBlock
  <2> HIDE DEF header
  <2>3. header.difficulty \in Difficulty
    BY <2>1, ChainAssumption
  <2>4. WorkFromDifficulty(header.difficulty) \in 1 .. header.difficulty
    BY <2>3, WorkBounds
  <2> QED BY <1>1, <2>2, <2>3, <2>4 DEF Difficulty
<1>3. CASE ReorganizeToCandidate(candidate)
  BY <1>3 DEF ReorganizeToCandidate, BetterChain
<1> QED BY <1>2, <1>3

(***************************************************************************)
(* Fork choice makes progress: the pair of work and height only grows      *)
(* (BetterChain, AddBlock).                                                *)
(***************************************************************************)
THEOREM ForkChoiceProgress == Spec => OnlyBetterChains
BY IInvAlways, BetterStep, PTL DEF Spec, OnlyBetterChains

LEMMA FinalizedStep ==
  ASSUME IInv, [Next]_vars
  PROVE  [/\ Len(chain') >= FinalizedHeight(chain)
          /\ \A h \in 0 .. FinalizedHeight(chain) :
               Hash(chain', h) = Hash(chain, h)]_vars
<1> DEFINE F == FinalizedHeight(chain)
<1> SUFFICES ASSUME NEW candidate \in Candidate,
                    AcceptBlock(candidate) \/ ReorganizeToCandidate(candidate)
             PROVE  /\ Len(chain') >= F
                    /\ \A h \in 0 .. F : Hash(chain', h) = Hash(chain, h)
  BY DEF Next
<1>1. chain \in Seq(Header) /\ candidate \in Seq(Header)
  BY ChainAssumption DEF IInv, TypeOK
<1>2. F \in Nat /\ F <= Len(chain)
  BY <1>1, ChainAssumption DEF FinalizedHeight
<1> HIDE DEF F
<1>3. CASE AcceptBlock(candidate)
  <2> DEFINE header == candidate[Len(candidate)]
  <2>1. header \in Header
    BY <1>1, <1>3, LinkedCandidate DEF AcceptBlock
  <2>2. chain' = Append(chain, header)
    BY <1>3 DEF AcceptBlock
  <2> HIDE DEF header
  <2>3. Len(chain') >= F
    BY <1>1, <1>2, <2>1, <2>2
  <2>4. ASSUME NEW h \in 0 .. F PROVE Hash(chain', h) = Hash(chain, h)
    <3>1. h \in 0 .. Len(chain)
      BY <1>1, <1>2
    <3> QED BY <3>1, <1>1, <2>1, <2>2, HashOfAppend
  <2> QED BY <2>3, <2>4
<1>4. CASE ReorganizeToCandidate(candidate)
  <2>1. PICK commonHeight \in 0 .. Len(chain) :
               SameBlock(chain, candidate, commonHeight) /\ commonHeight >= F
    BY <1>4 DEF ReorganizeToCandidate, IsCommonHeight, ValidateFinalizedReorg, F
  <2>2. chain' = candidate
    BY <1>4 DEF ReorganizeToCandidate
  <2>3. commonHeight \in Nat /\ Len(candidate) >= commonHeight
    BY <1>1, <2>1 DEF SameBlock
  <2>4. Len(chain') >= F
    BY <1>1, <1>2, <2>1, <2>2, <2>3
  <2>5. ASSUME NEW h \in 0 .. F PROVE Hash(chain', h) = Hash(chain, h)
    <3>1. h \in 0 .. commonHeight
      BY <1>2, <2>1, <2>3
    <3> QED BY <3>1, <1>1, <2>1, <2>2, <2>3, HashLinks
  <2> QED BY <2>4, <2>5
<1> QED BY <1>3, <1>4

(***************************************************************************)
(* Finality: no step of the node replaces a block at or below its          *)
(* finalized height (ValidateFinalizedReorg).                              *)
(***************************************************************************)
THEOREM FinalityKept == Spec => FinalizedBlocksStay
BY IInvAlways, FinalizedStep, PTL DEF Spec, FinalizedBlocksStay

-----------------------------------------------------------------------------
(***************************************************************************)
(* The mainnet schedule, for every table and epoch length.                 *)
(***************************************************************************)

\* A block of offsets and amounts, all of them paid.
Slab(lo, hi, from, to) == (lo .. hi) \X (from .. to)

LEMMA SlabFinite ==
  ASSUME NEW hi \in Int, NEW from \in Int, NEW to \in Int
  PROVE  IsFiniteSet(Slab(0, hi, from, to))
<1> DEFINE S == 0 .. hi
           T == from .. to
<1>1. IsFiniteSet(S) /\ IsFiniteSet(T)
  BY FS_Interval
<1> HIDE DEF S, T
<1>2. IsFiniteSet(S \X T)
  BY <1>1, FS_Product, Zenon
<1> QED BY <1>2 DEF S, T, Slab

LEMMA SlabCardinality ==
  ASSUME NEW n \in Nat, NEW from \in Nat, NEW to \in Nat, from <= to + 1
  PROVE  Cardinality(Slab(0, n - 1, from, to)) = n * (to - from + 1)
<1> DEFINE S == 0 .. (n - 1)
           T == from .. to
<1>1. IsFiniteSet(S) /\ IsFiniteSet(T)
  BY FS_Interval
<1>2. Cardinality(S) = n
  BY FS_Interval
<1>3. Cardinality(T) = to - from + 1
  BY FS_Interval
<1> HIDE DEF S, T
<1>4. Cardinality(S \X T) = Cardinality(S) * Cardinality(T)
  BY <1>1, FS_Product, Zenon
<1>5. Cardinality(S \X T) = n * (to - from + 1)
  BY <1>2, <1>3, <1>4
<1> QED BY <1>5 DEF S, T, Slab

(***************************************************************************)
(* The blocks of one epoch pay out exactly the epoch's issuance: each pays *)
(* the quotient, and as many as the remainder pay one unit more            *)
(* (BlockSubsidyFor).                                                      *)
(***************************************************************************)
LEMMA EpochPaysIssuance ==
  ASSUME NEW issuance \in Nat
  PROVE  Cardinality(EpochUnits(issuance)) = issuance
<1> DEFINE L == MainnetEpochLength
           base == issuance \div L
           rest == issuance % L
<1>1. L \in Nat /\ L >= 1
  BY EmissionAssumption
<1>2. /\ base \in Nat /\ rest \in 0 .. (L - 1)
      /\ issuance = L * base + rest
  BY <1>1
<1>3. base <= issuance
  <2> HIDE DEF base, rest
  <2>1. base <= L * base
    BY <1>1, <1>2
  <2> QED BY <1>1, <1>2, <2>1
<1>4. \A o \in 0 .. (L - 1) :
        EpochSubsidy(issuance, o) = base + (IF o < rest THEN 1 ELSE 0)
  BY DEF EpochSubsidy
<1> DEFINE A == Slab(0, L - 1, 1, base)
           B == Slab(0, rest - 1, base + 1, base + 1)
<1>5. EpochUnits(issuance) = A \cup B
  <2>1. EpochUnits(issuance) =
          {u \in (0 .. (L - 1)) \X (1 .. (issuance + 1)) :
             u[2] <= EpochSubsidy(issuance, u[1])}
    BY DEF EpochUnits
  <2> HIDE DEF base, rest, L
  <2>2. ASSUME NEW u \in EpochUnits(issuance) PROVE u \in A \cup B
    <3>1. /\ u = <<u[1], u[2]>> /\ u[1] \in 0 .. (L - 1)
          /\ u[2] \in 1 .. (issuance + 1)
          /\ u[2] <= base + (IF u[1] < rest THEN 1 ELSE 0)
      BY <2>1, <1>4
    <3>2. CASE u[2] <= base
      BY <3>1, <3>2, <1>2 DEF Slab
    <3>3. CASE u[2] > base
      <4>1. u[1] < rest /\ u[2] = base + 1
        BY <3>1, <3>3, <1>2
      <4>2. u[1] \in 0 .. (rest - 1) /\ u[2] \in (base + 1) .. (base + 1)
        BY <4>1, <3>1, <1>1, <1>2
      <4> QED BY <4>2, <3>1 DEF Slab
    <3> QED BY <3>1, <3>2, <3>3, <1>2
  <2>3. ASSUME NEW u \in A PROVE u \in EpochUnits(issuance)
    <3>1. u \in (0 .. (L - 1)) \X (1 .. base)
      BY DEF Slab
    <3>2. u[1] \in 0 .. (L - 1) /\ u[2] \in 1 .. base /\ u = <<u[1], u[2]>>
      BY <3>1
    <3>3. u[2] \in 1 .. (issuance + 1) /\ u[2] <= EpochSubsidy(issuance, u[1])
      BY <3>2, <1>2, <1>3, <1>4
    <3> QED BY <2>1, <3>2, <3>3
  <2>4. ASSUME NEW u \in B PROVE u \in EpochUnits(issuance)
    <3>1. u \in (0 .. (rest - 1)) \X ((base + 1) .. (base + 1))
      BY DEF Slab
    <3>2. /\ u[1] \in 0 .. (rest - 1) /\ u[2] \in (base + 1) .. (base + 1)
          /\ u = <<u[1], u[2]>>
      BY <3>1
    <3>3. u[1] \in 0 .. (L - 1) /\ u[1] < rest /\ u[2] = base + 1
      BY <3>2, <1>1, <1>2
    <3>4. u[2] \in 1 .. (issuance + 1) /\ u[2] <= EpochSubsidy(issuance, u[1])
      BY <3>3, <1>2, <1>3, <1>4
    <3> QED BY <2>1, <3>2, <3>3, <3>4
  <2> QED BY <2>2, <2>3, <2>4
<1> HIDE DEF base, rest, L
<1>6. A \cap B = {}
  <2> SUFFICES ASSUME NEW u \in A, u \in B PROVE FALSE
    OBVIOUS
  <2>1. u[2] \in 1 .. base
    BY DEF Slab
  <2>2. u[2] \in (base + 1) .. (base + 1)
    BY DEF Slab
  <2> QED BY <2>1, <2>2, <1>2
<1>7. IsFiniteSet(A) /\ IsFiniteSet(B)
  BY <1>1, <1>2, SlabFinite
<1>8. Cardinality(A) = L * base
  <2>1. Cardinality(A) = L * (base - 1 + 1)
    BY <1>1, <1>2, SlabCardinality
  <2> QED BY <1>1, <1>2, <2>1
<1>9. Cardinality(B) = rest
  <2>1. Cardinality(B) = rest * ((base + 1) - (base + 1) + 1)
    BY <1>1, <1>2, SlabCardinality
  <2> QED BY <1>1, <1>2, <2>1
<1> HIDE DEF A, B
<1>10. Cardinality(A \cap B) = 0
  BY <1>6, FS_EmptySet
<1>11. Cardinality(A \cup B) = Cardinality(A) + Cardinality(B) - Cardinality(A \cap B)
  BY <1>7, FS_Union
<1>12. Cardinality(A \cup B) = L * base + rest
  BY <1>1, <1>2, <1>8, <1>9, <1>10, <1>11
<1> QED BY <1>2, <1>5, <1>12

(***************************************************************************)
(* Every epoch of any table pays exactly its issuance (BlockSubsidyFor).   *)
(***************************************************************************)
THEOREM EpochIssuance == EpochsAreExact
BY EpochPaysIssuance, EmissionAssumption DEF EpochsAreExact
=============================================================================
