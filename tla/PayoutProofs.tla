---------------------------- MODULE PayoutProofs ----------------------------
(***************************************************************************)
(* The balances of the pool's ledger add up to what its scheme promises,   *)
(* for any workers, fee, difficulties and window.                          *)
(***************************************************************************)
EXTENDS MiningPool, FiniteSetTheorems, WellFoundedInduction, TLAPS

Everyone == Worker \cup Other

-----------------------------------------------------------------------------
(***************************************************************************)
(* Counting.                                                               *)
(***************************************************************************)

\* A set of naturals that has 0 and with each number the next has them all.
LEMMA Induction ==
  ASSUME NEW S, 0 \in S, \A n \in Nat : n \in S => n + 1 \in S
  PROVE  \A n \in Nat : n \in S
<1> DEFINE R == OpToRel(<, Nat)
<1> SUFFICES ASSUME NEW n \in Nat, n \notin S PROVE FALSE
  OBVIOUS
<1>1. IsWellFoundedOn(R, Nat)
  BY NatLessThanWellFounded
<1>2. \A i, j \in Nat : <<i, j>> \in R <=> i < j
  BY DEF OpToRel
<1> HIDE DEF R
<1>3. PICK m \in Nat \ S : \A k \in Nat \ S : ~ (<<k, m>> \in R)
  BY Zenon, <1>1, WFMin
<1>4. m # 0 /\ m - 1 \in Nat /\ m - 1 < m
  BY <1>3
<1>5. m - 1 \in S
  BY Zenon, <1>2, <1>3, <1>4
<1> QED
  BY <1>3, <1>4, <1>5

\* Giving v more to one of them adds v to the sum.
LEMMA SumAfterCredit ==
  ASSUME NEW X, NEW f \in [X -> Nat], IsFiniteSet(UnderGraph(f)),
         NEW x \in X, NEW v \in Nat,
         NEW g \in [X -> Nat], g[x] = f[x] + v, \A y \in X \ {x} : g[y] = f[y]
  PROVE  /\ IsFiniteSet(UnderGraph(g))
         /\ Sum(g) = Sum(f) + v
         /\ Sum(f) \in Nat
<1> DEFINE lo == f[x] + 1
           hi == f[x] + v
           new == {x} \X (lo .. hi)
<1>1. g \in [X -> Nat] /\ g[x] = f[x] + v /\ \A y \in X \ {x} : g[y] = f[y]
  OBVIOUS
<1>2. IsFiniteSet(new) /\ Cardinality(new) = v
  <2>1. lo \in Int /\ hi \in Int /\ (IF lo > hi THEN 0 ELSE hi - lo + 1) = v
    OBVIOUS
  <2> HIDE DEF lo, hi
  <2>2. IsFiniteSet(lo .. hi) /\ Cardinality(lo .. hi) = v
    BY Zenon, <2>1, FS_Interval
  <2>3. IsFiniteSet({x}) /\ Cardinality({x}) = 1
    BY Zenon, FS_Singleton
  <2> DEFINE I == lo .. hi
  <2> HIDE DEF I
  <2>4. /\ IsFiniteSet({x} \X I)
        /\ Cardinality({x} \X I) = Cardinality({x}) * Cardinality(I)
    BY <2>2, <2>3, FS_Product, Zenon DEF I
  <2>5. new = {x} \X I
    BY DEF I
  <2> HIDE DEF new
  <2>6. Cardinality(new) = 1 * v
    BY <2>2, <2>3, <2>4, <2>5 DEF I
  <2>7. Cardinality(new) = v
    BY <2>6
  <2> QED
    BY <2>4, <2>5, <2>7
<1>3. \A p : p \in UnderGraph(f) <=> \E y \in X : \E i \in 1 .. f[y] : p = <<y, i>>
  BY DEF UnderGraph
<1>4. \A p : p \in UnderGraph(g) <=> \E y \in X : \E i \in 1 .. g[y] : p = <<y, i>>
  BY <1>1 DEF UnderGraph
<1>5. \A p : p \in new <=> \E i \in lo .. hi : p = <<x, i>>
  OBVIOUS
<1>6. UnderGraph(g) = UnderGraph(f) \cup new
  <2>1. ASSUME NEW p \in UnderGraph(g) PROVE p \in UnderGraph(f) \cup new
    <3>1. PICK y \in X, i \in Nat : i \in 1 .. g[y] /\ p = <<y, i>>
      <4>1. \A y \in X : \A i \in 1 .. g[y] : i \in Nat
        BY <1>1
      <4> QED
        BY <1>4, <4>1
    <3>2. CASE y # x
      BY <1>1, <1>3, <3>1, <3>2
    <3>3. CASE y = x /\ i <= f[x]
      BY <1>3, <3>1, <3>3
    <3>4. CASE y = x /\ ~ (i <= f[x])
      BY <1>1, <1>5, <3>1, <3>4
    <3> QED
      BY <3>2, <3>3, <3>4
  <2>2. ASSUME NEW p \in UnderGraph(f) PROVE p \in UnderGraph(g)
    <3>1. PICK y \in X, i \in Nat : i \in 1 .. f[y] /\ p = <<y, i>>
      BY <1>3
    <3>2. i \in 1 .. g[y]
      BY <1>1, <3>1
    <3> QED
      BY <1>4, <3>1, <3>2
  <2>3. ASSUME NEW p \in new PROVE p \in UnderGraph(g)
    <3>1. PICK i \in lo .. hi : p = <<x, i>>
      BY <1>5
    <3>2. i \in 1 .. g[x]
      BY <1>1, <3>1
    <3> QED
      BY <1>4, <3>1, <3>2
  <2> QED
    BY <2>1, <2>2, <2>3
<1>7. UnderGraph(f) \cap new = {}
  <2> SUFFICES ASSUME NEW p \in UnderGraph(f), p \in new PROVE FALSE
    OBVIOUS
  <2>1. PICK y \in X, i \in Nat : i \in 1 .. f[y] /\ p = <<y, i>>
    BY <1>3
  <2>2. PICK j \in lo .. hi : p = <<x, j>>
    BY <1>5
  <2> QED
    BY <2>1, <2>2
<1> HIDE DEF new
<1>8. /\ IsFiniteSet(UnderGraph(g))
      /\ Cardinality(UnderGraph(g))
           = Cardinality(UnderGraph(f)) + Cardinality(new) - Cardinality({})
  BY <1>2, <1>6, <1>7, FS_Union
<1>9. Cardinality(UnderGraph(f)) \in Nat
  BY FS_CardinalityType
<1>10. Sum(g) = Sum(f) + v /\ Sum(f) \in Nat
  BY <1>2, <1>8, <1>9, FS_EmptySet DEF Sum
<1> QED
  BY <1>1, <1>8, <1>10

-----------------------------------------------------------------------------
(***************************************************************************)
(* The ledger of one scheme.                                               *)
(***************************************************************************)
PerShare(scheme) == IF scheme \in {"pps", "fpps"} THEN applyFee(ShareValue) ELSE 0
PerBlock(scheme) == IF scheme = "pps" THEN 0 ELSE applyFee(BlockReward)

Owed(scheme, l) == Sum(l.credited) * PerShare(scheme) + l.blocksFound * PerBlock(scheme)

Dust(scheme, l) == IF scheme = "pplns" THEN l.blocksFound * (Window - 1) ELSE 0

Countable(f) == f \in [Everyone -> Nat] /\ IsFiniteSet(UnderGraph(f))

(***************************************************************************)
(* Beside the sums: what is counted is finite, and the shares that PPLNS   *)
(* pays are those of workers and fit the window.                           *)
(***************************************************************************)
LedgerInv(scheme, l) ==
  /\ Countable(l.balances)
  /\ Countable(l.credited)
  /\ l.blocksFound \in Nat
  /\ l.pending \in Seq(Everyone) /\ Len(l.pending) <= Window
  /\ Sum(l.balances) <= Owed(scheme, l)
  /\ Owed(scheme, l) <= Sum(l.balances) + Dust(scheme, l)

\* A fee takes a part of an amount, never more than it.
LEMMA FeeType ==
  ASSUME NEW amount \in Nat
  PROVE  applyFee(amount) \in Nat
<1> DEFINE fee == (amount * poolFeeBPS) \div FeeDivisor
<1>1. /\ poolFeeBPS \in Nat /\ FeeDivisor \in Nat \ {0}
      /\ poolFeeBPS <= FeeDivisor /\ amount * poolFeeBPS \in Nat
  BY MiningPoolAssumption
<1>2. amount * poolFeeBPS <= amount * FeeDivisor
  BY <1>1
<1>3. fee \in Nat /\ fee * FeeDivisor <= amount * poolFeeBPS
  BY <1>1
<1> HIDE DEF fee
<1>4. fee <= amount
  <2> SUFFICES ASSUME amount + 1 <= fee PROVE FALSE
    BY <1>3
  <2>1. (amount + 1) * FeeDivisor <= fee * FeeDivisor
    BY <1>1, <1>3
  <2>2. (amount + 1) * FeeDivisor = amount * FeeDivisor + FeeDivisor
    BY <1>1
  <2> QED
    BY <1>1, <1>2, <1>3, <2>1, <2>2
<1> QED
  BY <1>3, <1>4 DEF applyFee, fee

LEMMA Promises ==
  /\ applyFee(BlockReward) \in Nat
  /\ \A scheme \in PayoutScheme : PerShare(scheme) \in Nat /\ PerBlock(scheme) \in Nat
<1>1. ShareValue \in Nat
  BY MiningPoolAssumption DEF ShareValue
<1> QED
  BY <1>1, FeeType, MiningPoolAssumption DEF PerShare, PerBlock

LEMMA CountAfterCredit ==
  ASSUME NEW f, Countable(f), NEW w \in Everyone, NEW v \in Nat
  PROVE  /\ Countable([f EXCEPT ![w] = @ + v])
         /\ Sum([f EXCEPT ![w] = @ + v]) = Sum(f) + v
         /\ Sum(f) \in Nat
<1> DEFINE g == [f EXCEPT ![w] = @ + v]
<1>1. f \in [Everyone -> Nat] /\ IsFiniteSet(UnderGraph(f))
  BY DEF Countable
<1>2. /\ g \in [Everyone -> Nat] /\ g[w] = f[w] + v
      /\ \A y \in Everyone \ {w} : g[y] = f[y]
  BY <1>1
<1> HIDE DEF g
<1>3. IsFiniteSet(UnderGraph(g)) /\ Sum(g) = Sum(f) + v /\ Sum(f) \in Nat
  BY <1>1, <1>2, SumAfterCredit
<1> QED
  BY <1>2, <1>3 DEF g, Countable

\* Each of n shares gets the same part: together n parts.
LEMMA SumAfterPPLNS ==
  ASSUME NEW balances, Countable(balances), NEW shares \in Seq(Everyone),
         NEW part \in Nat
  PROVE  LET new == [w \in Everyone |->
                       balances[w] + Cardinality({i \in DOMAIN shares : shares[i] = w}) * part]
         IN  Countable(new) /\ Sum(new) = Sum(balances) + Len(shares) * part
<1> DEFINE Of(n, w) == {i \in 1 .. n : shares[i] = w}
           D(n) == [w \in Everyone |-> balances[w] + Cardinality(Of(n, w)) * part]
           S == {n \in Nat : n <= Len(shares) =>
                   Countable(D(n)) /\ Sum(D(n)) = Sum(balances) + n * part}
<1>1. ASSUME NEW n \in Nat, NEW w PROVE IsFiniteSet(Of(n, w)) /\ Cardinality(Of(n, w)) \in Nat
  <2>1. IsFiniteSet(1 .. n)
    BY FS_Interval
  <2>2. Of(n, w) \in SUBSET (1 .. n)
    OBVIOUS
  <2> HIDE DEF Of
  <2> QED
    BY <2>1, <2>2, FS_Subset, FS_CardinalityType
<1>2. 0 \in S
  <2>1. \A w : Of(0, w) = {}
    OBVIOUS
  <2>2. D(0) = balances
    <3> HIDE DEF Of
    <3>1. balances \in [Everyone -> Nat]
      BY DEF Countable
    <3>2. \A w : Cardinality(Of(0, w)) = 0
      BY Zenon, <2>1, FS_EmptySet
    <3>3. \A w \in Everyone : balances[w] + Cardinality(Of(0, w)) * part = balances[w]
      BY <3>1, <3>2
    <3> QED
      BY <3>1, <3>3
  <2>3. Sum(balances) \in Nat
    BY FS_CardinalityType DEF Countable, Sum
  <2> HIDE DEF D
  <2> QED
    BY <2>2, <2>3
<1>3. ASSUME NEW n \in Nat, n \in S PROVE n + 1 \in S
  <2> SUFFICES ASSUME n + 1 <= Len(shares)
               PROVE  Countable(D(n + 1)) /\ Sum(D(n + 1)) = Sum(balances) + (n + 1) * part
    OBVIOUS
  <2> DEFINE x == shares[n + 1]
  <2>1. x \in Everyone /\ Countable(D(n)) /\ Sum(D(n)) = Sum(balances) + n * part
    BY <1>3
  <2>2. Of(n + 1, x) = Of(n, x) \cup {n + 1} /\ n + 1 \notin Of(n, x)
    OBVIOUS
  <2>3. \A w : w # x => Of(n + 1, w) = Of(n, w)
    OBVIOUS
  <2> HIDE DEF Of, x
  <2>4. Cardinality(Of(n + 1, x)) = Cardinality(Of(n, x)) + 1
    BY <1>1, <2>2, FS_AddElement
  <2>5. D(n + 1) = [D(n) EXCEPT ![x] = @ + part]
    <3>1. ASSUME NEW w \in Everyone, w # x
          PROVE  Cardinality(Of(n + 1, w)) = Cardinality(Of(n, w))
      BY <2>3, <3>1
    <3>2. balances[x] \in Nat
      BY <2>1 DEF Countable
    <3>3. (Cardinality(Of(n, x)) + 1) * part = Cardinality(Of(n, x)) * part + part
      BY <1>1
    <3>4. Cardinality(Of(n, x)) * part \in Nat
      BY <1>1
    <3> QED
      BY <2>1, <2>4, <3>1, <3>2, <3>3, <3>4
  <2> HIDE DEF D
  <2>6. Countable(D(n + 1)) /\ Sum(D(n + 1)) = Sum(D(n)) + part
    BY <2>1, <2>5, CountAfterCredit
  <2>7. /\ (n + 1) * part = n * part + part /\ n * part \in Nat
        /\ Sum(balances) \in Nat
    BY FS_CardinalityType DEF Countable, Sum
  <2> QED
    BY <2>1, <2>6, <2>7
<1>4. \A n \in Nat : n \in S
  <2> HIDE DEF S
  <2> QED
    BY <1>2, <1>3, Induction
<1>5. Len(shares) \in Nat /\ DOMAIN shares = 1 .. Len(shares)
  OBVIOUS
<1>6. Countable(D(Len(shares))) /\ Sum(D(Len(shares))) = Sum(balances) + Len(shares) * part
  BY <1>4, <1>5
<1> QED
  BY <1>5, <1>6

\* An equal part for each of n shares leaves less than n units over.
LEMMA PartsAndDust ==
  ASSUME NEW amount \in Nat, NEW n \in Nat \ {0}
  PROVE  /\ amount \div n \in Nat
         /\ n * (amount \div n) <= amount
         /\ amount <= n * (amount \div n) + (n - 1)
<1>1. /\ amount = n * (amount \div n) + (amount % n)
      /\ amount % n \in 0 .. (n - 1)
      /\ amount \div n \in Nat
  OBVIOUS
<1> QED
  BY <1>1

\* The balances after one more share grow by what the scheme owes for it,
\* but for the dust of a PPLNS block.
LEMMA OwedGrows ==
  ASSUME NEW x \in Nat, NEW y \in Nat, NEW d \in Nat, NEW dust \in Nat, NEW more \in Nat,
         NEW shares \in Nat, NEW blocks \in Nat, NEW k \in Nat,
         NEW perShare \in Nat, NEW perBlock \in Nat,
         y = x + d,
         x <= shares * perShare + blocks * perBlock,
         shares * perShare + blocks * perBlock <= x + dust,
         d <= perShare + k * perBlock, perShare + k * perBlock <= d + more
  PROVE  /\ y <= (shares + 1) * perShare + (blocks + k) * perBlock
         /\ (shares + 1) * perShare + (blocks + k) * perBlock <= y + (dust + more)
<1>1. (shares + 1) * perShare = shares * perShare + perShare
  OBVIOUS
<1>2. (blocks + k) * perBlock = blocks * perBlock + k * perBlock
  OBVIOUS
<1>3. /\ shares * perShare \in Nat /\ blocks * perBlock \in Nat /\ k * perBlock \in Nat
  OBVIOUS
<1> QED
  BY <1>1, <1>2, <1>3

\* The window after one more share.
LEMMA LastSharesIs ==
  ASSUME NEW pending \in Seq(Everyone), Len(pending) <= Window, NEW w \in Everyone
  PROVE  /\ lastShares(Append(pending, w)) \in Seq(Everyone)
         /\ Len(lastShares(Append(pending, w))) \in 1 .. Window
<1> DEFINE s == Append(pending, w)
<1>1. s \in Seq(Everyone) /\ Len(s) = Len(pending) + 1 /\ Len(pending) \in Nat
  OBVIOUS
<1>2. Window \in Nat \ {0}
  BY MiningPoolAssumption
<1> HIDE DEF s
<1>3. CASE Len(s) > Window
  <2> DEFINE m == Len(s) - Window + 1
             n == Len(s)
  <2>1. m \in 1 .. Len(s) /\ n \in 1 .. Len(s) /\ n - m + 1 = Window
    BY <1>1, <1>2, <1>3
  <2> HIDE DEF m, n
  <2>2. SubSeq(s, m, n) \in Seq(Everyone) /\ Len(SubSeq(s, m, n)) = n - m + 1
    BY <1>1, <2>1
  <2> QED
    BY <1>2, <1>3, <2>1, <2>2 DEF lastShares, m, n, s
<1>4. CASE ~ (Len(s) > Window)
  BY <1>1, <1>2, <1>4 DEF lastShares, s
<1> QED
  BY <1>3, <1>4

\* What CreditShare does to the balances, by the scheme and the share.
Paid(scheme, l, w, kind) == Credited(scheme, l, w, kind).balances

LEMMA PaidIs ==
  ASSUME NEW scheme \in PayoutScheme, NEW l, LedgerInv(scheme, l), NEW w \in Everyone,
         NEW kind \in {"valid", "block"},
         NEW k \in Nat, k = (IF kind = "block" THEN 1 ELSE 0)
  PROVE  \E d \in Nat, more \in Nat :
           /\ Countable(Paid(scheme, l, w, kind))
           /\ Sum(Paid(scheme, l, w, kind)) = Sum(l.balances) + d
           /\ d <= PerShare(scheme) + k * PerBlock(scheme)
           /\ PerShare(scheme) + k * PerBlock(scheme) <= d + more
           /\ more = IF scheme = "pplns" THEN k * (Window - 1) ELSE 0
<1> DEFINE ps == IF scheme \in {"pps", "fpps"} THEN applyFee(ShareValue) ELSE 0
           pb == IF scheme \in {"solo", "fpps"} /\ kind = "block"
                 THEN applyFee(BlockReward) ELSE 0
           b == [l.balances EXCEPT ![w] = @ + ps + pb]
           pending == IF scheme = "pplns" THEN lastShares(Append(l.pending, w)) ELSE <<>>
<1>1. /\ applyFee(BlockReward) \in Nat
      /\ PerShare(scheme) \in Nat /\ PerBlock(scheme) \in Nat
      /\ ps = PerShare(scheme) /\ pb \in Nat
      /\ scheme # "pplns" => pb = k * PerBlock(scheme)
      /\ scheme = "pplns" => ps = 0 /\ pb = 0 /\ PerBlock(scheme) = applyFee(BlockReward)
  BY Promises DEF PerShare, PerBlock, PayoutScheme
<1>2. Countable(l.balances) /\ l.pending \in Seq(Everyone) /\ Len(l.pending) <= Window
  BY DEF LedgerInv
<1>3. Paid(scheme, l, w, kind) = IF scheme = "pplns" /\ kind = "block"
                                 THEN distributePPLNS(b, pending) ELSE b
  BY DEF Paid, Credited
<1>4. b = [l.balances EXCEPT ![w] = @ + (ps + pb)]
  <2>1. l.balances \in [Everyone -> Nat] /\ ps \in Nat /\ pb \in Nat
    BY <1>1, <1>2 DEF Countable
  <2> HIDE DEF ps, pb
  <2> QED
    BY <2>1
<1> HIDE DEF ps, pb, b
<1>5. Countable(b) /\ Sum(b) = Sum(l.balances) + (ps + pb) /\ Sum(l.balances) \in Nat
  BY <1>1, <1>2, <1>4, CountAfterCredit
<1>6. CASE ~ (scheme = "pplns" /\ kind = "block")
  <2>1. ps + pb \in Nat
    BY <1>1
  <2>2. /\ ps + pb <= PerShare(scheme) + k * PerBlock(scheme)
        /\ PerShare(scheme) + k * PerBlock(scheme) <= ps + pb + 0
        /\ 0 = IF scheme = "pplns" THEN k * (Window - 1) ELSE 0
    <3>1. CASE scheme # "pplns"
      BY <1>1, <3>1
    <3>2. CASE scheme = "pplns"
      <4>1. k = 0 /\ Window - 1 \in Nat
        BY <1>6, <3>2, MiningPoolAssumption
      <4> QED
        BY <1>1, <3>2, <4>1
    <3> QED
      BY <3>1, <3>2
  <2>3. Paid(scheme, l, w, kind) = b
    BY <1>3, <1>6
  <2> QED
    BY <1>5, <2>1, <2>2, <2>3
<1>7. CASE scheme = "pplns" /\ kind = "block"
  <2> DEFINE A == applyFee(BlockReward)
             n == Len(pending)
             part == A \div n
  <2>1. pending \in Seq(Everyone) /\ n \in 1 .. Window
    BY Zenon, <1>2, <1>7, LastSharesIs
  <2>2. n \in Nat \ {0} /\ n <= Window /\ Window \in Nat
    BY <2>1, MiningPoolAssumption
  <2>3. part \in Nat /\ n * part <= A /\ A <= n * part + (n - 1) /\ n * part \in Nat
    <3>1. A \in Nat
      BY <1>1
    <3> HIDE DEF A, n
    <3>2. part \in Nat /\ n * part <= A /\ A <= n * part + (n - 1)
      BY Zenon, <2>2, <3>1, PartsAndDust
    <3> HIDE DEF part
    <3> QED
      BY <2>2, <3>2
  <2>4. distributePPLNS(b, pending) =
          [x \in Everyone |-> b[x] + Cardinality({i \in DOMAIN pending : pending[i] = x}) * part]
    BY DEF distributePPLNS, Everyone
  <2> HIDE DEF A, part, pending
  <2>5. /\ Countable(distributePPLNS(b, pending))
        /\ Sum(distributePPLNS(b, pending)) = Sum(b) + n * part
    BY <1>5, <2>1, <2>3, <2>4, SumAfterPPLNS
  <2> HIDE DEF n
  <2>6. k = 1 /\ ps = 0 /\ pb = 0 /\ PerShare(scheme) = 0 /\ PerBlock(scheme) = A
    BY <1>1, <1>7 DEF A
  <2>7. Sum(distributePPLNS(b, pending)) = Sum(l.balances) + n * part
    BY <1>5, <2>5, <2>6
  <2>8. A \in Nat /\ Window - 1 \in Nat /\ 1 * A = A /\ 1 * (Window - 1) = Window - 1
    BY <1>1, MiningPoolAssumption DEF A
  <2>9. /\ n * part <= PerShare(scheme) + k * PerBlock(scheme)
        /\ PerShare(scheme) + k * PerBlock(scheme) <= n * part + (Window - 1)
    BY <2>2, <2>3, <2>6, <2>8
  <2>10. Window - 1 = IF scheme = "pplns" THEN k * (Window - 1) ELSE 0
    BY <1>7, <2>6, <2>8
  <2>11. Paid(scheme, l, w, kind) = distributePPLNS(b, pending)
    BY <1>3, <1>7
  <2> QED
    BY <2>3, <2>5, <2>7, <2>8, <2>9, <2>10, <2>11
<1> QED
  BY <1>6, <1>7

\* CreditShare keeps each ledger adding up.
LEMMA CreditedKeeps ==
  ASSUME NEW scheme \in PayoutScheme, NEW l, LedgerInv(scheme, l), NEW w \in Everyone,
         NEW kind \in {"valid", "block"}
  PROVE  LedgerInv(scheme, Credited(scheme, l, w, kind))
<1> DEFINE k == IF kind = "block" THEN 1 ELSE 0
           new == Credited(scheme, l, w, kind)
<1>1. /\ new.balances = Paid(scheme, l, w, kind)
      /\ new.credited = [l.credited EXCEPT ![w] = @ + 1]
      /\ new.pending = IF scheme = "pplns" THEN lastShares(Append(l.pending, w)) ELSE <<>>
      /\ new.blocksFound = l.blocksFound + k
  BY DEF Credited, Paid
<1>2. k \in Nat
  OBVIOUS
<1>3. PICK d \in Nat, more \in Nat :
        /\ Countable(new.balances)
        /\ Sum(new.balances) = Sum(l.balances) + d
        /\ d <= PerShare(scheme) + k * PerBlock(scheme)
        /\ PerShare(scheme) + k * PerBlock(scheme) <= d + more
        /\ more = IF scheme = "pplns" THEN k * (Window - 1) ELSE 0
  BY <1>1, <1>2, PaidIs
<1> HIDE DEF new, k
<1>4. /\ Countable(new.credited)
      /\ Sum(new.credited) = Sum(l.credited) + 1
      /\ Sum(l.credited) \in Nat
  BY <1>1, CountAfterCredit DEF LedgerInv
<1>5. /\ l.blocksFound \in Nat /\ new.blocksFound \in Nat
      /\ PerShare(scheme) \in Nat /\ PerBlock(scheme) \in Nat
  BY <1>1, <1>2, Promises DEF LedgerInv
<1>6. new.pending \in Seq(Everyone) /\ Len(new.pending) <= Window
  <2>1. CASE scheme = "pplns"
    BY <1>1, <2>1, LastSharesIs, MiningPoolAssumption DEF LedgerInv
  <2>2. CASE scheme # "pplns"
    BY <1>1, <2>2, MiningPoolAssumption
  <2> QED
    BY <2>1, <2>2
<1>7. Sum(l.balances) \in Nat /\ Sum(new.balances) \in Nat
  BY <1>3, FS_CardinalityType DEF LedgerInv, Countable, Sum
<1>8. Dust(scheme, l) \in Nat /\ Dust(scheme, new) = Dust(scheme, l) + more
  <2>1. Window - 1 \in Nat
    BY MiningPoolAssumption
  <2>2. (l.blocksFound + k) * (Window - 1)
          = l.blocksFound * (Window - 1) + k * (Window - 1)
    BY <1>2, <1>5, <2>1
  <2>3. l.blocksFound * (Window - 1) \in Nat
    BY <1>5, <2>1
  <2> QED
    BY <1>1, <1>3, <2>2, <2>3 DEF Dust
<1>9. /\ Sum(l.balances) <= Sum(l.credited) * PerShare(scheme) + l.blocksFound * PerBlock(scheme)
      /\ Sum(l.credited) * PerShare(scheme) + l.blocksFound * PerBlock(scheme)
           <= Sum(l.balances) + Dust(scheme, l)
  BY DEF LedgerInv, Owed
<1>10. /\ Sum(new.balances) <= Owed(scheme, new)
       /\ Owed(scheme, new) <= Sum(new.balances) + Dust(scheme, new)
  <2>1. Owed(scheme, new) = (Sum(l.credited) + 1) * PerShare(scheme)
                              + (l.blocksFound + k) * PerBlock(scheme)
    BY <1>1, <1>4 DEF Owed
  <2> QED
    BY <1>2, <1>3, <1>4, <1>5, <1>7, <1>8, <1>9, <2>1, OwedGrows
<1> QED
  BY <1>3, <1>4, <1>5, <1>6, <1>10 DEF LedgerInv, new

-----------------------------------------------------------------------------
\* A ledger changes when a share is credited, and in no other step.
LedgersInv == \A scheme \in PayoutScheme : LedgerInv(scheme, ledger[scheme])

LEMMA CreditStep ==
  ASSUME LedgersInv, NEW w \in Everyone, NEW kind \in {"valid", "block"},
         CreditShare(w, kind)
  PROVE  LedgersInv'
<1> SUFFICES ASSUME NEW scheme \in PayoutScheme
             PROVE  LedgerInv(scheme, ledger'[scheme])
  BY DEF LedgersInv
<1>1. ledger'[scheme] = Credited(scheme, ledger[scheme], w, kind)
  BY DEF CreditShare
<1>2. LedgerInv(scheme, ledger[scheme])
  BY DEF LedgersInv
<1> QED
  BY <1>1, <1>2, CreditedKeeps

LEMMA LedgersStep ==
  ASSUME LedgersInv, [Next]_vars
  PROVE  LedgersInv'
<1>1. \/ ledger' = ledger
      \/ \E w \in Everyone, kind \in {"valid", "block"} : CreditShare(w, kind)
  <2>1. CASE \E r \in Refresher :
               Fetch(r) \/ handleMiningWork(r) \/ FetchFails(r) \/ Install(r)
    BY <2>1 DEF Fetch, handleMiningWork, FetchFails, Install
  <2>2. ASSUME NEW w \in Worker, Submit(w)
        PROVE  \/ ledger' = ledger
               \/ \E kind \in {"valid", "block"} : CreditShare(w, kind)
    BY Zenon, <2>2 DEF Submit
  <2>3. ASSUME NEW w \in Worker,
               \/ Subscribe(w) \/ Authorize(w) \/ SubmitShareBlock(w) \/ SessionEnds(w)
               \/ Dial(w) \/ Return(w) \/ CallFails(w) \/ NextJob(w)
               \/ \E kind \in {"valid", "block"} : MineShare(w, kind)
        PROVE  ledger' = ledger
    BY Zenon, <2>3 DEF Subscribe, Authorize, SubmitShareBlock, SessionEnds, Dial, Return,
                CallFails, NextJob, MineShare
  <2>4. ASSUME NEW w \in Other,
               \/ \E kind \in {"valid", "block"} : OtherSubmits(w, kind)
               \/ OtherSubmitsBlock(w)
        PROVE  \/ ledger' = ledger
               \/ \E kind \in {"valid", "block"} : CreditShare(w, kind)
    BY <2>4 DEF OtherSubmits, OtherSubmitsBlock
  <2>5. CASE SoloWork \/ SoloMines \/ UNCHANGED vars
    BY <2>5 DEF SoloWork, SoloMines, vars
  <2> QED
    BY <2>1, <2>2, <2>3, <2>4, <2>5 DEF Next, Everyone
<1>2. CASE ledger' = ledger
  BY <1>2 DEF LedgersInv
<1> QED
  BY <1>1, <1>2, CreditStep

LEMMA LedgersStart ==
  ASSUME Init
  PROVE  LedgersInv
<1> SUFFICES ASSUME NEW scheme \in PayoutScheme
             PROVE  LedgerInv(scheme, ledger[scheme])
  BY DEF LedgersInv
<1> DEFINE zero == [w \in Everyone |-> 0]
           l == ledger[scheme]
<1>1. zero \in [Everyone -> Nat] /\ UnderGraph(zero) = {}
  BY DEF UnderGraph
<1>2. Countable(zero) /\ Sum(zero) = 0
  BY <1>1, FS_EmptySet DEF Countable, Sum
<1>3. l.balances = zero /\ l.credited = zero /\ l.pending = <<>> /\ l.blocksFound = 0
  BY DEF Init, NewPayoutLedger, Everyone
<1>4. PerShare(scheme) \in Nat /\ PerBlock(scheme) \in Nat /\ Window \in Nat \ {0}
  BY Promises, MiningPoolAssumption DEF PerShare, PerBlock
<1> HIDE DEF zero, l
<1>5. Owed(scheme, l) = 0 /\ Dust(scheme, l) = 0
  BY <1>2, <1>3, <1>4 DEF Owed, Dust
<1>6. LedgerInv(scheme, l)
  BY <1>2, <1>3, <1>4, <1>5 DEF LedgerInv
<1> QED
  BY <1>6 DEF l

(***************************************************************************)
(* The balances of every scheme add up to what it promises for the shares  *)
(* and blocks seen, less only what PPLNS rounds away (CreditShare,         *)
(* distributePPLNSLocked), for any workers, fee, difficulties and window.  *)
(***************************************************************************)
THEOREM LedgersAddUp == Spec => []LedgerAddsUp
<1>1. Init => LedgersInv
  BY LedgersStart
<1>2. LedgersInv /\ [Next]_vars => LedgersInv'
  BY LedgersStep
<1>3. LedgersInv => LedgerAddsUp
  BY DEF LedgersInv, LedgerInv, LedgerAddsUp, Owed, Dust, PerShare, PerBlock
<1> QED
  BY <1>1, <1>2, <1>3, PTL DEF Spec
=============================================================================
