-------------------------- MODULE StabilityPoolProofs --------------------------
(***************************************************************************)
(* For every set of depositors, every precision and every amount: the      *)
(* amounts of the stability pool are natural numbers, its product stays    *)
(* between one unit and the precision, no operation touches the gains of   *)
(* others or raises their deposits, and the deposits are backed up to an   *)
(* error that does not grow with the number of liquidations.               *)
(***************************************************************************)
EXTENDS StabilityPool, DataTheorems

(* The inductive invariant *)

\* What is recorded of the running sums are natural numbers.
SumsType ==
    /\ \A at \in DOMAIN epochToScaleToSum : epochToScaleToSum[at] \in Nat
    /\ \A at \in DOMAIN epochToScaleToG : epochToScaleToG[at] \in Nat

\* A snapshot of a product that was not zero, at a scale that is not to come
Dated(snap) ==
    /\ snap.P >= 1
    /\ snap.epoch <= currentEpoch
    /\ snap.epoch = currentEpoch => snap.scale <= currentScale

\* of a sum that has not shrunk since.
Seen(f, snap, from) == from <= sumAt(f, <<snap.epoch, snap.scale>>)

DepositsDated ==
    \A d \in Accounts :
        deposits[d].initialValue > 0
            => /\ Dated(depositSnapshots[d])
               /\ Seen(epochToScaleToSum, depositSnapshots[d], depositSnapshots[d].S)
               /\ Seen(epochToScaleToG, depositSnapshots[d], depositSnapshots[d].G)

StakesDated ==
    \A f \in Tags :
        frontEndStakes[f] > 0
            => /\ Dated(frontEndSnapshots[f])
               /\ Seen(epochToScaleToG, frontEndSnapshots[f], frontEndSnapshots[f].G)

SnapshotsInv == TypeOK /\ SumsType /\ DepositsDated /\ StakesDated

-----------------------------------------------------------------------------
(* Arithmetic of the pool *)

\* The sum of a place is a natural number, zero where none is recorded.
LEMMA SumAtType ==
    ASSUME NEW f, \A at \in DOMAIN f : f[at] \in Nat, NEW at
    PROVE  sumAt(f, at) \in Nat
  BY DEF sumAt

\* Adding to a sum keeps all sums natural, and lets none shrink.
LEMMA AddAtType ==
    ASSUME NEW f, \A at \in DOMAIN f : f[at] \in Nat, NEW here, NEW x \in Nat
    PROVE  /\ \A at \in DOMAIN addAt(f, here, x) : addAt(f, here, x)[at] \in Nat
           /\ \A at : sumAt(f, at) <= sumAt(addAt(f, here, x), at)
<1> DEFINE g == addAt(f, here, x)
<1>1. /\ DOMAIN g = DOMAIN f \cup {here}
      /\ \A at \in DOMAIN g : g[at] = sumAt(f, at) + (IF at = here THEN x ELSE 0)
  BY DEF addAt
<1>2. \A at : sumAt(f, at) \in Nat
  BY SumAtType
<1> HIDE DEF g
<1>3. \A at \in DOMAIN g : g[at] \in Nat /\ sumAt(f, at) <= g[at]
  BY <1>1, <1>2
<1>4. ASSUME NEW at PROVE sumAt(f, at) <= sumAt(g, at)
  <2>1. CASE at \in DOMAIN g
    <3>1. sumAt(g, at) = g[at]
      BY <2>1 DEF sumAt
    <3> QED BY <1>3, <2>1, <3>1
  <2>2. CASE at \notin DOMAIN g
    <3>1. sumAt(g, at) = 0 /\ sumAt(f, at) = 0
      BY <1>1, <2>2 DEF sumAt
    <3> QED BY <3>1
  <2> QED BY <2>1, <2>2
<1> QED BY <1>3, <1>4 DEF g

\* Quotients keep the order.
LEMMA QuotientMonotone ==
    ASSUME NEW x \in Int, NEW y \in Int, x <= y, NEW k \in Nat, k > 0
    PROVE  x \div k <= y \div k
<1>1. /\ x \div k \in Int /\ k * (x \div k) <= x
  BY QuotientBounds
<1> DEFINE q == x \div k
<1>2. q \in Int /\ k * q <= y
  <2>1. q \in Int /\ k * q <= x
    BY <1>1
  <2> HIDE DEF q
  <2>2. k * q \in Int
    BY <2>1
  <2> QED BY <2>1, <2>2
<1> HIDE DEF q
<1>3. q <= y \div k
  BY <1>2, QuotientGreatest
<1> QED BY <1>3 DEF q

\* A quotient of natural numbers is one.
LEMMA QuotientNat ==
    ASSUME NEW x \in Nat, NEW k \in Nat, k > 0
    PROVE  x \div k \in Nat
  OBVIOUS

\* Products keep the order.
LEMMA ProductMonotone ==
    ASSUME NEW k \in Nat, NEW x \in Nat, NEW y \in Nat, x <= y
    PROVE  k * x \in Nat /\ k * y \in Nat /\ k * x <= k * y
  OBVIOUS

\* The part of a sum that a stake has seen is a natural number, and grows
\* with the sums.
LEMMA PortionMonotone ==
    ASSUME NEW snap \in SnapshotSet, NEW from \in Nat,
           NEW f, \A at \in DOMAIN f : f[at] \in Nat,
           NEW g, \A at \in DOMAIN g : g[at] \in Nat,
           \A at : sumAt(f, at) <= sumAt(g, at),
           Seen(f, snap, from)
    PROVE  /\ portion(f, snap, from) \in Nat
           /\ portion(g, snap, from) \in Nat
           /\ portion(f, snap, from) <= portion(g, snap, from)
<1> DEFINE here == <<snap.epoch, snap.scale>>
           there == <<snap.epoch, snap.scale + 1>>
           a == sumAt(f, here)
           b == sumAt(f, there)
           c == sumAt(g, here)
           d == sumAt(g, there)
           K == SCALE_FACTOR
<1>1. a \in Nat /\ b \in Nat /\ c \in Nat /\ d \in Nat
  BY SumAtType
<1>2. a <= c /\ b <= d
  OBVIOUS
<1>3. K \in Nat /\ K > 0
  BY PoolAssumption
<1>4. from <= a
  BY DEF Seen
<1>5. /\ portion(f, snap, from) = (a - from) + b \div K
      /\ portion(g, snap, from) = (c - from) + d \div K
  BY DEF portion
<1> HIDE DEF a, b, c, d, K
<1>6. b \div K \in Nat /\ d \div K \in Nat /\ b \div K <= d \div K
  BY <1>1, <1>2, <1>3, QuotientNat, QuotientMonotone
<1> QED BY <1>1, <1>2, <1>4, <1>5, <1>6

\* So do the gains.
LEMMA GainMonotone ==
    ASSUME NEW snap \in SnapshotSet, snap.P >= 1, NEW from \in Nat, NEW stake \in Nat,
           NEW f, \A at \in DOMAIN f : f[at] \in Nat,
           NEW g, \A at \in DOMAIN g : g[at] \in Nat,
           \A at : sumAt(f, at) <= sumAt(g, at),
           Seen(f, snap, from)
    PROVE  /\ gainFrom(stake, f, snap, from) \in Nat
           /\ gainFrom(stake, g, snap, from) \in Nat
           /\ gainFrom(stake, f, snap, from) <= gainFrom(stake, g, snap, from)
<1> DEFINE p == portion(f, snap, from)
           q == portion(g, snap, from)
           k == snap.P
           D == DECIMAL_PRECISION
<1>1. p \in Nat /\ q \in Nat /\ p <= q
  BY PortionMonotone
<1>2. k \in Nat /\ k > 0 /\ D \in Nat /\ D > 0
  BY PoolAssumption DEF SnapshotSet
<1>3. /\ gainFrom(stake, f, snap, from) = ((stake * p) \div k) \div D
      /\ gainFrom(stake, g, snap, from) = ((stake * q) \div k) \div D
  BY DEF gainFrom
<1> HIDE DEF p, q, k, D
<1> DEFINE x == stake * p
           y == stake * q
<1>4. x \in Nat /\ y \in Nat /\ x <= y
  BY <1>1, ProductMonotone
<1> HIDE DEF x, y
<1> DEFINE u == x \div k
           v == y \div k
<1>5. u \in Nat /\ v \in Nat /\ u <= v
  BY <1>2, <1>4, QuotientNat, QuotientMonotone
<1> HIDE DEF u, v
<1>6. u \div D \in Nat /\ v \div D \in Nat /\ u \div D <= v \div D
  BY <1>2, <1>5, QuotientNat, QuotientMonotone
<1> QED BY <1>3, <1>6 DEF u, v, x, y

-----------------------------------------------------------------------------
(* The product *)

\* A loss leaves a fraction of each deposit; its error is natural.
LEMMA FactorType ==
    ASSUME TypeOK, NEW debt \in Nat, totalUSDDDeposits # 0, OffsetSafe(debt)
    PROVE  newProductFactor(debt) \in 0..DECIMAL_PRECISION /\ lossError(debt) \in Nat
<1> DEFINE D == DECIMAL_PRECISION
           t == totalUSDDDeposits
           x == USDDLossNumerator(debt)
           q == x \div t
<1>1. D \in Nat /\ t \in Nat /\ t > 0
  BY PoolAssumption DEF TypeOK
<1>2. lossPerUnit(debt) <= D /\ (debt = t \/ x >= 0)
  BY DEF OffsetSafe
<1>3. CASE debt = t
  <2>1. lossPerUnit(debt) = D /\ lossError(debt) = 0
    BY <1>3 DEF lossPerUnit, lossError
  <2>2. newProductFactor(debt) = D - D
    BY <2>1 DEF newProductFactor
  <2> QED BY <1>1, <2>1, <2>2
<1>4. CASE debt # t
  <2>1. x \in Int
    BY <1>1 DEF USDDLossNumerator, TypeOK
  <2>2. x \in Nat
    BY <1>2, <1>4, <2>1
  <2>3. /\ lossPerUnit(debt) = q + 1
        /\ lossError(debt) = (q + 1) * t - x
        /\ newProductFactor(debt) = D - (q + 1)
    BY <1>4 DEF lossPerUnit, lossError, newProductFactor
  <2> HIDE DEF x, t
  <2>4. q \in Nat /\ x < t * q + t
    BY <1>1, <2>2, QuotientNat, QuotientBounds
  <2>5. (q + 1) * t = t * q + t /\ t * q + t \in Int
    <3> HIDE DEF q
    <3> QED BY <1>1, <2>4
  <2> HIDE DEF q
  <2>6. lossError(debt) \in Nat
    BY <2>2, <2>3, <2>4, <2>5
  <2> QED BY <1>1, <1>2, <2>3, <2>4, <2>6
<1> QED BY <1>3, <1>4

\* The product stays between one and the precision: scaling it up does not
\* overshoot, because the square of the scale factor does not.
LEMMA ProductType ==
    ASSUME TypeOK, NEW debt \in Nat, totalUSDDDeposits # 0, OffsetSafe(debt)
    PROVE  /\ newP(debt) \in 1..DECIMAL_PRECISION
           /\ newProductFactor(debt) # 0 =>
                  IF productTooSmall(debt) THEN newP(debt) <= P * SCALE_FACTOR
                                           ELSE newP(debt) <= P
<1> DEFINE D == DECIMAL_PRECISION
           K == SCALE_FACTOR
           f == newProductFactor(debt)
           x == P * f
           y == x * K
<1>1. /\ D \in Nat /\ D > 0 /\ K \in Nat /\ K > 0 /\ K * K <= D
      /\ P \in Nat /\ P >= 1 /\ P <= D
  BY PoolAssumption DEF TypeOK
<1>2. f \in Nat /\ f <= D
  BY <1>1, FactorType
<1>3. newP(debt) > 0
  BY DEF OffsetSafe
<1>4. newP(debt) = IF f = 0 THEN D ELSE IF productTooSmall(debt) THEN y \div D ELSE x \div D
  BY DEF newP
<1>5. productTooSmall(debt) <=> x \div D < K
  BY DEF productTooSmall
<1> HIDE DEF f, D, K
<1>6. x \in Nat /\ x <= D * P
  <2>1. P * f = f * P /\ f * P <= D * P /\ f * P \in Nat
    BY <1>1, <1>2
  <2> QED BY <2>1
<1> HIDE DEF x
<1>7. x \div D \in Nat /\ x < D * (x \div D) + D /\ D * P < D * P + D
  BY <1>1, <1>6, QuotientNat, QuotientBounds
<1>8. x \div D <= P
  <2>1. x < D * P + D
    BY <1>1, <1>6
  <2> QED BY <1>1, <1>6, <2>1, QuotientGreatest
<1>9. y \in Nat /\ y \div D \in Nat
  <2>1. y \in Nat
    BY <1>1, <1>6
  <2> HIDE DEF y
  <2> QED BY <1>1, <2>1, QuotientNat
<1>10. y \div D <= P * K
  <2> DEFINE z == P * K
  <2>1. z \in Nat /\ (D * P) * K = D * z
    BY <1>1
  <2>2. y <= (D * P) * K
    <3> DEFINE w == D * P
    <3>1. w \in Nat /\ x <= w
      BY <1>1, <1>6
    <3> HIDE DEF w
    <3>2. x * K <= w * K
      BY <1>1, <1>6, <3>1
    <3> QED BY <3>2 DEF w
  <2> HIDE DEF z, y
  <2>3. y < D * z + D
    <3>1. D * z \in Int
      BY <1>1, <2>1
    <3> QED BY <1>1, <1>9, <2>1, <2>2, <3>1
  <2>4. y \div D <= z
    BY <1>1, <1>9, <2>1, <2>3, QuotientGreatest
  <2> QED BY <2>4 DEF z
<1>11. ASSUME x \div D < K PROVE y \div D <= D
  <2> DEFINE q == x \div D
  <2>1. q \in Nat /\ q < K /\ x < D * q + D
    BY <1>7, <1>11
  <2> HIDE DEF q
  <2>2. D * q + D <= D * K
    <3>1. q + 1 \in Nat /\ q + 1 <= K
      BY <1>1, <2>1
    <3>2. D * (q + 1) <= D * K /\ D * (q + 1) = D * q + D
      BY <1>1, <2>1, <3>1
    <3> QED BY <3>2
  <2>3. x <= D * K /\ D * K \in Nat
    <3>1. D * K \in Nat /\ D * q \in Nat
      BY <1>1, <2>1
    <3> QED BY <1>1, <1>6, <2>1, <2>2, <3>1
  <2>4. x * K <= (D * K) * K
    <3> DEFINE w == D * K
    <3>1. w \in Nat /\ x <= w
      BY <2>3
    <3> HIDE DEF w
    <3>2. x * K <= w * K
      BY <1>1, <1>6, <3>1
    <3> QED BY <3>2 DEF w
  <2>5. (D * K) * K = D * (K * K) /\ D * (K * K) <= D * D
    <3>1. (D * K) * K = D * (K * K)
      BY <1>1
    <3> DEFINE w == K * K
    <3>2. w \in Nat /\ w <= D
      BY <1>1
    <3> HIDE DEF w
    <3>3. D * w <= D * D
      BY <1>1, <3>2
    <3> QED BY <3>1, <3>3 DEF w
  <2> DEFINE dd == D * D
             dkk == D * (K * K)
  <2>6. y <= dkk /\ dkk <= dd /\ dkk \in Int /\ dd \in Int
    BY <1>1, <2>4, <2>5
  <2> HIDE DEF y, dkk
  <2>7. y < D * D + D
    <3>1. y <= dd
      BY <1>9, <2>6
    <3> QED BY <1>1, <1>9, <2>6, <3>1
  <2> QED BY <1>1, <1>9, <2>7, QuotientGreatest
<1> HIDE DEF y
<1>12. newP(debt) \in 1..D
  BY <1>1, <1>3, <1>4, <1>5, <1>7, <1>8, <1>9, <1>11
<1>13. f # 0 => IF productTooSmall(debt) THEN newP(debt) <= P * K ELSE newP(debt) <= P
  BY <1>4, <1>8, <1>10
<1> QED BY <1>12, <1>13 DEF f, D, K

-----------------------------------------------------------------------------
(* Deposits *)

\* What is left of a stake, before the tiny remainder is dropped, for a
\* product p at a scale.
keptAt(stake, snap, p, scale) ==
    CASE scale - snap.scale = 0 -> (stake * p) \div snap.P
      [] scale - snap.scale = 1 -> ((stake * p) \div snap.P) \div SCALE_FACTOR
      [] OTHER -> 0

\* It is a natural number.
LEMMA KeptType ==
    ASSUME NEW stake \in Nat, NEW snap \in SnapshotSet, snap.P >= 1,
           NEW p \in Nat, NEW scale \in Nat
    PROVE  /\ keptAt(stake, snap, p, scale) \in Nat
           /\ (stake * p) \div snap.P \in Nat
           /\ ((stake * p) \div snap.P) \div SCALE_FACTOR \in Nat
<1> DEFINE x == stake * p
           k == snap.P
           y == x \div k
           K == SCALE_FACTOR
<1>1. x \in Nat /\ k \in Nat /\ k > 0 /\ K \in Nat /\ K > 0
  BY PoolAssumption DEF SnapshotSet
<1>2. y \in Nat
  <2> HIDE DEF x, k
  <2> QED BY <1>1, QuotientNat
<1>3. y \div K \in Nat
  <2> HIDE DEF y, K
  <2> QED BY <1>1, <1>2, QuotientNat
<1>4. keptAt(stake, snap, p, scale) \in {y, y \div K, 0}
  <2>1. CASE scale - snap.scale = 0
    BY <2>1 DEF keptAt
  <2>2. CASE scale - snap.scale = 1
    <3>1. scale - snap.scale # 0
      BY <2>2
    <3> QED BY <2>2, <3>1 DEF keptAt
  <2>3. CASE scale - snap.scale # 0 /\ scale - snap.scale # 1
    BY <2>3 DEF keptAt
  <2> QED BY <2>1, <2>2, <2>3
<1> QED BY <1>2, <1>3, <1>4

\* A stake is worth a natural number.
LEMMA CompoundedType ==
    ASSUME P \in Nat, currentScale \in Nat, NEW stake \in Nat, NEW snap \in SnapshotSet,
           stake > 0 => Dated(snap)
    PROVE  getCompoundedStakeFromSnapshots(stake, snap) \in Nat
<1>1. CASE stake = 0
  BY <1>1 DEF getCompoundedStakeFromSnapshots
<1>2. CASE stake # 0
  <2>1. snap.P >= 1
    BY <1>2 DEF Dated
  <2>2. keptAt(stake, snap, P, currentScale) \in Nat
    BY <2>1, KeptType
  <2> QED BY <2>2 DEF getCompoundedStakeFromSnapshots, keptAt
<1> QED BY <1>1, <1>2

\* A product that falls, or is scaled up when the scale rises, leaves less.
LEMMA KeptShrinks ==
    ASSUME NEW stake \in Nat, NEW snap \in SnapshotSet, snap.P >= 1,
           NEW p \in Nat, NEW scale \in Nat, NEW q \in Nat, NEW next \in Nat,
           snap.scale <= scale,
           \/ next = scale /\ q <= p
           \/ next = scale + 1 /\ q <= p * SCALE_FACTOR
    PROVE  keptAt(stake, snap, q, next) <= keptAt(stake, snap, p, scale)
<1> DEFINE k == snap.P
           K == SCALE_FACTOR
           x == stake * p
           y == stake * q
           s == snap.scale
<1>1. k \in Nat /\ k > 0 /\ K \in Nat /\ K > 0 /\ s \in Nat
  BY PoolAssumption DEF SnapshotSet
<1>2. /\ x \in Nat /\ x \div k \in Nat /\ (x \div k) \div K \in Nat
      /\ keptAt(stake, snap, p, scale) \in Nat
  <2>1. x \in Nat
    OBVIOUS
  <2>2. /\ (stake * p) \div snap.P \in Nat
        /\ ((stake * p) \div snap.P) \div SCALE_FACTOR \in Nat
        /\ keptAt(stake, snap, p, scale) \in Nat
    BY KeptType
  <2> QED BY <2>1, <2>2
<1>3. /\ y \in Nat /\ y \div k \in Nat /\ (y \div k) \div K \in Nat
      /\ keptAt(stake, snap, q, next) \in Nat
  <2>1. y \in Nat
    OBVIOUS
  <2>2. /\ (stake * q) \div snap.P \in Nat
        /\ ((stake * q) \div snap.P) \div SCALE_FACTOR \in Nat
        /\ keptAt(stake, snap, q, next) \in Nat
    BY KeptType
  <2> QED BY <2>1, <2>2
<1>4. CASE next = scale /\ q <= p
  <2>1. y <= x
    BY <1>4
  <2>2. y \div k <= x \div k
    <3> HIDE DEF x, y, k
    <3> QED BY <1>1, <1>2, <1>3, <2>1, QuotientMonotone
  <2>3. (y \div k) \div K <= (x \div k) \div K
    <3> DEFINE u == x \div k
               v == y \div k
    <3>1. u \in Nat /\ v \in Nat /\ v <= u
      BY <1>2, <1>3, <2>2
    <3> HIDE DEF u, v, K
    <3>2. v \div K <= u \div K
      BY <1>1, <3>1, QuotientMonotone
    <3> QED BY <3>2 DEF u, v
  <2>4. CASE scale - s = 0
    <3>1. keptAt(stake, snap, q, next) = y \div k /\ keptAt(stake, snap, p, scale) = x \div k
      BY <1>4, <2>4 DEF keptAt
    <3> QED BY <2>2, <3>1
  <2>5. CASE scale - s = 1
    <3>1. /\ keptAt(stake, snap, q, next) = (y \div k) \div K
          /\ keptAt(stake, snap, p, scale) = (x \div k) \div K
      <4>1. scale - s # 0 /\ next - s # 0 /\ next - s = 1
        BY <1>4, <2>5
      <4> QED BY <2>5, <4>1 DEF keptAt
    <3> QED BY <2>3, <3>1
  <2>6. CASE scale - s # 0 /\ scale - s # 1
    <3>1. keptAt(stake, snap, q, next) = 0
      BY <1>4, <2>6 DEF keptAt
    <3> QED BY <1>2, <3>1
  <2> QED BY <2>4, <2>5, <2>6
<1>5. CASE next = scale + 1 /\ q <= p * K
  <2>1. CASE scale - s = 0
    <3>1. /\ keptAt(stake, snap, p, scale) = x \div k
          /\ keptAt(stake, snap, q, next) = (y \div k) \div K
      <4>1. next - s = 1 /\ next - s # 0
        BY <1>1, <1>5, <2>1
      <4> QED BY <2>1, <4>1 DEF keptAt
    <3> DEFINE v == y \div k
               w == v \div K
    <3>2. y <= x * K
      <4> DEFINE z == p * K
      <4>1. z \in Nat /\ q <= z
        BY <1>1, <1>5
      <4> HIDE DEF z
      <4>2. stake * q <= stake * z
        BY <4>1
      <4>3. stake * (p * K) = (stake * p) * K
        BY <1>1
      <4> QED BY <4>2, <4>3 DEF z
    <3> HIDE DEF x, y, k, K
    <3>3. v \in Nat /\ k * v <= y
      BY <1>1, <1>3, QuotientNat, QuotientBounds
    <3> HIDE DEF v
    <3>4. w \in Nat /\ K * w <= v
      BY <1>1, <3>3, QuotientNat, QuotientBounds
    <3> HIDE DEF w
    <3>5. k * (K * w) <= k * v
      <4> DEFINE z == K * w
      <4>1. z \in Nat /\ z <= v
        BY <1>1, <3>4
      <4> HIDE DEF z
      <4>2. k * z <= k * v
        BY <1>1, <3>3, <4>1
      <4> QED BY <4>2 DEF z
    <3>6. K * (k * w) <= K * x
      <4>1. k * (K * w) = K * (k * w) /\ x * K = K * x
        BY <1>1, <1>2, <3>4
      <4>2. K * (k * w) \in Int /\ k * v \in Int /\ K * x \in Int
        BY <1>1, <1>2, <3>3, <3>4
      <4> QED BY <1>3, <3>2, <3>3, <3>5, <4>1, <4>2
    <3>7. k * w <= x
      <4>1. k * w \in Int /\ x \in Int
        BY <1>1, <1>2, <3>4
      <4> QED BY <1>1, <3>6, <4>1, CancelFactor
    <3>8. w <= x \div k
      BY <1>1, <1>2, <3>4, <3>7, QuotientGreatest
    <3> QED BY <3>1, <3>8 DEF w, v, x, y, k, K
  <2>2. CASE scale - s # 0
    <3>1. next - s # 0 /\ next - s # 1
      BY <1>1, <1>5, <2>2
    <3>2. keptAt(stake, snap, q, next) = 0
      BY <3>1 DEF keptAt
    <3> QED BY <1>2, <3>2
  <2> QED BY <2>1, <2>2
<1> QED BY <1>4, <1>5

-----------------------------------------------------------------------------
(* Gains *)

\* The issuance lets no sum shrink.
LEMMA IssuanceType ==
    ASSUME SnapshotsInv, NEW amount \in Nat
    PROVE  /\ \A at \in DOMAIN GAfter(amount) : GAfter(amount)[at] \in Nat
           /\ \A at : sumAt(epochToScaleToG, at) <= sumAt(GAfter(amount), at)
           /\ triggerDEFTIssuance(amount)
                  => totalDEFTIssued' \in 0..DEFTSupplyCap /\ lastDEFTError' \in Nat
<1>1. TypeOK /\ \A at \in DOMAIN epochToScaleToG : epochToScaleToG[at] \in Nat
  BY DEF SnapshotsInv, SumsType
<1>2. \A at : sumAt(epochToScaleToG, at) \in Nat
  BY <1>1, SumAtType
<1> DEFINE n == DEFTNumerator(amount)
           t == totalUSDDDeposits
<1>3. n \in Nat /\ t \in Nat /\ P \in Nat
  <2>1. DECIMAL_PRECISION \in Nat /\ lastDEFTError \in Nat
    BY <1>1, PoolAssumption DEF TypeOK
  <2>2. n \in Nat
    BY <2>1 DEF DEFTNumerator
  <2> QED BY <1>1, <2>1, <2>2 DEF TypeOK
<1>4. CASE ~issued(amount)
  <2>1. GAfter(amount) = epochToScaleToG
    BY <1>4 DEF GAfter
  <2>2. triggerDEFTIssuance(amount)
            => totalDEFTIssued' \in 0..DEFTSupplyCap /\ lastDEFTError' \in Nat
    BY <1>1, <1>4, PoolAssumption DEF triggerDEFTIssuance, TypeOK
  <2> QED BY <1>1, <1>2, <2>1, <2>2
<1>5. CASE issued(amount)
  <2>1. t > 0
    BY <1>3, <1>5 DEF issued
  <2> DEFINE x == (n \div t) * P
  <2>2. GAfter(amount) = addAt(epochToScaleToG, Here, x)
    BY <1>5 DEF GAfter
  <2>3. n % t \in Nat /\ n \div t \in Nat
    <3> HIDE DEF n, t
    <3> QED BY <1>3, <2>1
  <2>4. x \in Nat
    <3> DEFINE y == n \div t
    <3>1. y \in Nat
      BY <2>3
    <3> HIDE DEF y
    <3> QED BY <1>3, <3>1 DEF y
  <2>5. triggerDEFTIssuance(amount)
            => totalDEFTIssued' \in 0..DEFTSupplyCap /\ lastDEFTError' \in Nat
    <3> SUFFICES ASSUME triggerDEFTIssuance(amount)
                 PROVE  totalDEFTIssued' \in 0..DEFTSupplyCap /\ lastDEFTError' \in Nat
      OBVIOUS
    <3>1. lastDEFTError' = n % t
      BY <1>5 DEF triggerDEFTIssuance
    <3>2. totalDEFTIssued' \in 0..DEFTSupplyCap
      BY <1>1, PoolAssumption DEF triggerDEFTIssuance, TypeOK
    <3> QED BY <2>3, <3>1, <3>2
  <2> HIDE DEF x
  <2> QED BY <1>1, <2>2, <2>4, <2>5, AddAtType
<1> QED BY <1>4, <1>5

\* Every depositor's collateral gain is a natural number.
LEMMA CollGainType ==
    ASSUME SnapshotsInv, NEW d \in Accounts
    PROVE  getDepositorCollGain(d) \in Nat
<1> DEFINE s == deposits[d].initialValue
           snap == depositSnapshots[d]
           f == epochToScaleToSum
<1>1. s \in Nat /\ snap \in SnapshotSet
  BY DEF SnapshotsInv, TypeOK
<1>2. CASE s = 0
  BY <1>2 DEF getDepositorCollGain
<1>3. CASE s # 0
  <2>1. snap.P >= 1 /\ Seen(f, snap, snap.S)
    BY <1>1, <1>3 DEF SnapshotsInv, DepositsDated, Dated
  <2>2. \A at \in DOMAIN f : f[at] \in Nat
    BY DEF SnapshotsInv, SumsType
  <2>3. \A at : sumAt(f, at) <= sumAt(f, at)
    BY <2>2, SumAtType
  <2>4. snap.S \in Nat
    BY <1>1 DEF SnapshotSet
  <2>5. getDepositorCollGain(d) = gainFrom(s, f, snap, snap.S)
    BY <1>3 DEF getDepositorCollGain
  <2> HIDE DEF s, snap, f
  <2> QED BY <1>1, <2>1, <2>2, <2>3, <2>4, <2>5, GainMonotone
<1> QED BY <1>2, <1>3

\* The DEFT that an operation pays is a natural number.
LEMMA DEFTGainsType ==
    ASSUME SnapshotsInv, NEW d \in Accounts, NEW tag \in Tags, NEW amount \in Nat
    PROVE  DEFTGains(d, tag, GAfter(amount)) \in Nat
<1> DEFINE G == GAfter(amount)
           f == epochToScaleToG
           D == DECIMAL_PRECISION
<1>1. /\ \A at \in DOMAIN G : G[at] \in Nat
      /\ \A at : sumAt(f, at) <= sumAt(G, at)
      /\ \A at \in DOMAIN f : f[at] \in Nat
  BY IssuanceType DEF SnapshotsInv, SumsType
<1>2. D \in Nat /\ D > 0
  BY PoolAssumption
<1>3. ASSUME NEW k \in Nat, NEW x \in Nat PROVE (k * x) \div D \in Nat
  <2> DEFINE y == k * x
  <2>1. y \in Nat
    OBVIOUS
  <2> HIDE DEF y, D
  <2>2. y \div D \in Nat
    BY <1>2, <2>1, QuotientNat
  <2> QED BY <2>2 DEF y
<1> HIDE DEF G, f, D
<1>4. getDepositorDEFTGain(d, G) \in Nat
  <2> DEFINE s == deposits[d].initialValue
             snap == depositSnapshots[d]
             k == kickbackOf(deposits[d].frontEndTag)
             x == gainFrom(s, G, snap, snap.G)
  <2>1. s \in Nat /\ snap \in SnapshotSet /\ snap.G \in Nat
    BY DEF SnapshotsInv, TypeOK, SnapshotSet
  <2>2. k \in Nat
    <3>1. deposits[d].frontEndTag \in Tags
      BY DEF SnapshotsInv, TypeOK
    <3>2. CASE deposits[d].frontEndTag = Zero
      BY <1>2, <3>2 DEF kickbackOf, D
    <3>3. CASE deposits[d].frontEndTag \in Accounts
      <4>1. deposits[d].frontEndTag # Zero
        BY <3>3, PoolAssumption
      <4>2. frontEnds[deposits[d].frontEndTag].kickbackRate \in Nat
        BY <1>2, <3>3 DEF SnapshotsInv, TypeOK, D
      <4> QED BY <4>1, <4>2 DEF kickbackOf
    <3> QED BY <3>1, <3>2, <3>3 DEF Tags
  <2>3. CASE s = 0
    BY <2>3 DEF getDepositorDEFTGain
  <2>4. CASE s # 0
    <3>1. snap.P >= 1 /\ Seen(f, snap, snap.G)
      BY <2>1, <2>4 DEF SnapshotsInv, DepositsDated, Dated, f
    <3>2. x \in Nat
      <4> HIDE DEF s, snap
      <4> QED BY <1>1, <2>1, <3>1, GainMonotone
    <3>3. getDepositorDEFTGain(d, G) = (k * x) \div D
      BY <2>4 DEF getDepositorDEFTGain, D
    <3> HIDE DEF k, x
    <3> QED BY <1>3, <2>2, <3>2, <3>3
  <2> QED BY <2>3, <2>4
<1>5. ASSUME tag # Zero PROVE getFrontEndDEFTGain(tag, G) \in Nat
  <2> DEFINE s == frontEndStakes[tag]
             snap == frontEndSnapshots[tag]
             k == D - frontEnds[tag].kickbackRate
             x == gainFrom(s, G, snap, snap.G)
  <2>1. s \in Nat /\ snap \in SnapshotSet /\ snap.G \in Nat
    BY DEF SnapshotsInv, TypeOK, SnapshotSet
  <2>2. k \in Nat
    <3>1. tag \in Accounts
      BY <1>5 DEF Tags
    <3>2. frontEnds[tag].kickbackRate \in 0..D
      BY <3>1 DEF SnapshotsInv, TypeOK, D
    <3> QED BY <1>2, <3>2
  <2>3. CASE s = 0
    BY <2>3 DEF getFrontEndDEFTGain
  <2>4. CASE s # 0
    <3>1. snap.P >= 1 /\ Seen(f, snap, snap.G)
      BY <2>1, <2>4 DEF SnapshotsInv, StakesDated, Dated, f
    <3>2. x \in Nat
      <4> HIDE DEF s, snap
      <4> QED BY <1>1, <2>1, <3>1, GainMonotone
    <3>3. getFrontEndDEFTGain(tag, G) = (k * x) \div D
      BY <2>4 DEF getFrontEndDEFTGain, D
    <3> HIDE DEF k, x
    <3> QED BY <1>3, <2>2, <3>2, <3>3
  <2> QED BY <2>3, <2>4
<1>6. DEFTGains(d, tag, G) \in Nat
  BY <1>4, <1>5 DEF DEFTGains
<1> QED BY <1>6 DEF G

-----------------------------------------------------------------------------
(* The steps *)

\* The snapshot that an operation takes is of now.
LEMMA SnapshotNowDated ==
    ASSUME TypeOK, NEW value \in Nat, NEW S \in Nat, NEW G \in Nat
    PROVE  /\ snapshotNow(value, S, G) \in SnapshotSet
           /\ value > 0 => /\ Dated(snapshotNow(value, S, G))
                           /\ snapshotNow(value, S, G).S = S
                           /\ snapshotNow(value, S, G).G = G
                           /\ snapshotNow(value, S, G).epoch = currentEpoch
                           /\ snapshotNow(value, S, G).scale = currentScale
<1>1. currentEpoch \in Nat /\ currentScale \in Nat /\ P \in Nat /\ P >= 1
  BY PoolAssumption DEF TypeOK
<1>2. CASE value = 0
  BY <1>2 DEF snapshotNow, NoSnapshot, Snapshot, SnapshotSet
<1>3. CASE value # 0
  <2>1. snapshotNow(value, S, G)
            = [S |-> S, P |-> P, G |-> G, scale |-> currentScale, epoch |-> currentEpoch]
    BY <1>3 DEF snapshotNow, Snapshot
  <2> QED BY <1>1, <1>3, <2>1 DEF SnapshotSet, Dated
<1> QED BY <1>2, <1>3

\* A snapshot stays dated while the scale, and then the epoch, go on.
LEMMA DatedStays ==
    ASSUME TypeOK, NEW snap \in SnapshotSet, Dated(snap),
           \/ currentEpoch' = currentEpoch + 1
           \/ currentEpoch' = currentEpoch /\ currentScale' = currentScale
           \/ currentEpoch' = currentEpoch /\ currentScale' = currentScale + 1
    PROVE  /\ snap.P >= 1
           /\ snap.epoch <= currentEpoch'
           /\ snap.epoch = currentEpoch' => snap.scale <= currentScale'
<1>1. /\ currentEpoch \in Nat /\ currentScale \in Nat
      /\ snap.epoch \in Nat /\ snap.scale \in Nat
  BY DEF TypeOK, SnapshotSet
<1> QED BY <1>1 DEF Dated

\* What a stake has seen of a sum it has seen of a larger one.
LEMMA SeenStays ==
    ASSUME NEW snap, NEW from \in Nat, NEW f, NEW g, \A at \in DOMAIN f : f[at] \in Nat,
           \A at \in DOMAIN g : g[at] \in Nat, \A at : sumAt(f, at) <= sumAt(g, at),
           Seen(f, snap, from)
    PROVE  Seen(g, snap, from)
<1> DEFINE at == <<snap.epoch, snap.scale>>
           x == sumAt(f, at)
           y == sumAt(g, at)
<1>1. x \in Nat /\ y \in Nat
  BY SumAtType
<1>2. x <= y
  OBVIOUS
<1>3. from <= x
  BY DEF Seen
<1> HIDE DEF x, y
<1>4. from <= y
  BY <1>1, <1>2, <1>3
<1> QED BY <1>4 DEF Seen, y

\* Every operation of a depositor ends in settle, which keeps the invariant.
LEMMA SettleKeepsInv ==
    ASSUME SnapshotsInv, NEW d \in Accounts, NEW tag \in Tags, NEW deposit \in Nat,
           NEW stake \in Nat, NEW issuance \in Nat, settle(d, tag, deposit, stake, issuance),
           usdd' \in [Accounts -> Nat], totalUSDDDeposits' \in Nat
    PROVE  SnapshotsInv'
<1> DEFINE G == GAfter(issuance)
           f == epochToScaleToSum
           S0 == sumAt(f, Here)
           G0 == sumAt(G, Here)
           dsnap == snapshotNow(deposit, S0, G0)
           fsnap == snapshotNow(stake, 0, G0)
           dep == [initialValue |-> deposit, frontEndTag |-> IF deposit = 0 THEN Zero ELSE tag]
<1>1. TypeOK /\ SumsType /\ DepositsDated /\ StakesDated
  BY DEF SnapshotsInv
<1>2. /\ triggerDEFTIssuance(issuance)
      /\ COLL >= getDepositorCollGain(d) /\ COLL' = COLL - getDepositorCollGain(d)
      /\ deftSent' = deftSent + DEFTGains(d, tag, G) /\ deftSent' <= DEFTSupplyCap
      /\ frontEndStakes' = [frontEndStakes EXCEPT ![tag] = stake]
      /\ frontEndSnapshots' = [frontEndSnapshots EXCEPT ![tag] = fsnap]
      /\ deposits' = [deposits EXCEPT ![d] = dep]
      /\ depositSnapshots' = [depositSnapshots EXCEPT ![d] = dsnap]
  BY DEF settle, updateFrontEndStakeAndSnapshots, updateDepositAndSnapshots
<1>3. /\ frontEnds' = frontEnds /\ P' = P /\ currentScale' = currentScale
      /\ currentEpoch' = currentEpoch /\ epochToScaleToSum' = f
      /\ lastCollError_Offset' = lastCollError_Offset
      /\ lastUSDDLossError_Offset' = lastUSDDLossError_Offset /\ offsets' = offsets
  BY DEF settle, productVars
<1>4. epochToScaleToG' = G
  BY <1>2 DEF triggerDEFTIssuance
<1>5. /\ \A at \in DOMAIN G : G[at] \in Nat
      /\ \A at : sumAt(epochToScaleToG, at) <= sumAt(G, at)
      /\ totalDEFTIssued' \in 0..DEFTSupplyCap /\ lastDEFTError' \in Nat
  BY <1>2, IssuanceType
<1>6. /\ \A at \in DOMAIN f : f[at] \in Nat
      /\ \A at \in DOMAIN epochToScaleToG : epochToScaleToG[at] \in Nat
  BY <1>1 DEF SumsType
<1> HIDE DEF G
<1>7. S0 \in Nat /\ G0 \in Nat
  BY <1>5, <1>6, SumAtType
<1> HIDE DEF S0, G0
<1>8. /\ dsnap \in SnapshotSet
      /\ deposit > 0 => Dated(dsnap) /\ dsnap.S = S0 /\ dsnap.G = G0
                            /\ dsnap.epoch = currentEpoch /\ dsnap.scale = currentScale
  BY <1>1, <1>7, SnapshotNowDated
<1>9. /\ fsnap \in SnapshotSet
      /\ stake > 0 => Dated(fsnap) /\ fsnap.G = G0
                            /\ fsnap.epoch = currentEpoch /\ fsnap.scale = currentScale
  <2>1. \A z \in Nat : LET s == snapshotNow(stake, z, G0)
                       IN  /\ s \in SnapshotSet
                           /\ stake > 0 => Dated(s) /\ s.G = G0
                                 /\ s.epoch = currentEpoch /\ s.scale = currentScale
    BY <1>1, <1>7, SnapshotNowDated
  <2> QED BY <2>1
<1>10. dep \in [initialValue : Nat, frontEndTag : Tags] /\ dep.initialValue = deposit
  BY DEF Tags
<1> HIDE DEF dsnap, fsnap, dep
<1>11. COLL' \in Nat
  BY <1>1, <1>2, CollGainType DEF TypeOK
<1>12. deftSent' \in 0..DEFTSupplyCap
  <2>1. DEFTGains(d, tag, G) \in Nat
    BY DEFTGainsType DEF G
  <2> QED BY <1>1, <1>2, <2>1, PoolAssumption DEF TypeOK
<1>13. /\ deposits' \in [Accounts -> [initialValue : Nat, frontEndTag : Tags]]
       /\ depositSnapshots' \in [Accounts -> SnapshotSet]
       /\ frontEndStakes' \in [Tags -> Nat] /\ frontEndSnapshots' \in [Tags -> SnapshotSet]
  BY <1>1, <1>2, <1>8, <1>9, <1>10 DEF TypeOK
<1>14. TypeOK'
  BY <1>1, <1>3, <1>5, <1>11, <1>12, <1>13 DEF TypeOK
<1>15. SumsType'
  BY <1>3, <1>4, <1>5, <1>6 DEF SumsType
<1>16. ASSUME NEW snap \in SnapshotSet, Seen(epochToScaleToG, snap, snap.G)
       PROVE  Seen(G, snap, snap.G)
  <2>1. snap.G \in Nat
    BY DEF SnapshotSet
  <2> QED BY <1>5, <1>6, <1>16, <2>1, SeenStays
<1>17. DepositsDated'
  <2>1. ASSUME NEW a \in Accounts, deposits'[a].initialValue > 0
        PROVE  /\ Dated(depositSnapshots'[a])
               /\ Seen(f, depositSnapshots'[a], depositSnapshots'[a].S)
               /\ Seen(G, depositSnapshots'[a], depositSnapshots'[a].G)
    <3>1. CASE a = d
      <4>1. deposits'[a] = dep /\ depositSnapshots'[a] = dsnap
        BY <1>1, <1>2, <3>1 DEF TypeOK
      <4>2. deposit > 0
        BY <1>10, <2>1, <4>1
      <4>3. Seen(f, dsnap, S0) /\ Seen(G, dsnap, G0)
        BY <1>7, <1>8, <4>2 DEF Seen, S0, G0, Here
      <4> QED BY <1>8, <4>1, <4>2, <4>3
    <3>2. CASE a # d
      <4>1. deposits'[a] = deposits[a] /\ depositSnapshots'[a] = depositSnapshots[a]
        BY <1>1, <1>2, <3>2 DEF TypeOK
      <4>2. /\ Dated(depositSnapshots[a])
            /\ Seen(f, depositSnapshots[a], depositSnapshots[a].S)
            /\ Seen(epochToScaleToG, depositSnapshots[a], depositSnapshots[a].G)
        BY <1>1, <2>1, <4>1 DEF DepositsDated
      <4>3. depositSnapshots[a] \in SnapshotSet
        BY <1>1 DEF TypeOK
      <4> QED BY <1>16, <4>1, <4>2, <4>3
    <3> QED BY <3>1, <3>2
  <2> QED BY <1>3, <1>4, <2>1 DEF DepositsDated, Dated, Seen, sumAt
<1>18. StakesDated'
  <2>1. ASSUME NEW a \in Tags, frontEndStakes'[a] > 0
        PROVE  /\ Dated(frontEndSnapshots'[a])
               /\ Seen(G, frontEndSnapshots'[a], frontEndSnapshots'[a].G)
    <3>1. CASE a = tag
      <4>1. frontEndStakes'[a] = stake /\ frontEndSnapshots'[a] = fsnap
        BY <1>1, <1>2, <3>1 DEF TypeOK
      <4>2. stake > 0
        BY <2>1, <4>1
      <4>3. Seen(G, fsnap, G0)
        BY <1>7, <1>9, <4>2 DEF Seen, G0, Here
      <4> QED BY <1>9, <4>1, <4>2, <4>3
    <3>2. CASE a # tag
      <4>1. frontEndStakes'[a] = frontEndStakes[a] /\ frontEndSnapshots'[a] = frontEndSnapshots[a]
        BY <1>1, <1>2, <3>2 DEF TypeOK
      <4>2. /\ Dated(frontEndSnapshots[a])
            /\ Seen(epochToScaleToG, frontEndSnapshots[a], frontEndSnapshots[a].G)
        BY <1>1, <2>1, <4>1 DEF StakesDated
      <4>3. frontEndSnapshots[a] \in SnapshotSet
        BY <1>1 DEF TypeOK
      <4> QED BY <1>16, <4>1, <4>2, <4>3
    <3> QED BY <3>1, <3>2
  <2> QED BY <1>3, <1>4, <2>1 DEF StakesDated, Dated, Seen, sumAt
<1> QED BY <1>14, <1>15, <1>17, <1>18 DEF SnapshotsInv

\* What the stakes are worth are natural numbers.
LEMMA StakesType ==
    ASSUME SnapshotsInv
    PROVE  /\ \A d \in Accounts : getCompoundedUSDDDeposit(d) \in Nat
           /\ \A f \in Tags : getCompoundedFrontEndStake(f) \in Nat
<1>1. P \in Nat /\ currentScale \in Nat
  BY PoolAssumption DEF SnapshotsInv, TypeOK
<1>2. ASSUME NEW d \in Accounts PROVE getCompoundedUSDDDeposit(d) \in Nat
  <2>1. /\ deposits[d].initialValue \in Nat /\ depositSnapshots[d] \in SnapshotSet
        /\ deposits[d].initialValue > 0 => Dated(depositSnapshots[d])
    BY DEF SnapshotsInv, TypeOK, DepositsDated
  <2> QED BY <1>1, <2>1, CompoundedType DEF getCompoundedUSDDDeposit
<1>3. ASSUME NEW f \in Tags PROVE getCompoundedFrontEndStake(f) \in Nat
  <2>1. /\ frontEndStakes[f] \in Nat /\ frontEndSnapshots[f] \in SnapshotSet
        /\ frontEndStakes[f] > 0 => Dated(frontEndSnapshots[f])
    BY DEF SnapshotsInv, TypeOK, StakesDated
  <2> QED BY <1>1, <2>1, CompoundedType DEF getCompoundedFrontEndStake
<1> QED BY <1>2, <1>3

\* provideToSP keeps the invariant.
LEMMA ProvideKeepsInv ==
    ASSUME SnapshotsInv, NEW d \in Accounts, NEW amount \in Nat, NEW frontEndTag \in Tags,
           NEW issuance \in Nat, provideToSP(d, amount, frontEndTag, issuance)
    PROVE  SnapshotsInv'
<1> DEFINE tag == IF deposits[d].initialValue = 0 THEN frontEndTag ELSE deposits[d].frontEndTag
           deposit == getCompoundedUSDDDeposit(d) + amount
           stake == getCompoundedFrontEndStake(tag) + amount
<1>1. TypeOK
  BY DEF SnapshotsInv
<1>2. tag \in Tags
  BY <1>1 DEF TypeOK
<1>3. /\ amount <= usdd[d] /\ usdd' = [usdd EXCEPT ![d] = @ - amount]
      /\ totalUSDDDeposits' = totalUSDDDeposits + amount
      /\ settle(d, tag, deposit, stake, issuance)
  BY DEF provideToSP
<1>4. deposit \in Nat /\ stake \in Nat
  BY <1>2, StakesType
<1>5. usdd' \in [Accounts -> Nat] /\ totalUSDDDeposits' \in Nat
  BY <1>1, <1>3 DEF TypeOK
<1> HIDE DEF tag, deposit, stake
<1> QED BY <1>2, <1>3, <1>4, <1>5, SettleKeepsInv

\* withdrawFromSP keeps the invariant.
LEMMA WithdrawKeepsInv ==
    ASSUME SnapshotsInv, NEW d \in Accounts, NEW amount \in Nat, NEW icr,
           NEW issuance \in Nat, withdrawFromSP(d, amount, icr, issuance)
    PROVE  SnapshotsInv'
<1> DEFINE tag == deposits[d].frontEndTag
           c == getCompoundedUSDDDeposit(d)
           w == lower(amount, c)
           deposit == c - w
           stake == getCompoundedFrontEndStake(tag) - w
<1>1. TypeOK
  BY DEF SnapshotsInv
<1>2. tag \in Tags
  BY <1>1 DEF TypeOK
<1>3. /\ w <= getCompoundedFrontEndStake(tag) /\ w <= totalUSDDDeposits
      /\ usdd' = [usdd EXCEPT ![d] = @ + w]
      /\ totalUSDDDeposits' = totalUSDDDeposits - w
      /\ settle(d, tag, deposit, stake, issuance)
  BY DEF withdrawFromSP
<1>4. c \in Nat /\ getCompoundedFrontEndStake(tag) \in Nat
  BY <1>2, StakesType
<1>5. w \in Nat /\ w <= c
  <2> HIDE DEF c
  <2> QED BY <1>4 DEF lower
<1> HIDE DEF w, c, tag
<1>6. deposit \in Nat /\ stake \in Nat
  BY <1>3, <1>4, <1>5
<1>7. usdd' \in [Accounts -> Nat] /\ totalUSDDDeposits' \in Nat
  BY <1>1, <1>3, <1>5 DEF TypeOK
<1> HIDE DEF deposit, stake
<1> QED BY <1>2, <1>3, <1>6, <1>7, SettleKeepsInv

\* withdrawCollGainToTrove keeps the invariant.
LEMMA GainToTroveKeepsInv ==
    ASSUME SnapshotsInv, NEW d \in Accounts, NEW hasTrove,
           NEW issuance \in Nat, withdrawCollGainToTrove(d, hasTrove, issuance)
    PROVE  SnapshotsInv'
<1> DEFINE tag == deposits[d].frontEndTag
           deposit == getCompoundedUSDDDeposit(d)
           stake == getCompoundedFrontEndStake(tag)
<1>1. TypeOK
  BY DEF SnapshotsInv
<1>2. tag \in Tags
  BY <1>1 DEF TypeOK
<1>3. UNCHANGED <<usdd, totalUSDDDeposits>> /\ settle(d, tag, deposit, stake, issuance)
  BY DEF withdrawCollGainToTrove
<1>4. deposit \in Nat /\ stake \in Nat
  BY <1>2, StakesType
<1>5. usdd' \in [Accounts -> Nat] /\ totalUSDDDeposits' \in Nat
  BY <1>1, <1>3 DEF TypeOK
<1> HIDE DEF tag, deposit, stake
<1> QED BY <1>2, <1>3, <1>4, <1>5, SettleKeepsInv

\* registerFrontEnd keeps the invariant.
LEMMA RegisterKeepsInv ==
    ASSUME SnapshotsInv, NEW f \in Accounts, NEW k \in KickbackRates, registerFrontEnd(f, k)
    PROVE  SnapshotsInv'
<1>1. k \in 0..DECIMAL_PRECISION
  BY PoolAssumption
<1>2. frontEnds' = [frontEnds EXCEPT ![f] = [kickbackRate |-> k, registered |-> TRUE]]
  BY DEF registerFrontEnd
<1>3. UNCHANGED <<COLL, totalUSDDDeposits, depositVars, frontEndVars,
                  productVars, issuanceVars, usdd, deftSent, offsets>>
  BY DEF registerFrontEnd
<1>4. frontEnds' \in [Accounts -> [kickbackRate: 0..DECIMAL_PRECISION, registered: BOOLEAN]]
  BY <1>1, <1>2 DEF SnapshotsInv, TypeOK
<1>5. TypeOK'
  BY <1>3, <1>4 DEF SnapshotsInv, TypeOK, depositVars, frontEndVars, productVars, issuanceVars
<1>6. SumsType' /\ DepositsDated' /\ StakesDated'
  BY <1>3 DEF SnapshotsInv, SumsType, DepositsDated, StakesDated, Dated, Seen, sumAt,
              depositVars, frontEndVars, productVars, issuanceVars
<1> QED BY <1>5, <1>6 DEF SnapshotsInv

\* What an offset does to the sums and to the product.
LEMMA OffsetEffect ==
    ASSUME SnapshotsInv, NEW debt \in Nat, NEW coll \in Nat, NEW issuance \in Nat,
           offset(debt, coll, issuance)
    PROVE  /\ \A at \in DOMAIN epochToScaleToSum' : epochToScaleToSum'[at] \in Nat
           /\ \A at : sumAt(epochToScaleToSum, at) <= sumAt(epochToScaleToSum', at)
           /\ P' \in 1..DECIMAL_PRECISION
           /\ \/ currentEpoch' = currentEpoch + 1 /\ currentScale' = 0
              \/ currentEpoch' = currentEpoch /\ currentScale' = currentScale /\ P' <= P
              \/ /\ currentEpoch' = currentEpoch /\ currentScale' = currentScale + 1
                 /\ P' <= P * SCALE_FACTOR
           /\ lastCollError_Offset' \in Nat
           /\ lastUSDDLossError_Offset' \in Nat
<1> DEFINE x == collPerUnit(coll) * P
           n == coll * DECIMAL_PRECISION + lastCollError_Offset
           t == totalUSDDDeposits
<1>1. TypeOK /\ \A at \in DOMAIN epochToScaleToSum : epochToScaleToSum[at] \in Nat
  BY DEF SnapshotsInv, SumsType
<1>2. totalUSDDDeposits # 0 /\ OffsetSafe(debt) /\ updateRewardSumAndProduct(debt, coll)
      /\ lastCollError_Offset' = collError(coll) /\ lastUSDDLossError_Offset' = lossError(debt)
  BY DEF offset
<1>3. n \in Nat /\ t \in Nat /\ t > 0 /\ P \in Nat
  <2>1. /\ DECIMAL_PRECISION \in Nat /\ lastCollError_Offset \in Nat
        /\ totalUSDDDeposits \in Nat /\ P \in Nat
    BY <1>1, PoolAssumption DEF TypeOK
  <2> QED BY <1>2, <2>1
<1>4. collPerUnit(coll) = n \div t /\ collError(coll) = n % t
  BY DEF collPerUnit, collError
<1> HIDE DEF n, t
<1>5. n \div t \in Nat /\ n % t \in Nat
  BY <1>3
<1>6. x \in Nat
  <2> DEFINE y == n \div t
  <2>1. y \in Nat /\ collPerUnit(coll) = y
    BY <1>4, <1>5
  <2> HIDE DEF y
  <2> QED BY <1>3, <2>1
<1>7. epochToScaleToSum' = addAt(epochToScaleToSum, Here, x)
  BY <1>2 DEF updateRewardSumAndProduct
<1> HIDE DEF x
<1>8. /\ \A at \in DOMAIN epochToScaleToSum' : epochToScaleToSum'[at] \in Nat
      /\ \A at : sumAt(epochToScaleToSum, at) <= sumAt(epochToScaleToSum', at)
  <2> DEFINE f == epochToScaleToSum
             g == addAt(f, Here, x)
  <2>1. /\ \A at \in DOMAIN g : g[at] \in Nat
        /\ \A at : sumAt(f, at) <= sumAt(g, at)
    BY <1>1, <1>6, AddAtType
  <2>2. epochToScaleToSum' = g
    BY <1>7
  <2> HIDE DEF g
  <2> QED BY <2>1, <2>2 DEF sumAt
<1>9. P' = newP(debt) /\ newP(debt) \in 1..DECIMAL_PRECISION
  BY <1>1, <1>2, ProductType DEF updateRewardSumAndProduct
<1>10. \/ currentEpoch' = currentEpoch + 1 /\ currentScale' = 0
       \/ currentEpoch' = currentEpoch /\ currentScale' = currentScale /\ P' <= P
       \/ /\ currentEpoch' = currentEpoch /\ currentScale' = currentScale + 1
          /\ P' <= P * SCALE_FACTOR
  <2>1. newProductFactor(debt) # 0 =>
            IF productTooSmall(debt) THEN newP(debt) <= P * SCALE_FACTOR
                                     ELSE newP(debt) <= P
    BY <1>1, <1>2, ProductType
  <2>2. CASE newProductFactor(debt) = 0
    BY <1>2, <2>2 DEF updateRewardSumAndProduct
  <2>3. CASE newProductFactor(debt) # 0 /\ productTooSmall(debt)
    BY <1>2, <1>9, <2>1, <2>3 DEF updateRewardSumAndProduct
  <2>4. CASE newProductFactor(debt) # 0 /\ ~productTooSmall(debt)
    BY <1>2, <1>9, <2>1, <2>4 DEF updateRewardSumAndProduct
  <2> QED BY <2>2, <2>3, <2>4
<1>11. lossError(debt) \in Nat
  BY <1>1, <1>2, FactorType
<1> QED BY <1>2, <1>4, <1>5, <1>8, <1>9, <1>10, <1>11

\* offset keeps the invariant.
LEMMA OffsetKeepsInv ==
    ASSUME SnapshotsInv, NEW debt \in Nat, NEW coll \in Nat, NEW issuance \in Nat,
           offset(debt, coll, issuance)
    PROVE  SnapshotsInv'
<1> DEFINE G == GAfter(issuance)
           f == epochToScaleToSum
           g == epochToScaleToSum'
<1>1. TypeOK /\ SumsType /\ DepositsDated /\ StakesDated
  BY DEF SnapshotsInv
<1>2. /\ debt \in 1..totalUSDDDeposits /\ triggerDEFTIssuance(issuance)
      /\ totalUSDDDeposits' = totalUSDDDeposits - debt /\ COLL' = COLL + coll
      /\ offsets' = offsets + 1
      /\ UNCHANGED <<deposits, depositSnapshots, frontEnds, frontEndStakes, frontEndSnapshots,
                     usdd, deftSent>>
  BY DEF offset, depositVars, frontEndVars
<1>3. /\ \A at \in DOMAIN g : g[at] \in Nat
      /\ \A at : sumAt(f, at) <= sumAt(g, at)
      /\ P' \in 1..DECIMAL_PRECISION
      /\ lastCollError_Offset' \in Nat /\ lastUSDDLossError_Offset' \in Nat
  BY OffsetEffect
<1>4. \/ currentEpoch' = currentEpoch + 1 /\ currentScale' = 0
      \/ currentEpoch' = currentEpoch /\ currentScale' = currentScale
      \/ currentEpoch' = currentEpoch /\ currentScale' = currentScale + 1
  BY OffsetEffect
<1>5. epochToScaleToG' = G
  BY <1>2 DEF triggerDEFTIssuance
<1>6. /\ \A at \in DOMAIN G : G[at] \in Nat
      /\ \A at : sumAt(epochToScaleToG, at) <= sumAt(G, at)
      /\ totalDEFTIssued' \in 0..DEFTSupplyCap /\ lastDEFTError' \in Nat
  BY <1>2, IssuanceType
<1>7. /\ \A at \in DOMAIN f : f[at] \in Nat
      /\ \A at \in DOMAIN epochToScaleToG : epochToScaleToG[at] \in Nat
  BY <1>1 DEF SumsType
<1> HIDE DEF G, g
<1>8. currentEpoch' \in Nat /\ currentScale' \in Nat
  BY <1>1, <1>4 DEF TypeOK
<1>9. TypeOK'
  BY <1>1, <1>2, <1>3, <1>6, <1>8 DEF TypeOK
<1>10. SumsType'
  BY <1>3, <1>5, <1>6 DEF SumsType, g
<1>11. ASSUME NEW snap \in SnapshotSet, Dated(snap)
       PROVE  /\ snap.P >= 1
              /\ snap.epoch <= currentEpoch'
              /\ snap.epoch = currentEpoch' => snap.scale <= currentScale'
  BY <1>1, <1>4, <1>11, DatedStays
<1>12. ASSUME NEW snap \in SnapshotSet, Seen(epochToScaleToG, snap, snap.G)
       PROVE  Seen(G, snap, snap.G)
  <2>1. snap.G \in Nat
    BY DEF SnapshotSet
  <2> QED BY <1>6, <1>7, <1>12, <2>1, SeenStays
<1>13. ASSUME NEW snap \in SnapshotSet, Seen(f, snap, snap.S)
       PROVE  Seen(g, snap, snap.S)
  <2>1. snap.S \in Nat
    BY DEF SnapshotSet
  <2> HIDE DEF f
  <2> QED BY <1>3, <1>7, <1>13, <2>1, SeenStays
<1>14. DepositsDated'
  <2>1. ASSUME NEW a \in Accounts, deposits[a].initialValue > 0
        PROVE  /\ depositSnapshots[a].P >= 1
               /\ depositSnapshots[a].epoch <= currentEpoch'
               /\ depositSnapshots[a].epoch = currentEpoch'
                      => depositSnapshots[a].scale <= currentScale'
               /\ Seen(g, depositSnapshots[a], depositSnapshots[a].S)
               /\ Seen(G, depositSnapshots[a], depositSnapshots[a].G)
    <3>1. depositSnapshots[a] \in SnapshotSet
      BY <1>1 DEF TypeOK
    <3>2. /\ Dated(depositSnapshots[a])
          /\ Seen(f, depositSnapshots[a], depositSnapshots[a].S)
          /\ Seen(epochToScaleToG, depositSnapshots[a], depositSnapshots[a].G)
      BY <1>1, <2>1 DEF DepositsDated
    <3> HIDE DEF f
    <3> QED BY <1>11, <1>12, <1>13, <3>1, <3>2
  <2> QED BY <1>2, <1>5, <2>1 DEF DepositsDated, Dated, Seen, sumAt, g
<1>15. StakesDated'
  <2>1. ASSUME NEW a \in Tags, frontEndStakes[a] > 0
        PROVE  /\ frontEndSnapshots[a].P >= 1
               /\ frontEndSnapshots[a].epoch <= currentEpoch'
               /\ frontEndSnapshots[a].epoch = currentEpoch'
                      => frontEndSnapshots[a].scale <= currentScale'
               /\ Seen(G, frontEndSnapshots[a], frontEndSnapshots[a].G)
    <3>1. frontEndSnapshots[a] \in SnapshotSet
      BY <1>1 DEF TypeOK
    <3>2. /\ Dated(frontEndSnapshots[a])
          /\ Seen(epochToScaleToG, frontEndSnapshots[a], frontEndSnapshots[a].G)
      BY <1>1, <2>1 DEF StakesDated
    <3> QED BY <1>11, <1>12, <3>1, <3>2
  <2> QED BY <1>2, <1>5, <2>1 DEF StakesDated, Dated, Seen, sumAt
<1> QED BY <1>9, <1>10, <1>14, <1>15 DEF SnapshotsInv

\* Init satisfies the invariant.
LEMMA InitSnapshots == Init => SnapshotsInv
<1> SUFFICES ASSUME Init PROVE SnapshotsInv
  OBVIOUS
<1>1. NoSnapshot \in SnapshotSet
  BY DEF NoSnapshot, Snapshot, SnapshotSet
<1>2. /\ deposits \in [Accounts -> [initialValue: Nat, frontEndTag: Tags]]
      /\ depositSnapshots \in [Accounts -> SnapshotSet]
      /\ frontEndSnapshots \in [Tags -> SnapshotSet] /\ frontEndStakes \in [Tags -> Nat]
  BY <1>1 DEF Init, Tags
<1>3. /\ frontEnds \in [Accounts -> [kickbackRate: 0..DECIMAL_PRECISION, registered: BOOLEAN]]
      /\ usdd \in [Accounts -> Nat] /\ P \in 1..DECIMAL_PRECISION
      /\ totalDEFTIssued \in 0..DEFTSupplyCap /\ deftSent \in 0..DEFTSupplyCap
  BY PoolAssumption DEF Init
<1>4. TypeOK
  BY <1>2, <1>3 DEF Init, TypeOK
<1>5. SumsType
  BY DEF Init, SumsType
<1>6. DepositsDated /\ StakesDated
  BY DEF Init, DepositsDated, StakesDated
<1> QED BY <1>4, <1>5, <1>6 DEF SnapshotsInv

\* The collateral of an offset is a natural number.
LEMMA OffsetInputs ==
    ASSUME SnapshotsInv, NEW debt \in Debts, NEW ratio \in CollRatios
    PROVE  /\ lower(debt, totalUSDDDeposits) \in Nat
           /\ lower(debt, totalUSDDDeposits) * ratio \in Nat
<1>1. debt \in Nat /\ ratio \in Nat /\ totalUSDDDeposits \in Nat
  BY PoolAssumption DEF SnapshotsInv, TypeOK
<1> DEFINE x == lower(debt, totalUSDDDeposits)
<1>2. x \in Nat
  BY <1>1 DEF lower
<1> HIDE DEF x
<1>3. x * ratio \in Nat
  BY <1>1, <1>2
<1> QED BY <1>2, <1>3 DEF x

\* Every step keeps it.
LEMMA NextSnapshots == SnapshotsInv /\ [Next]_vars => SnapshotsInv'
<1> SUFFICES ASSUME SnapshotsInv, [Next]_vars PROVE SnapshotsInv'
  OBVIOUS
<1>1. Amounts \cup {0} \subseteq Nat /\ Issuances \subseteq Nat
  BY PoolAssumption
<1>2. ASSUME NEW d \in Accounts, NEW amount \in Amounts, NEW tag \in Tags, NEW i \in Issuances,
             provideToSP(d, amount, tag, i)
      PROVE  SnapshotsInv'
  <2>1. amount \in Nat /\ i \in Nat
    BY <1>1
  <2> QED BY <1>2, <2>1, ProvideKeepsInv
<1>3. ASSUME NEW d \in Accounts, NEW amount \in Amounts \cup {0}, NEW icr \in LowestICRs,
             NEW i \in Issuances, withdrawFromSP(d, amount, icr, i)
      PROVE  SnapshotsInv'
  <2>1. amount \in Nat /\ i \in Nat
    BY <1>1
  <2> QED BY <1>3, <2>1, WithdrawKeepsInv
<1>4. ASSUME NEW d \in Accounts, NEW hasTrove \in BOOLEAN, NEW i \in Issuances,
             withdrawCollGainToTrove(d, hasTrove, i)
      PROVE  SnapshotsInv'
  <2>1. i \in Nat
    BY <1>1
  <2> QED BY <1>4, <2>1, GainToTroveKeepsInv
<1>5. ASSUME NEW f \in Accounts, NEW k \in KickbackRates, registerFrontEnd(f, k)
      PROVE  SnapshotsInv'
  BY <1>5, RegisterKeepsInv
<1>6. ASSUME NEW debt \in Debts, NEW ratio \in CollRatios, NEW i \in Issuances,
             offset(lower(debt, totalUSDDDeposits), lower(debt, totalUSDDDeposits) * ratio, i)
      PROVE  SnapshotsInv'
  <2> DEFINE x == lower(debt, totalUSDDDeposits)
             y == x * ratio
  <2>1. x \in Nat /\ y \in Nat /\ i \in Nat
    BY <1>1, OffsetInputs
  <2>2. offset(x, y, i)
    BY <1>6
  <2> HIDE DEF x, y
  <2> QED BY <2>1, <2>2, OffsetKeepsInv
<1>7. CASE UNCHANGED vars
  BY <1>7 DEF SnapshotsInv, TypeOK, SumsType, DepositsDated, StakesDated, Dated, Seen, sumAt,
              vars, depositVars, frontEndVars, productVars, issuanceVars
<1> QED BY <1>2, <1>3, <1>4, <1>5, <1>6, <1>7 DEF Next

\* The pool's amounts stay natural and its product between one unit and the
\* precision, whatever losses, scales and epochs there are.
THEOREM PoolTypeCorrect == Spec => []TypeOK
<1>1. Spec => []SnapshotsInv
  BY InitSnapshots, NextSnapshots, PTL DEF Spec
<1>2. SnapshotsInv => TypeOK
  BY DEF SnapshotsInv
<1> QED BY <1>1, <1>2, PTL

-----------------------------------------------------------------------------
(* Others' deposits and gains *)

\* What OthersUntouched says of a step.
Untouched ==
    \A d \in Accounts :
        (/\ deposits'[d] = deposits[d]
         /\ depositSnapshots'[d] = depositSnapshots[d]) =>
        /\ getDepositorCollGain(d)' >= getDepositorCollGain(d)
        /\ getCompoundedUSDDDeposit(d)' <= getCompoundedUSDDDeposit(d)

\* Nothing changes for others where the product and its sums do not change.
LEMMA ProductUnchanged ==
    ASSUME SnapshotsInv, UNCHANGED productVars
    PROVE  Untouched
<1> SUFFICES ASSUME NEW d \in Accounts, deposits'[d] = deposits[d],
                    depositSnapshots'[d] = depositSnapshots[d]
             PROVE  /\ getDepositorCollGain(d)' >= getDepositorCollGain(d)
                    /\ getCompoundedUSDDDeposit(d)' <= getCompoundedUSDDDeposit(d)
  BY DEF Untouched
<1>1. /\ P' = P /\ currentScale' = currentScale /\ currentEpoch' = currentEpoch
      /\ epochToScaleToSum' = epochToScaleToSum
  BY DEF productVars
<1>2. getDepositorCollGain(d)' = getDepositorCollGain(d)
  BY <1>1 DEF getDepositorCollGain, gainFrom, portion, sumAt
<1>3. getCompoundedUSDDDeposit(d)' = getCompoundedUSDDDeposit(d)
  BY <1>1 DEF getCompoundedUSDDDeposit, getCompoundedStakeFromSnapshots
<1>4. getDepositorCollGain(d) \in Nat /\ getCompoundedUSDDDeposit(d) \in Nat
  BY CollGainType, StakesType
<1> QED BY <1>2, <1>3, <1>4

\* A liquidation pays every depositor and reduces every deposit.
LEMMA OffsetUntouched ==
    ASSUME SnapshotsInv, NEW debt \in Nat, NEW coll \in Nat, NEW issuance \in Nat,
           offset(debt, coll, issuance)
    PROVE  Untouched
<1> SUFFICES ASSUME NEW d \in Accounts
             PROVE  /\ getDepositorCollGain(d)' >= getDepositorCollGain(d)
                    /\ getCompoundedUSDDDeposit(d)' <= getCompoundedUSDDDeposit(d)
  BY DEF Untouched
<1> DEFINE s == deposits[d].initialValue
           snap == depositSnapshots[d]
           f == epochToScaleToSum
           g == epochToScaleToSum'
<1>1. deposits' = deposits /\ depositSnapshots' = depositSnapshots
  BY DEF offset, depositVars
<1>2. s \in Nat /\ snap \in SnapshotSet /\ snap.S \in Nat
  BY DEF SnapshotsInv, TypeOK, SnapshotSet
<1>3. s > 0 => Dated(snap) /\ snap.P >= 1 /\ Seen(f, snap, snap.S)
  BY DEF SnapshotsInv, DepositsDated, Dated
<1>4. /\ \A at \in DOMAIN f : f[at] \in Nat
      /\ \A at \in DOMAIN g : g[at] \in Nat
      /\ \A at : sumAt(f, at) <= sumAt(g, at)
  BY OffsetEffect DEF SnapshotsInv, SumsType
<1>5. getDepositorCollGain(d)' >= getDepositorCollGain(d)
  <2>1. CASE s = 0
    <3>1. getDepositorCollGain(d)' = 0 /\ getDepositorCollGain(d) = 0
      BY <1>1, <2>1 DEF getDepositorCollGain
    <3> QED BY <3>1
  <2>2. CASE s # 0
    <3>1. getDepositorCollGain(d) = gainFrom(s, f, snap, snap.S)
      BY <2>2 DEF getDepositorCollGain
    <3>2. getDepositorCollGain(d)' = gainFrom(s, g, snap, snap.S)
      BY <1>1, <2>2 DEF getDepositorCollGain, gainFrom, portion, sumAt
    <3>3. snap.P >= 1 /\ Seen(f, snap, snap.S)
      BY <1>2, <1>3, <2>2
    <3> HIDE DEF s, snap, f, g
    <3>4. /\ gainFrom(s, f, snap, snap.S) \in Nat
          /\ gainFrom(s, g, snap, snap.S) \in Nat
          /\ gainFrom(s, f, snap, snap.S) <= gainFrom(s, g, snap, snap.S)
      BY <1>2, <1>4, <3>3, GainMonotone
    <3> QED BY <3>1, <3>2, <3>4
  <2> QED BY <2>1, <2>2
<1>6. getCompoundedUSDDDeposit(d)' <= getCompoundedUSDDDeposit(d)
  <2> DEFINE k == keptAt(s, snap, P, currentScale)
             kk == keptAt(s, snap, P', currentScale')
             floor == s \div SCALE_FACTOR
  <2>1. getCompoundedUSDDDeposit(d) =
            IF s = 0 \/ snap.epoch < currentEpoch \/ k < floor THEN 0 ELSE k
    BY DEF getCompoundedUSDDDeposit, getCompoundedStakeFromSnapshots, keptAt
  <2>2. getCompoundedUSDDDeposit(d)' =
            IF s = 0 \/ snap.epoch < currentEpoch' \/ kk < floor THEN 0 ELSE kk
    BY <1>1 DEF getCompoundedUSDDDeposit, getCompoundedStakeFromSnapshots, keptAt
  <2>3. getCompoundedUSDDDeposit(d) \in Nat
    BY StakesType
  <2>4. CASE s = 0
    BY <2>2, <2>3, <2>4
  <2>5. CASE s # 0
    <3>1. Dated(snap) /\ snap.P >= 1
      BY <1>2, <1>3, <2>5
    <3>2. /\ currentEpoch \in Nat /\ currentScale \in Nat /\ P \in Nat
          /\ snap.epoch \in Nat /\ snap.scale \in Nat /\ SCALE_FACTOR \in Nat /\ SCALE_FACTOR > 0
      BY <1>2, PoolAssumption DEF SnapshotsInv, TypeOK, SnapshotSet
    <3>3. /\ P' \in Nat
          /\ \/ currentEpoch' = currentEpoch + 1 /\ currentScale' = 0
             \/ currentEpoch' = currentEpoch /\ currentScale' = currentScale /\ P' <= P
             \/ /\ currentEpoch' = currentEpoch /\ currentScale' = currentScale + 1
                /\ P' <= P * SCALE_FACTOR
      BY OffsetEffect, PoolAssumption
    <3>4. CASE snap.epoch < currentEpoch'
      BY <2>2, <2>3, <3>4
    <3>5. CASE ~(snap.epoch < currentEpoch')
      <4>1. currentEpoch' = currentEpoch /\ snap.epoch = currentEpoch /\ snap.scale <= currentScale
        <5>1. currentEpoch' = currentEpoch + 1 \/ currentEpoch' = currentEpoch
          BY <3>3
        <5>2. snap.epoch <= currentEpoch /\ (snap.epoch = currentEpoch => snap.scale <= currentScale)
          BY <3>1 DEF Dated
        <5> HIDE DEF snap
        <5> QED BY <3>2, <3>5, <5>1, <5>2
      <4>2. /\ currentScale' \in Nat
            /\ \/ currentScale' = currentScale /\ P' <= P
               \/ currentScale' = currentScale + 1 /\ P' <= P * SCALE_FACTOR
        BY <3>2, <3>3, <4>1
      <4>3. kk <= k
        <5> HIDE DEF s, snap
        <5> DEFINE q == P'
                   n == currentScale'
        <5>1. /\ q \in Nat /\ n \in Nat
              /\ \/ n = currentScale /\ q <= P
                 \/ n = currentScale + 1 /\ q <= P * SCALE_FACTOR
          BY <3>3, <4>2
        <5> HIDE DEF q, n
        <5>2. keptAt(s, snap, q, n) <= keptAt(s, snap, P, currentScale)
          BY <1>2, <3>1, <3>2, <4>1, <5>1, KeptShrinks
        <5> QED BY <5>2 DEF q, n
      <4>4. k \in Nat /\ kk \in Nat
        BY <1>2, <3>1, <3>2, <3>3, <4>2, KeptType
      <4>5. floor \in Nat
        <5> HIDE DEF s
        <5> QED BY <1>2, <3>2, QuotientNat
      <4> HIDE DEF k, kk, floor
      <4> QED BY <2>1, <2>2, <2>5, <3>2, <4>1, <4>3, <4>4, <4>5
    <3> QED BY <3>4, <3>5
  <2> QED BY <2>4, <2>5
<1> QED BY <1>5, <1>6

\* No operation reduces another depositor's collateral gain or raises another
\* deposit, for every sequence of losses, scales and epochs.
THEOREM OthersStayUntouched == Spec => OthersUntouched
<1>1. SnapshotsInv /\ [Next]_vars => Untouched
  <2> SUFFICES ASSUME SnapshotsInv, [Next]_vars PROVE Untouched
    OBVIOUS
  <2>1. CASE UNCHANGED productVars
    BY <2>1, ProductUnchanged
  <2>2. ASSUME NEW debt \in Debts, NEW ratio \in CollRatios, NEW i \in Issuances,
               offset(lower(debt, totalUSDDDeposits), lower(debt, totalUSDDDeposits) * ratio, i)
        PROVE  Untouched
    <3> DEFINE x == lower(debt, totalUSDDDeposits)
               y == x * ratio
    <3>1. x \in Nat /\ y \in Nat /\ i \in Nat
      BY OffsetInputs, PoolAssumption
    <3>2. offset(x, y, i)
      BY <2>2
    <3> HIDE DEF x, y
    <3> QED BY <3>1, <3>2, OffsetUntouched
  <2>3. \/ UNCHANGED productVars
        \/ \E debt \in Debts, ratio \in CollRatios, i \in Issuances :
               offset(lower(debt, totalUSDDDeposits), lower(debt, totalUSDDDeposits) * ratio, i)
    BY DEF Next, provideToSP, withdrawFromSP, withdrawCollGainToTrove, registerFrontEnd,
           settle, vars
  <2> QED BY <2>1, <2>2, <2>3
<1>2. Spec => []SnapshotsInv
  BY InitSnapshots, NextSnapshots, PTL DEF Spec
<1>3. Spec => [][Untouched]_vars
  BY <1>1, <1>2, PTL DEF Spec
<1> QED BY <1>3 DEF OthersUntouched, Untouched

-----------------------------------------------------------------------------
(* The deposits and what the pool holds                                    *)
(*                                                                         *)
(* The quotient that a deposit is worth is rounded, and rounded again by   *)
(* every operation.  Before any rounding the deposits are shares of the    *)
(* product: w[d] / M for each unit of P.  They satisfy a sharper bound,    *)
(* with the error that the next loss is going to correct.                  *)

\* The deposits of this epoch in shares.  A deposit of an earlier scale has
\* the share that the product scaled up gives it.
SharesCover(M, w) ==
    \A d \in Accounts :
        deposits[d].initialValue > 0 /\ depositSnapshots[d].epoch = currentEpoch =>
            /\ depositSnapshots[d].scale = currentScale =>
                   M * deposits[d].initialValue <= w[d] * depositSnapshots[d].P
            /\ depositSnapshots[d].scale + 1 = currentScale =>
                   M * deposits[d].initialValue
                       <= (w[d] * depositSnapshots[d].P) * SCALE_FACTOR

Room == IF offsets = 0 THEN 0 ELSE USDDSupply

SharesHeld(M, w) ==
    (SumFunction(w) * P) * DECIMAL_PRECISION + M * lastUSDDLossError_Offset
        <= M * (totalUSDDDeposits * DECIMAL_PRECISION + Room)

\* The error to be corrected is at most the USDD there is, and all of the
\* pool's USDD came from the accounts.
ErrorBounded == lastUSDDLossError_Offset <= Room
SupplyBounded == SumFunction(usdd) + totalUSDDDeposits <= USDDSupply

SharesInv ==
    /\ ErrorBounded
    /\ SupplyBounded
    /\ \E M \in Nat \ {0}, w \in [Accounts -> Nat] :
           SharesCover(M, w) /\ SharesHeld(M, w)

\* A loss of l per unit, rounded up and corrected by the last error e,
\* leaves the shares covered: what the rounding takes is the next error e2.
LEMMA LossArithmetic ==
    ASSUME NEW X \in Nat, NEW M \in Nat, NEW D \in Nat, D > 0, NEW T \in Nat,
           NEW K \in Nat, NEW e \in Nat, NEW l \in Int, NEW f \in Nat,
           NEW e2 \in Nat, NEW debt \in Nat,
           X * D + M * e <= M * (T * D + K), e <= K,
           f = D - l, f <= D, l * T = debt * D - e + e2
    PROVE  X * f + M * e2 <= M * ((T - debt) * D + K)
<1> DEFINE A == T * D + K - e
           B == (T - debt) * D + K
<1>1. A \in Int /\ B \in Int /\ T * D \in Int /\ debt * D \in Int /\ l * T \in Int
  OBVIOUS
<1>2. X * D <= M * A
  <2>1. M * A = M * (T * D + K) - M * e
    OBVIOUS
  <2>2. M * (T * D + K) \in Int /\ M * e \in Int /\ X * D \in Int
    OBVIOUS
  <2> QED BY <2>1, <2>2
<1>3. f * A + D * e2 <= D * B
  <2>1. f * A = (f * T) * D + f * (K - e)
    OBVIOUS
  <2>2. f * T = D * T - l * T
    OBVIOUS
  <2>3. (f * T) * D = (T * D - debt * D + e - e2) * D
    BY <1>1, <2>2
  <2>4. f * (K - e) <= D * (K - e)
    OBVIOUS
  <2>5. D * B = (T * D - debt * D + e - e2) * D + D * (K - e) + D * e2
    OBVIOUS
  <2>6. /\ (T * D - debt * D + e - e2) * D \in Int /\ f * (K - e) \in Int
        /\ D * (K - e) \in Int /\ D * e2 \in Int
    OBVIOUS
  <2> QED BY <2>1, <2>3, <2>4, <2>5, <2>6
<1> HIDE DEF A, B
<1>4. f * (X * D) <= f * (M * A)
  <2>1. X * D \in Int /\ M * A \in Int
    BY <1>1
  <2>2. \A x, y \in Int : x <= y => f * x <= f * y
    OBVIOUS
  <2> QED BY <1>2, <2>1, <2>2
<1>5. M * (f * A + D * e2) <= M * (D * B)
  <2>1. f * A + D * e2 \in Int /\ D * B \in Int
    BY <1>1
  <2>2. \A x, y \in Int : x <= y => M * x <= M * y
    OBVIOUS
  <2> QED BY <1>3, <2>1, <2>2
<1>6. /\ f * (X * D) = D * (X * f)
      /\ f * (M * A) = M * (f * A)
      /\ M * (f * A + D * e2) = M * (f * A) + D * (M * e2)
      /\ M * (D * B) = D * (M * B)
      /\ D * (X * f + M * e2) = D * (X * f) + D * (M * e2)
  BY <1>1
<1>7. /\ D * (X * f) \in Int /\ M * (f * A) \in Int /\ D * (M * e2) \in Int
      /\ D * (M * B) \in Int
  BY <1>1
<1>8. D * (X * f + M * e2) <= D * (M * B)
  BY <1>4, <1>5, <1>6, <1>7
<1>9. X * f + M * e2 \in Int /\ M * B \in Int
  BY <1>1
<1>10. X * f + M * e2 <= M * B
  BY <1>8, <1>9, CancelFactor
<1> QED BY <1>10 DEF B

\* A deposit is not worth more than its share: getCompoundedUSDDDeposit.
LEMMA DepositWithinShare ==
    ASSUME SnapshotsInv, NEW M \in Nat \ {0}, NEW w \in [Accounts -> Nat],
           SharesCover(M, w), NEW d \in Accounts
    PROVE  M * getCompoundedUSDDDeposit(d) <= w[d] * P
<1> DEFINE v == deposits[d].initialValue
           s == depositSnapshots[d]
           k == s.P
           K == SCALE_FACTOR
           x == v * P
           y == x \div k
           c == getCompoundedUSDDDeposit(d)
<1>1. /\ v \in Nat /\ s \in SnapshotSet /\ P \in Nat /\ currentScale \in Nat
      /\ currentEpoch \in Nat /\ K \in Nat /\ K > 0
  BY PoolAssumption DEF SnapshotsInv, TypeOK
<1>2. k \in Nat /\ s.scale \in Nat /\ s.epoch \in Nat
  BY <1>1 DEF SnapshotSet
<1>3. w[d] \in Nat /\ w[d] * P \in Nat
  BY <1>1
<1>4. c = getCompoundedStakeFromSnapshots(v, s)
  BY DEF getCompoundedUSDDDeposit
<1>5. CASE c = 0
  <2>1. M * c = 0
    BY <1>5
  <2> QED BY <1>3, <2>1
<1>6. CASE c # 0
  <2>1. v # 0 /\ ~(s.epoch < currentEpoch)
    BY <1>4, <1>6 DEF getCompoundedStakeFromSnapshots
  <2>2. v > 0 /\ Dated(s)
    BY <1>1, <2>1 DEF SnapshotsInv, DepositsDated
  <2>3. k > 0 /\ s.epoch = currentEpoch /\ s.scale <= currentScale
    BY <1>1, <1>2, <2>1, <2>2 DEF Dated
  <2>4. c = keptAt(v, s, P, currentScale)
    BY <1>4, <1>6 DEF getCompoundedStakeFromSnapshots, keptAt
  <2>5. x \in Nat
    BY <1>1
  <2>6. y \in Nat /\ k * y <= x
    <3> HIDE DEF x, k
    <3> QED BY <1>2, <2>3, <2>5, QuotientNat, QuotientBounds
  <2>7. y \div K \in Nat /\ K * (y \div K) <= y
    <3> HIDE DEF y, K
    <3> QED BY <1>1, <2>6, QuotientNat, QuotientBounds
  <2>8. CASE s.scale = currentScale
    <3>1. c = y
      BY <1>1, <1>2, <2>4, <2>8 DEF keptAt
    <3>2. M * v <= w[d] * k
      BY <2>2, <2>3, <2>8 DEF SharesCover
    <3>3. ASSUME NEW p \in Nat, NEW q \in Nat, NEW u \in Nat, NEW a \in Nat, NEW b \in Nat,
                 a * q <= u * p, M * u <= b * a, a > 0
          PROVE  M * q <= b * p
      <4>1. M * (a * q) <= M * (u * p) /\ (M * u) * p <= (b * a) * p
        <5>1. a * q \in Int /\ u * p \in Int /\ M * u \in Int /\ b * a \in Int
          OBVIOUS
        <5>2. \A i, j \in Int : i <= j => M * i <= M * j /\ i * p <= j * p
          OBVIOUS
        <5> QED BY <3>3, <5>1, <5>2
      <4>2. /\ M * (a * q) = a * (M * q) /\ M * (u * p) = (M * u) * p
            /\ (b * a) * p = a * (b * p)
        OBVIOUS
      <4>3. /\ M * q \in Int /\ b * p \in Int /\ a * (M * q) \in Int
            /\ (M * u) * p \in Int /\ a * (b * p) \in Int
        OBVIOUS
      <4>4. a * (M * q) <= a * (b * p)
        BY <4>1, <4>2, <4>3
      <4> QED BY <3>3, <4>3, <4>4, CancelFactor
    <3> HIDE DEF y, v, k
    <3>4. k * y <= v * P
      BY <2>6 DEF x
    <3> QED BY <1>1, <1>2, <1>3, <2>3, <2>6, <3>1, <3>2, <3>3, <3>4
  <2>9. CASE s.scale + 1 = currentScale
    <3>1. c = y \div K
      <4>1. currentScale - s.scale = 1 /\ currentScale - s.scale # 0
        BY <1>1, <1>2, <2>9
      <4> QED BY <2>4, <4>1 DEF keptAt
    <3>2. M * v <= (w[d] * k) * K
      BY <2>2, <2>3, <2>9 DEF SharesCover
    <3>3. ASSUME NEW p \in Nat, NEW q \in Nat, NEW r \in Nat, NEW u \in Nat, NEW a \in Nat,
                 NEW b \in Nat, NEW g \in Nat,
                 g * r <= q, a * q <= u * p, M * u <= (b * a) * g, a > 0, g > 0
          PROVE  M * r <= b * p
      <4>1. a * (g * r) <= a * q
        <5>1. g * r \in Int
          OBVIOUS
        <5>2. \A i, j \in Int : i <= j => a * i <= a * j
          OBVIOUS
        <5> QED BY <3>3, <5>1, <5>2
      <4>2. a * (g * r) <= u * p
        <5>1. a * (g * r) \in Int /\ a * q \in Int /\ u * p \in Int
          OBVIOUS
        <5> QED BY <3>3, <4>1, <5>1
      <4>3. M * (a * (g * r)) <= M * (u * p) /\ (M * u) * p <= ((b * a) * g) * p
        <5>1. a * (g * r) \in Int /\ u * p \in Int /\ M * u \in Int /\ (b * a) * g \in Int
          OBVIOUS
        <5>2. \A i, j \in Int : i <= j => M * i <= M * j /\ i * p <= j * p
          OBVIOUS
        <5> QED BY <3>3, <4>2, <5>1, <5>2
      <4>4. /\ M * (a * (g * r)) = (a * g) * (M * r) /\ M * (u * p) = (M * u) * p
            /\ ((b * a) * g) * p = (a * g) * (b * p)
        OBVIOUS
      <4>5. /\ M * r \in Int /\ b * p \in Int /\ (a * g) * (M * r) \in Int
            /\ (M * u) * p \in Int /\ (a * g) * (b * p) \in Int
            /\ a * g \in Nat /\ a * g > 0
        BY <3>3
      <4>6. (a * g) * (M * r) <= (a * g) * (b * p)
        BY <4>3, <4>4, <4>5
      <4> DEFINE h == a * g
      <4> HIDE DEF h
      <4>7. h * (M * r) <= h * (b * p) /\ h \in Nat /\ h > 0
        BY <4>5, <4>6 DEF h
      <4> QED BY <4>5, <4>7, CancelFactor
    <3> DEFINE z == y \div K
    <3>4. z \in Nat /\ K * z <= y
      BY <2>7
    <3>5. c = z
      BY <3>1
    <3>6. k * y <= v * P
      BY <2>6
    <3> HIDE DEF z, y, v, k, K, c
    <3>7. M * z <= w[d] * P
      <4> DEFINE b == w[d]
      <4>1. /\ b \in Nat /\ v \in Nat /\ k \in Nat /\ k > 0 /\ K \in Nat /\ K > 0
            /\ y \in Nat /\ z \in Nat /\ P \in Nat
        BY <1>1, <1>2, <1>3, <2>3, <2>6, <3>4
      <4>2. K * z <= y /\ k * y <= v * P /\ M * v <= (b * k) * K
        BY <3>2, <3>4, <3>6
      <4> HIDE DEF b
      <4>3. M * z <= b * P
        BY <3>3, <4>1, <4>2
      <4> QED BY <4>3 DEF b
    <3> QED BY <3>5, <3>7 DEF c
  <2>10. CASE s.scale # currentScale /\ s.scale + 1 # currentScale
    <3>1. currentScale - s.scale # 0 /\ currentScale - s.scale # 1
      BY <1>1, <1>2, <2>10
    <3>2. c = 0
      BY <2>4, <3>1 DEF keptAt
    <3> QED BY <1>6, <3>2
  <2> QED BY <2>8, <2>9, <2>10
<1> QED BY <1>5, <1>6

\* The shares that satisfy the bound give every state its DepositsNearlyBacked.
LEMMA SharesBackDeposits ==
    ASSUME SnapshotsInv, SharesInv
    PROVE  DepositsNearlyBacked
<1> DEFINE D == DECIMAL_PRECISION
           T == totalUSDDDeposits
           c == [d \in Accounts |-> getCompoundedUSDDDeposit(d)]
           A == allDeposits
<1>1. /\ D \in Nat /\ D > 0 /\ T \in Nat /\ P \in Nat /\ IsFiniteSet(Accounts)
      /\ lastUSDDLossError_Offset \in Nat /\ USDDBalance \in Nat
  BY PoolAssumption DEF SnapshotsInv, TypeOK
<1>2. c \in [Accounts -> Nat] /\ c \in [Accounts -> Int]
  BY StakesType
<1>3. A \in Int /\ A = SumFunction(c)
  BY <1>1, <1>2, SumType DEF allDeposits
<1>4. Room \in Nat /\ Slack = Room \div D
  <2>1. Cardinality(Accounts) \in Nat
    BY <1>1, FS_CardinalityType
  <2>2. USDDSupply \in Nat
    BY <1>1, <2>1 DEF USDDSupply
  <2>3. 0 \div D = 0
    BY <1>1
  <2> QED BY <2>2, <2>3 DEF Room, Slack
<1>5. PICK M \in Nat \ {0}, w \in [Accounts -> Nat] : SharesCover(M, w) /\ SharesHeld(M, w)
  BY DEF SharesInv
<1> DEFINE W == SumFunction(w)
           Mc == [d \in Accounts |-> M * c[d]]
           wP == [d \in Accounts |-> P * w[d]]
<1>6. W \in Nat
  BY <1>1, SumNat
<1>7. /\ Mc \in [Accounts -> Int] /\ wP \in [Accounts -> Int]
      /\ \A d \in Accounts : Mc[d] = M * c[d] /\ wP[d] = P * w[d]
  <2> HIDE DEF c
  <2>1. \A d \in Accounts : M * c[d] \in Int /\ P * w[d] \in Int
    BY <1>1, <1>2
  <2> QED BY <2>1
<1>8. \A d \in Accounts : Mc[d] <= wP[d]
  <2> SUFFICES ASSUME NEW d \in Accounts PROVE Mc[d] <= wP[d]
    OBVIOUS
  <2>1. M * getCompoundedUSDDDeposit(d) <= w[d] * P
    BY <1>5, DepositWithinShare
  <2>2. c[d] = getCompoundedUSDDDeposit(d)
    OBVIOUS
  <2>3. w[d] * P = P * w[d]
    BY <1>1
  <2> HIDE DEF c, Mc, wP
  <2> QED BY <1>7, <2>1, <2>2, <2>3
<1>9. SumFunction(Mc) <= SumFunction(wP)
  <2> HIDE DEF Mc, wP
  <2> QED BY <1>1, <1>7, <1>8, SumMonotone
<1>10. SumFunction(Mc) = M * A
  <2> HIDE DEF c, Mc
  <2>1. SumFunction(Mc) = M * SumFunction(c)
    BY <1>1, <1>2, <1>7, SumScaled
  <2> QED BY <1>3, <2>1
<1>11. SumFunction(wP) = P * W
  <2> HIDE DEF wP
  <2>1. w \in [Accounts -> Int] /\ P \in Int
    BY <1>1
  <2> QED BY <1>1, <1>7, <2>1, SumScaled
<1> HIDE DEF A, W, c, Mc, wP
<1>12. (W * P) * D + M * lastUSDDLossError_Offset <= M * (T * D + Room)
  BY <1>5 DEF SharesHeld, W
<1>13. D * A <= T * D + Room
  <2>1. M * A <= P * W
    BY <1>9, <1>10, <1>11
  <2>2. D * (M * A) <= D * (P * W)
    <3>1. M * A \in Int /\ P * W \in Int
      BY <1>1, <1>3, <1>6
    <3> QED BY <1>1, <2>1, <3>1, CancelFactor
  <2>3. /\ D * (M * A) = M * (D * A) /\ D * (P * W) = (W * P) * D
        /\ M * (D * A) \in Int /\ (W * P) * D \in Int
        /\ M * lastUSDDLossError_Offset \in Nat
        /\ T * D + Room \in Int /\ M * (T * D + Room) \in Int /\ D * A \in Int
    BY <1>1, <1>3, <1>4, <1>6
  <2>4. M * (D * A) <= M * (T * D + Room)
    BY <1>12, <2>2, <2>3
  <2> QED BY <2>3, <2>4, CancelFactor
<1>14. A - T <= Room \div D
  <2>1. D * (A - T) = D * A - T * D /\ D * A \in Int /\ T * D \in Int
    BY <1>1, <1>3
  <2>2. D * (A - T) <= Room
    BY <1>4, <1>13, <2>1
  <2>3. A - T \in Int /\ Room \in Int
    BY <1>1, <1>3, <1>4
  <2> QED BY <1>1, <2>2, <2>3, QuotientGreatest
<1>15. Room \div D \in Int
  BY <1>1, <1>4, QuotientNat
<1>16. A <= T + Room \div D
  <2> DEFINE q == Room \div D
  <2>1. q \in Int /\ A - T <= q
    BY <1>14, <1>15
  <2> HIDE DEF q
  <2>2. A <= T + q
    BY <1>1, <1>3, <2>1
  <2> QED BY <2>2 DEF q
<1> QED BY <1>4, <1>16 DEF DepositsNearlyBacked, A

\* The arithmetic of a deposit that changes by delta, with its new share m.
LEMMA SettleArithmetic ==
    ASSUME NEW W \in Nat, NEW V \in Nat, NEW p \in Nat, NEW D \in Nat, NEW M \in Nat,
           NEW T \in Nat, NEW e \in Nat, NEW K \in Nat, NEW delta \in Int,
           V <= p * W + M * delta,
           (W * p) * D + M * e <= M * (T * D + K)
    PROVE  (V * p) * D + (M * p) * e <= (M * p) * ((T + delta) * D + K)
<1> DEFINE X == (W * p) * D + M * e
           Y == M * (T * D + K)
<1>1. X \in Int /\ Y \in Int /\ X <= Y /\ p * W + M * delta \in Int
  OBVIOUS
<1>2. (V * p) * D <= ((p * W + M * delta) * p) * D
  <2>1. V * (p * D) <= (p * W + M * delta) * (p * D)
    <3>1. p * D \in Nat
      OBVIOUS
    <3>2. \A x, y \in Int, z \in Nat : x <= y => x * z <= y * z
      OBVIOUS
    <3>3. V \in Int /\ V <= p * W + M * delta
      OBVIOUS
    <3> QED BY <1>1, <3>1, <3>2, <3>3
  <2>2. V * (p * D) = (V * p) * D
    OBVIOUS
  <2>3. (p * W + M * delta) * (p * D) = ((p * W + M * delta) * p) * D
    <3> DEFINE u == p * W + M * delta
    <3>1. u \in Int
      BY <1>1
    <3> HIDE DEF u
    <3>2. u * (p * D) = (u * p) * D
      BY <3>1
    <3> QED BY <3>2 DEF u
  <2> QED BY <2>1, <2>2, <2>3
<1>3. p * X <= p * Y
  <2> HIDE DEF X, Y
  <2>1. \A x, y \in Int : x <= y => p * x <= p * y
    OBVIOUS
  <2> QED BY <1>1, <2>1
<1>4. ((p * W + M * delta) * p) * D = p * ((W * p) * D) + ((M * p) * delta) * D
  OBVIOUS
<1>5. p * X = p * ((W * p) * D) + (M * p) * e
  OBVIOUS
<1>6. (M * p) * ((T + delta) * D + K) = p * Y + ((M * p) * delta) * D
  OBVIOUS
<1>7. /\ (V * p) * D \in Int /\ p * ((W * p) * D) \in Int /\ (M * p) * e \in Int
      /\ ((M * p) * delta) * D \in Int /\ p * X \in Int /\ p * Y \in Int
  BY <1>1
<1> HIDE DEF X, Y
<1> QED BY <1>2, <1>3, <1>4, <1>5, <1>6, <1>7

\* Every operation of a depositor gives its deposit a share anew, in a finer
\* unit; what the rounding has taken from it is not given to anybody.
LEMMA SettleKeepsShares ==
    ASSUME SnapshotsInv, SharesInv, NEW d \in Accounts, NEW tag, NEW deposit \in Nat,
           NEW stake, NEW issuance, settle(d, tag, deposit, stake, issuance),
           NEW delta \in Int, deposit = getCompoundedUSDDDeposit(d) + delta,
           totalUSDDDeposits' = totalUSDDDeposits + delta,
           usdd' \in [Accounts -> Int], usdd'[d] = usdd[d] - delta,
           \A x \in Accounts \ {d} : usdd'[x] = usdd[x]
    PROVE  SharesInv'
<1> DEFINE D == DECIMAL_PRECISION
           T == totalUSDDDeposits
           e == lastUSDDLossError_Offset
           c == getCompoundedUSDDDeposit(d)
<1>1. /\ D \in Nat /\ D > 0 /\ T \in Nat /\ P \in Nat /\ P >= 1 /\ IsFiniteSet(Accounts)
      /\ e \in Nat /\ USDDBalance \in Nat /\ currentScale \in Nat
      /\ deposits \in [Accounts -> [initialValue: Nat, frontEndTag: Tags]]
      /\ depositSnapshots \in [Accounts -> SnapshotSet] /\ usdd \in [Accounts -> Nat]
  BY PoolAssumption DEF SnapshotsInv, TypeOK
<1>2. /\ P' = P /\ currentScale' = currentScale /\ currentEpoch' = currentEpoch
      /\ lastUSDDLossError_Offset' = e /\ offsets' = offsets
  BY DEF settle, productVars
<1>3. /\ deposits'[d].initialValue = deposit
      /\ deposit > 0 => /\ depositSnapshots'[d].P = P
                        /\ depositSnapshots'[d].scale = currentScale
      /\ \A x \in Accounts \ {d} : /\ deposits'[x] = deposits[x]
                                   /\ depositSnapshots'[x] = depositSnapshots[x]
  BY <1>1 DEF settle, updateDepositAndSnapshots, snapshotNow, Snapshot
<1>4. Room' = Room /\ Room \in Nat /\ e <= Room
  <2>1. Cardinality(Accounts) \in Nat
    BY <1>1, FS_CardinalityType
  <2>2. USDDSupply \in Nat
    BY <1>1, <2>1 DEF USDDSupply
  <2> QED BY <1>2, <2>2 DEF Room, USDDSupply, SharesInv, ErrorBounded
<1>5. ErrorBounded'
  BY <1>2, <1>4 DEF ErrorBounded
<1>6. SupplyBounded'
  <2>1. usdd \in [Accounts -> Int]
    BY <1>1
  <2>2. SumFunction(usdd') = SumFunction(usdd) - usdd[d] + usdd'[d]
    BY <1>1, <2>1, SumUpdate
  <2>3. SumFunction(usdd) \in Int /\ usdd[d] \in Int
    BY <1>1, <2>1, SumType
  <2>4. SumFunction(usdd') + totalUSDDDeposits' = SumFunction(usdd) + totalUSDDDeposits
    BY <1>1, <2>2, <2>3
  <2> QED BY <2>4 DEF SharesInv, SupplyBounded, USDDSupply
<1>7. PICK M \in Nat \ {0}, w \in [Accounts -> Nat] : SharesCover(M, w) /\ SharesHeld(M, w)
  BY DEF SharesInv
<1> DEFINE wP == [x \in Accounts |-> P * w[x]]
<1>8. PICK Mn \in Nat \ {0} : Mn = M * P
  <2>1. M * P \in Nat \ {0}
    BY <1>1
  <2> QED BY <2>1
<1>9. PICK wn \in [Accounts -> Nat] : /\ \A x \in Accounts \ {d} : wn[x] = P * w[x]
                                      /\ wn[d] = M * deposit
  <2> DEFINE u == [x \in Accounts |-> IF x = d THEN M * deposit ELSE P * w[x]]
  <2>1. M * deposit \in Nat /\ \A x \in Accounts : P * w[x] \in Nat
    BY <1>1
  <2>2. u \in [Accounts -> Nat] /\ u[d] = M * deposit
        /\ \A x \in Accounts \ {d} : u[x] = P * w[x]
    BY <2>1
  <2> QED BY <2>2
<1>10. /\ wP \in [Accounts -> Int] /\ wn \in [Accounts -> Int] /\ w \in [Accounts -> Int]
      /\ \A x \in Accounts : wP[x] = P * w[x]
  <2>1. \A x \in Accounts : P * w[x] \in Int
    BY <1>1
  <2> QED BY <2>1
<1> DEFINE W == SumFunction(w)
           V == SumFunction(wn)
<1> HIDE DEF wP
<1>11. W \in Nat /\ V \in Nat
  BY <1>1, <1>9, SumNat
<1>12. V <= P * W + M * delta
  <2>1. SumFunction(wP) = P * W
    <3>1. P \in Int
      BY <1>1
    <3> QED BY <1>1, <1>10, <3>1, SumScaled
  <2>2. V = SumFunction(wP) - wP[d] + wn[d]
    <3>1. \A x \in Accounts \ {d} : wn[x] = wP[x]
      BY <1>9, <1>10
    <3> QED BY <1>1, <1>10, <3>1, SumUpdate
  <2>3. c \in Nat /\ M * c <= w[d] * P
    BY <1>7, StakesType, DepositWithinShare
  <2>4. wn[d] = M * (c + delta) /\ wP[d] = P * w[d] /\ w[d] \in Nat
    BY <1>9, <1>10
  <2> HIDE DEF W, V, c
  <2>5. M * (c + delta) = M * c + M * delta /\ w[d] * P = P * w[d]
    BY <1>1, <2>3, <2>4
  <2>6. M * c \in Int /\ M * delta \in Int /\ P * w[d] \in Int /\ P * W \in Int
    BY <1>1, <1>11, <2>3, <2>4
  <2> QED BY <1>11, <2>1, <2>2, <2>3, <2>4, <2>5, <2>6
<1>13. SharesCover(Mn, wn)'
  <2> SUFFICES ASSUME NEW x \in Accounts, deposits'[x].initialValue > 0,
                      depositSnapshots'[x].epoch = currentEpoch'
               PROVE  /\ depositSnapshots'[x].scale = currentScale' =>
                             Mn * deposits'[x].initialValue <= wn[x] * depositSnapshots'[x].P
                      /\ depositSnapshots'[x].scale + 1 = currentScale' =>
                             Mn * deposits'[x].initialValue
                                 <= (wn[x] * depositSnapshots'[x].P) * SCALE_FACTOR
    BY DEF SharesCover
  <2>1. CASE x = d
    <3>1. /\ deposits'[x].initialValue = deposit /\ depositSnapshots'[x].P = P
          /\ depositSnapshots'[x].scale = currentScale /\ wn[x] = M * deposit
      BY <1>3, <1>9, <2>1
    <3>2. (M * P) * deposit <= (M * deposit) * P
      <4>1. (M * P) * deposit = (M * deposit) * P /\ (M * P) * deposit \in Int
        BY <1>1
      <4> QED BY <4>1
    <3>3. currentScale + 1 # currentScale
      BY <1>1
    <3> QED BY <1>2, <1>8, <3>1, <3>2, <3>3
  <2>2. CASE x # d
    <3> DEFINE v == deposits[x].initialValue
               s == depositSnapshots[x]
               k == s.P
    <3>1. /\ deposits'[x].initialValue = v /\ depositSnapshots'[x] = s /\ wn[x] = P * w[x]
      BY <1>3, <1>9, <2>2
    <3>2. v \in Nat /\ k \in Nat /\ w[x] \in Nat /\ SCALE_FACTOR \in Nat
      BY <1>1, PoolAssumption DEF SnapshotSet
    <3>3. v > 0 /\ s.epoch = currentEpoch
      BY <1>2, <3>1
    <3>4. /\ s.scale = currentScale => M * v <= w[x] * k
          /\ s.scale + 1 = currentScale => M * v <= (w[x] * k) * SCALE_FACTOR
      BY <1>7, <3>3 DEF SharesCover
    <3> DEFINE g == w[x]
    <3>5. /\ M * v \in Int /\ g * k \in Int /\ (g * k) * SCALE_FACTOR \in Int
      BY <3>2
    <3>6. \A i, j \in Int : i <= j => P * i <= P * j
      BY <1>1
    <3>7. (M * P) * v = P * (M * v) /\ (P * g) * k = P * (g * k)
          /\ ((P * g) * k) * SCALE_FACTOR = P * ((g * k) * SCALE_FACTOR)
      <4> HIDE DEF v, k, g
      <4> QED BY <1>1, <3>2 DEF g
    <3>8. /\ s.scale = currentScale => (M * P) * v <= (P * g) * k
          /\ s.scale + 1 = currentScale => (M * P) * v <= ((P * g) * k) * SCALE_FACTOR
      BY <3>4, <3>5, <3>6, <3>7
    <3> QED BY <1>2, <1>8, <3>1, <3>8
  <2> QED BY <2>1, <2>2
<1>14. SharesHeld(Mn, wn)'
  <2>1. (W * P) * D + M * e <= M * (T * D + Room)
    BY <1>7 DEF SharesHeld
  <2> HIDE DEF W, V
  <2>2. (V * P) * D + (M * P) * e <= (M * P) * ((T + delta) * D + Room)
    BY <1>1, <1>4, <1>11, <1>12, <2>1, SettleArithmetic
  <2> QED BY <1>2, <1>4, <1>8, <2>2 DEF SharesHeld, V
<1> QED BY <1>5, <1>6, <1>8, <1>9, <1>13, <1>14 DEF SharesInv

\* What a liquidation takes from the product is covered by what it takes
\* from the pool, with the error it leaves to the next one.
LEMMA OffsetArithmetic ==
    ASSUME SnapshotsInv, SharesInv, NEW debt \in Nat, NEW coll \in Nat, NEW issuance \in Nat,
           offset(debt, coll, issuance), NEW M \in Nat, NEW w \in [Accounts -> Nat],
           SharesHeld(M, w), newProductFactor(debt) # 0
    PROVE  (SumFunction(w) * P) * newProductFactor(debt) + M * lossError(debt)
               <= M * ((totalUSDDDeposits - debt) * DECIMAL_PRECISION + USDDSupply)
<1> DEFINE D == DECIMAL_PRECISION
           T == totalUSDDDeposits
           e == lastUSDDLossError_Offset
           W == SumFunction(w)
           X == W * P
           K == USDDSupply
           l == lossPerUnit(debt)
           f == newProductFactor(debt)
           e2 == lossError(debt)
           n == USDDLossNumerator(debt)
<1>1. /\ D \in Nat /\ D > 0 /\ T \in Nat /\ P \in Nat /\ IsFiniteSet(Accounts)
      /\ e \in Nat /\ USDDBalance \in Nat /\ TypeOK
  BY PoolAssumption DEF SnapshotsInv, TypeOK
<1>2. T # 0 /\ OffsetSafe(debt)
  BY DEF offset
<1>3. f \in 0..D /\ e2 \in Nat
  BY <1>1, <1>2, FactorType
<1>4. K \in Nat
  <2>1. Cardinality(Accounts) \in Nat
    BY <1>1, FS_CardinalityType
  <2> QED BY <1>1, <2>1 DEF USDDSupply
<1>5. Room \in Nat /\ Room <= K /\ e <= K
  BY <1>1, <1>4 DEF Room, SharesInv, ErrorBounded
<1>6. debt # T
  <2> SUFFICES ASSUME debt = T PROVE FALSE
    OBVIOUS
  <2>1. f = 0
    BY <1>1 DEF newProductFactor, lossPerUnit
  <2> QED BY <2>1
<1>7. l \in Int /\ f = D - l
  <2>1. n \in Int
    BY <1>1 DEF USDDLossNumerator
  <2>2. l = n \div T + 1
    BY <1>6 DEF lossPerUnit
  <2> HIDE DEF n
  <2>3. n \div T \in Int
    BY <1>1, <1>2, <2>1
  <2> QED BY <2>2, <2>3 DEF newProductFactor
<1>8. l * T = debt * D - e + e2
  <2>1. e2 = l * T - n
    BY <1>6 DEF lossError
  <2>2. n = debt * D - e
    BY DEF USDDLossNumerator
  <2> HIDE DEF l, n, e2
  <2>3. l * T \in Int /\ debt * D \in Int
    BY <1>1, <1>7
  <2> QED BY <1>1, <2>1, <2>2, <2>3
<1>9. W \in Nat /\ X \in Nat
  <2>1. W \in Nat
    BY <1>1, SumNat
  <2> HIDE DEF W
  <2> QED BY <1>1, <2>1
<1>10. X * D + M * e <= M * (T * D + K)
  <2>1. X * D + M * e <= M * (T * D + Room)
    BY DEF SharesHeld
  <2> HIDE DEF X, K
  <2>2. T * D + Room \in Int /\ T * D + K \in Int /\ T * D + Room <= T * D + K
    <3>1. T * D \in Int
      BY <1>1
    <3> QED BY <1>4, <1>5, <3>1
  <2>3. M * (T * D + Room) <= M * (T * D + K)
    <3>1. \A x, y \in Int : x <= y => M * x <= M * y
      OBVIOUS
    <3> QED BY <2>2, <3>1
  <2>4. X * D \in Int /\ M * e \in Int /\ M * (T * D + Room) \in Int /\ M * (T * D + K) \in Int
    BY <1>1, <1>9, <2>2
  <2> QED BY <2>1, <2>3, <2>4
<1> HIDE DEF X, K, l, f, e2
<1>11. f \in Nat /\ f <= D
  BY <1>1, <1>3
<1>12. X * f + M * e2 <= M * ((T - debt) * D + K)
  BY <1>1, <1>3, <1>4, <1>5, <1>7, <1>8, <1>9, <1>10, <1>11, LossArithmetic
<1> QED BY <1>12 DEF X, K, f, e2

\* The new product, at its scale, is not above the old one times the factor.
LEMMA ProductCovered ==
    ASSUME TypeOK, NEW debt \in Nat, totalUSDDDeposits # 0, OffsetSafe(debt),
           newProductFactor(debt) # 0
    PROVE  /\ newP(debt) \in Nat
           /\ productTooSmall(debt) =>
                  newP(debt) * DECIMAL_PRECISION
                      <= (P * newProductFactor(debt)) * SCALE_FACTOR
           /\ ~productTooSmall(debt) =>
                  newP(debt) * DECIMAL_PRECISION <= P * newProductFactor(debt)
<1> DEFINE D == DECIMAL_PRECISION
           f == newProductFactor(debt)
           x == P * f
           y == x * SCALE_FACTOR
<1>1. D \in Nat /\ D > 0 /\ P \in Nat /\ SCALE_FACTOR \in Nat
  BY PoolAssumption DEF TypeOK
<1>2. newP(debt) \in Nat
  <2>1. newP(debt) \in 1..DECIMAL_PRECISION
    BY ProductType
  <2> QED BY <1>1, <2>1
<1>3. f \in Nat
  <2>1. f \in 0..DECIMAL_PRECISION
    BY FactorType
  <2> QED BY <1>1, <2>1
<1> HIDE DEF f
<1>4. x \in Int /\ y \in Int
  BY <1>1, <1>3
<1>5. \A z \in Int : D * (z \div D) <= z /\ z \div D \in Int
  BY <1>1, QuotientBounds
<1>6. \A z \in Int : (z \div D) * D <= z
  <2> SUFFICES ASSUME NEW z \in Int PROVE (z \div D) * D <= z
    OBVIOUS
  <2> DEFINE q == z \div D
  <2>1. q \in Int /\ D * q <= z
    BY <1>5
  <2> HIDE DEF q
  <2>2. q * D = D * q
    BY <1>1, <2>1
  <2>3. q * D <= z
    BY <2>1, <2>2
  <2> QED BY <2>3 DEF q
<1>7. CASE productTooSmall(debt)
  <2>1. newP(debt) = y \div D
    BY <1>7 DEF newP, f
  <2> HIDE DEF x, y
  <2>2. (y \div D) * D <= y
    BY <1>4, <1>6
  <2> QED BY <1>2, <1>7, <2>1, <2>2 DEF y, x, f
<1>8. CASE ~productTooSmall(debt)
  <2>1. newP(debt) = x \div D
    BY <1>8 DEF newP, f
  <2> HIDE DEF x
  <2>2. (x \div D) * D <= x
    BY <1>4, <1>6
  <2> QED BY <1>2, <1>8, <2>1, <2>2 DEF x, f
<1> QED BY <1>7, <1>8

\* The error of a loss is at most the pool, and so at most all the USDD.
LEMMA LossErrorBounded ==
    ASSUME SnapshotsInv, SharesInv, NEW debt \in Nat, totalUSDDDeposits # 0
    PROVE  USDDSupply \in Nat /\ totalUSDDDeposits <= USDDSupply /\ lossError(debt) <= USDDSupply
<1> DEFINE T == totalUSDDDeposits
           n == USDDLossNumerator(debt)
           K == USDDSupply
<1>1. /\ DECIMAL_PRECISION \in Nat /\ T \in Nat /\ T > 0 /\ IsFiniteSet(Accounts)
      /\ lastUSDDLossError_Offset \in Nat /\ USDDBalance \in Nat
      /\ usdd \in [Accounts -> Nat]
  BY PoolAssumption DEF SnapshotsInv, TypeOK
<1>2. K \in Nat
  <2>1. Cardinality(Accounts) \in Nat
    BY <1>1, FS_CardinalityType
  <2> QED BY <1>1, <2>1 DEF USDDSupply
<1>3. T <= K
  <2>1. SumFunction(usdd) \in Nat
    BY <1>1, SumNat
  <2> HIDE DEF K
  <2>2. SumFunction(usdd) + T <= K
    BY DEF SharesInv, SupplyBounded, K
  <2> QED BY <1>1, <1>2, <2>1, <2>2
<1>4. lossError(debt) <= T
  <2>1. CASE debt = T
    BY <1>1, <2>1 DEF lossError
  <2>2. CASE debt # T
    <3> DEFINE q == n \div T
    <3>1. lossError(debt) = (q + 1) * T - n
      BY <2>2 DEF lossError, lossPerUnit
    <3>2. n \in Int
      BY <1>1 DEF USDDLossNumerator
    <3> HIDE DEF n
    <3>3. q \in Int /\ n < T * q + T /\ T * q <= n
      BY <1>1, <3>2, QuotientBounds
    <3> HIDE DEF q
    <3>4. (q + 1) * T = T * q + T /\ T * q \in Int
      BY <1>1, <3>3
    <3> QED BY <1>1, <3>1, <3>2, <3>3, <3>4
  <2> QED BY <2>1, <2>2
<1>5. lossError(debt) \in Int
  <2>1. CASE debt = T
    BY <2>1 DEF lossError
  <2>2. CASE debt # T
    <3> DEFINE q == n \div T
    <3>1. lossError(debt) = (q + 1) * T - n
      BY <2>2 DEF lossError, lossPerUnit
    <3>2. n \in Int
      BY <1>1 DEF USDDLossNumerator
    <3> HIDE DEF n
    <3>3. q \in Int
      BY <1>1, <3>2, QuotientBounds
    <3> HIDE DEF q
    <3> QED BY <1>1, <3>1, <3>2, <3>3
  <2> QED BY <2>1, <2>2
<1> HIDE DEF K
<1>6. lossError(debt) <= K
  BY <1>1, <1>2, <1>3, <1>4, <1>5
<1> QED BY <1>2, <1>3, <1>6 DEF K

\* offset: the shares stay what they are, in a finer unit when the product is
\* scaled up, and are gone when the pool is emptied.
LEMMA OffsetKeepsShares ==
    ASSUME SnapshotsInv, SharesInv, NEW debt \in Nat, NEW coll \in Nat, NEW issuance \in Nat,
           offset(debt, coll, issuance)
    PROVE  SharesInv'
<1> DEFINE D == DECIMAL_PRECISION
           SF == SCALE_FACTOR
           T == totalUSDDDeposits
           K == USDDSupply
           f == newProductFactor(debt)
           e2 == lossError(debt)
           p == newP(debt)
<1>1. /\ D \in Nat /\ D > 0 /\ SF \in Nat /\ SF > 0 /\ T \in Nat /\ P \in Nat
      /\ IsFiniteSet(Accounts) /\ currentEpoch \in Nat /\ currentScale \in Nat
      /\ offsets \in Nat /\ usdd \in [Accounts -> Nat] /\ TypeOK
      /\ deposits \in [Accounts -> [initialValue: Nat, frontEndTag: Tags]]
      /\ depositSnapshots \in [Accounts -> SnapshotSet]
  BY PoolAssumption DEF SnapshotsInv, TypeOK
<1>2. /\ T # 0 /\ debt \in 1..T /\ OffsetSafe(debt)
      /\ T' = T - debt /\ offsets' = offsets + 1 /\ lastUSDDLossError_Offset' = e2
      /\ deposits' = deposits /\ depositSnapshots' = depositSnapshots /\ usdd' = usdd
  BY DEF offset, depositVars
<1>3. P' = p /\ p \in Nat /\ f \in Nat /\ e2 \in Nat
  <2>1. P' = p
    BY DEF offset, updateRewardSumAndProduct
  <2>2. p \in 1..D /\ f \in 0..D /\ e2 \in Nat
    BY <1>1, <1>2, ProductType, FactorType
  <2> QED BY <1>1, <2>1, <2>2
<1>4. K \in Nat /\ e2 <= K
  BY <1>2, LossErrorBounded
<1>5. Room' = K /\ USDDSupply' = K
  BY <1>1, <1>2 DEF Room, USDDSupply
<1>6. ErrorBounded'
  BY <1>2, <1>4, <1>5 DEF ErrorBounded
<1>7. SupplyBounded'
  <2>1. SumFunction(usdd) \in Nat
    BY <1>1, SumNat
  <2> HIDE DEF K
  <2>2. SumFunction(usdd) + T <= K
    BY DEF SharesInv, SupplyBounded, K
  <2>3. SumFunction(usdd) + (T - debt) <= K
    BY <1>1, <1>4, <2>1, <2>2
  <2> QED BY <1>2, <1>5, <2>3 DEF SupplyBounded
<1>8. CASE f = 0
  <2>1. currentEpoch' = currentEpoch + 1
    BY <1>8 DEF offset, updateRewardSumAndProduct
  <2>2. PICK z \in [Accounts -> Nat] : \A x \in Accounts : z[x] = 0
    <3>1. [x \in Accounts |-> 0] \in [Accounts -> Nat]
      OBVIOUS
    <3> QED BY <3>1
  <2>3. SharesCover(1, z)'
    <3>1. ASSUME NEW d \in Accounts, deposits[d].initialValue > 0
          PROVE  depositSnapshots[d].epoch # currentEpoch + 1
      <4>1. Dated(depositSnapshots[d])
        BY <3>1 DEF SnapshotsInv, DepositsDated
      <4>2. depositSnapshots[d].epoch \in Nat
        BY <1>1 DEF SnapshotSet
      <4> QED BY <1>1, <4>1, <4>2 DEF Dated
    <3> QED BY <1>2, <2>1, <3>1 DEF SharesCover
  <2>4. SumFunction(z) = 0
    <3>1. z \in [Accounts -> Int]
      OBVIOUS
    <3> QED BY <1>1, <2>2, <3>1, SumZero
  <2>5. SharesHeld(1, z)'
    <3> HIDE DEF e2, K, p
    <3>1. (0 * p) * D + 1 * e2 <= 1 * ((T - debt) * D + K)
      <4>1. (0 * p) * D = 0 /\ 1 * e2 = e2
        BY <1>1, <1>3
      <4>2. (T - debt) * D \in Nat
        BY <1>1, <1>2
      <4>3. 1 * ((T - debt) * D + K) = (T - debt) * D + K
        BY <1>4, <4>2
      <4> QED BY <1>3, <1>4, <4>1, <4>2, <4>3
    <3> QED BY <1>2, <1>3, <1>5, <2>4, <3>1 DEF SharesHeld
  <2>6. 1 \in Nat \ {0}
    OBVIOUS
  <2> QED BY <1>6, <1>7, <2>2, <2>3, <2>5, <2>6 DEF SharesInv
<1>9. CASE f # 0
  <2>1. PICK M \in Nat \ {0}, w \in [Accounts -> Nat] : SharesCover(M, w) /\ SharesHeld(M, w)
    BY DEF SharesInv
  <2> DEFINE W == SumFunction(w)
             B == (T - debt) * D + K
  <2>2. (W * P) * f + M * e2 <= M * B
    BY <1>9, <2>1, OffsetArithmetic
  <2>3. W \in Nat
    BY <1>1, SumNat
  <2>4. /\ productTooSmall(debt) => p * D <= (P * f) * SF
        /\ ~productTooSmall(debt) => p * D <= P * f
    BY <1>1, <1>2, <1>9, ProductCovered
  <2>5. B \in Int
    <3> HIDE DEF K
    <3> QED BY <1>1, <1>4
  <2>6. \A i, j \in Int : i <= j => W * i <= W * j
    <3> HIDE DEF W
    <3> QED BY <2>3
  <2>7. currentEpoch' = currentEpoch
    BY <1>9 DEF offset, updateRewardSumAndProduct
  <2>8. CASE ~productTooSmall(debt)
    <3>1. currentScale' = currentScale
      BY <1>9, <2>8 DEF offset, updateRewardSumAndProduct
    <3>2. SharesCover(M, w)'
      BY <1>2, <2>1, <2>7, <3>1 DEF SharesCover
    <3>3. (W * p) * D + M * e2 <= M * B
      <4> HIDE DEF W, p, f, e2, B
      <4>1. p * D \in Int /\ P * f \in Int
        BY <1>1, <1>3
      <4>2. W * (p * D) <= W * (P * f)
        BY <2>4, <2>6, <2>8, <4>1
      <4>3. /\ W * (p * D) = (W * p) * D /\ W * (P * f) = (W * P) * f
            /\ (W * p) * D \in Int /\ (W * P) * f \in Int /\ M * e2 \in Int /\ M * B \in Int
        BY <1>1, <1>3, <2>3, <2>5
      <4> QED BY <2>2, <4>2, <4>3
    <3>4. SharesHeld(M, w)'
      BY <1>2, <1>3, <1>5, <3>3 DEF SharesHeld
    <3> QED BY <1>6, <1>7, <3>2, <3>4 DEF SharesInv
  <2>9. CASE productTooSmall(debt)
    <3>1. currentScale' = currentScale + 1
      BY <1>9, <2>9 DEF offset, updateRewardSumAndProduct
    <3>2. PICK N \in Nat \ {0} : N = M * SF
      <4>1. M * SF \in Nat \ {0}
        BY <1>1
      <4> QED BY <4>1
    <3>3. SharesCover(N, w)'
      <4> SUFFICES ASSUME NEW x \in Accounts, deposits[x].initialValue > 0,
                          depositSnapshots[x].epoch = currentEpoch
                   PROVE  /\ depositSnapshots[x].scale # currentScale + 1
                          /\ depositSnapshots[x].scale + 1 = currentScale + 1 =>
                                 N * deposits[x].initialValue
                                     <= (w[x] * depositSnapshots[x].P) * SF
        BY <1>2, <2>7, <3>1 DEF SharesCover
      <4> DEFINE v == deposits[x].initialValue
                 s == depositSnapshots[x]
                 k == s.P
                 g == w[x]
      <4>1. v \in Nat /\ k \in Nat /\ g \in Nat /\ s.scale \in Nat
        BY <1>1 DEF SnapshotSet
      <4>2. s.scale <= currentScale
        <5>1. Dated(s)
          BY DEF SnapshotsInv, DepositsDated
        <5> QED BY <5>1 DEF Dated
      <4>3. ASSUME s.scale = currentScale PROVE N * v <= (g * k) * SF
        <5>1. M * v <= g * k
          BY <2>1, <4>3 DEF SharesCover
        <5> HIDE DEF v, k, g
        <5>2. M * v \in Int /\ g * k \in Int
          BY <4>1
        <5>3. \A i, j \in Int : i <= j => i * SF <= j * SF
          BY <1>1
        <5>4. (M * v) * SF <= (g * k) * SF
          BY <5>1, <5>2, <5>3
        <5>5. (M * v) * SF = N * v
          BY <1>1, <3>2, <4>1
        <5> QED BY <5>4, <5>5
      <4>4. s.scale + 1 = currentScale + 1 => s.scale = currentScale
        <5>1. \A i, j \in Nat : i + 1 = j + 1 => i = j
          OBVIOUS
        <5> QED BY <1>1, <4>1, <5>1
      <4>5. s.scale # currentScale + 1
        BY <1>1, <4>1, <4>2
      <4> QED BY <4>3, <4>4, <4>5
    <3>4. (W * p) * D + N * e2 <= N * B
      <4> HIDE DEF W, p, f, e2, B
      <4>1. p * D \in Int /\ (P * f) * SF \in Int
        BY <1>1, <1>3
      <4>2. W * (p * D) <= W * ((P * f) * SF)
        BY <2>4, <2>6, <2>9, <4>1
      <4>3. SF * ((W * P) * f + M * e2) <= SF * (M * B)
        <5>1. (W * P) * f + M * e2 \in Int /\ M * B \in Int
          BY <1>1, <1>3, <2>3, <2>5
        <5> QED BY <1>1, <2>2, <5>1, CancelFactor
      <4>4. /\ W * (p * D) = (W * p) * D
            /\ SF * ((W * P) * f + M * e2) = W * ((P * f) * SF) + (M * SF) * e2
            /\ SF * (M * B) = (M * SF) * B
        BY <1>1, <1>3, <2>3, <2>5
      <4>5. /\ (W * p) * D \in Int /\ W * ((P * f) * SF) \in Int /\ (M * SF) * e2 \in Int
            /\ (M * SF) * B \in Int
        BY <1>1, <1>3, <2>3, <2>5
      <4>6. (W * p) * D + (M * SF) * e2 <= (M * SF) * B
        BY <4>2, <4>3, <4>4, <4>5
      <4> QED BY <3>2, <4>6
    <3>5. SharesHeld(N, w)'
      BY <1>2, <1>3, <1>5, <3>4 DEF SharesHeld
    <3> QED BY <1>6, <1>7, <3>3, <3>5 DEF SharesInv
  <2> QED BY <2>8, <2>9
<1> QED BY <1>8, <1>9

\* Init: nothing is deposited, and the accounts hold all the USDD.
LEMMA InitShares == Init => SharesInv
<1> SUFFICES ASSUME Init PROVE SharesInv
  OBVIOUS
<1>1. /\ DECIMAL_PRECISION \in Nat /\ IsFiniteSet(Accounts) /\ USDDBalance \in Nat
  BY PoolAssumption
<1>2. /\ totalUSDDDeposits = 0 /\ lastUSDDLossError_Offset = 0 /\ offsets = 0
      /\ P = DECIMAL_PRECISION /\ usdd = [d \in Accounts |-> USDDBalance]
      /\ \A d \in Accounts : deposits[d].initialValue = 0
  BY DEF Init
<1>3. Room = 0
  BY <1>2 DEF Room
<1>4. ErrorBounded
  BY <1>2, <1>3 DEF ErrorBounded
<1>5. SupplyBounded
  <2> DEFINE one == [d \in Accounts |-> 1]
  <2>1. one \in [Accounts -> Int] /\ \A d \in Accounts : one[d] = 1
    OBVIOUS
  <2> HIDE DEF one
  <2>2. SumFunction(one) = Cardinality(Accounts)
    BY <1>1, <2>1, SumOnes
  <2>3. usdd \in [Accounts -> Int] /\ \A d \in Accounts : usdd[d] = USDDBalance * one[d]
    BY <1>1, <1>2, <2>1
  <2>4. SumFunction(usdd) = USDDBalance * Cardinality(Accounts)
    <3>1. USDDBalance \in Int
      BY <1>1
    <3> QED BY <1>1, <2>1, <2>2, <2>3, <3>1, SumScaled
  <2>5. Cardinality(Accounts) \in Nat
    BY <1>1, FS_CardinalityType
  <2>6. SumFunction(usdd) = USDDSupply /\ USDDSupply \in Nat
    BY <1>1, <2>4, <2>5 DEF USDDSupply
  <2> QED BY <1>2, <2>6 DEF SupplyBounded
<1>6. PICK z \in [Accounts -> Nat] : \A x \in Accounts : z[x] = 0
  <2>1. [x \in Accounts |-> 0] \in [Accounts -> Nat]
    OBVIOUS
  <2> QED BY <2>1
<1>7. SharesCover(1, z)
  BY <1>2 DEF SharesCover
<1>8. SumFunction(z) = 0
  <2>1. z \in [Accounts -> Int]
    OBVIOUS
  <2> QED BY <1>1, <1>6, <2>1, SumZero
<1>9. SharesHeld(1, z)
  <2>1. (0 * P) * DECIMAL_PRECISION + 1 * 0 <= 1 * (0 * DECIMAL_PRECISION + 0)
    BY <1>1, <1>2
  <2> QED BY <1>2, <1>3, <1>8, <2>1 DEF SharesHeld
<1>10. 1 \in Nat \ {0}
  OBVIOUS
<1> QED BY <1>4, <1>5, <1>6, <1>7, <1>9, <1>10 DEF SharesInv

\* provideToSP: what the account gives is what the deposit and the pool get.
LEMMA ProvideKeepsShares ==
    ASSUME SnapshotsInv, SharesInv, NEW d \in Accounts, NEW amount \in Nat,
           NEW frontEndTag \in Tags, NEW issuance, provideToSP(d, amount, frontEndTag, issuance)
    PROVE  SharesInv'
<1> DEFINE tag == IF deposits[d].initialValue = 0 THEN frontEndTag ELSE deposits[d].frontEndTag
           deposit == getCompoundedUSDDDeposit(d) + amount
           stake == getCompoundedFrontEndStake(tag) + amount
<1>1. usdd \in [Accounts -> Nat]
  BY DEF SnapshotsInv, TypeOK
<1>2. /\ usdd' = [usdd EXCEPT ![d] = @ - amount]
      /\ totalUSDDDeposits' = totalUSDDDeposits + amount
      /\ settle(d, tag, deposit, stake, issuance)
  BY DEF provideToSP
<1>3. deposit \in Nat
  BY StakesType
<1>4. /\ usdd' \in [Accounts -> Int] /\ usdd'[d] = usdd[d] - amount
      /\ \A x \in Accounts \ {d} : usdd'[x] = usdd[x]
  BY <1>1, <1>2
<1>5. amount \in Int /\ deposit = getCompoundedUSDDDeposit(d) + amount
  OBVIOUS
<1> HIDE DEF tag, deposit, stake
<1> QED BY <1>2, <1>3, <1>4, <1>5, SettleKeepsShares

\* withdrawFromSP: what the deposit and the pool lose the account gets.
LEMMA WithdrawKeepsShares ==
    ASSUME SnapshotsInv, SharesInv, NEW d \in Accounts, NEW amount \in Nat, NEW icr,
           NEW issuance, withdrawFromSP(d, amount, icr, issuance)
    PROVE  SharesInv'
<1> DEFINE tag == deposits[d].frontEndTag
           c == getCompoundedUSDDDeposit(d)
           w == lower(amount, c)
           deposit == c - w
           stake == getCompoundedFrontEndStake(tag) - w
           delta == 0 - w
<1>1. usdd \in [Accounts -> Nat] /\ totalUSDDDeposits \in Nat
  BY DEF SnapshotsInv, TypeOK
<1>2. /\ usdd' = [usdd EXCEPT ![d] = @ + w]
      /\ totalUSDDDeposits' = totalUSDDDeposits - w
      /\ settle(d, tag, deposit, stake, issuance)
  BY DEF withdrawFromSP
<1>3. c \in Nat
  BY StakesType
<1>4. w \in Nat /\ w <= c
  <2> HIDE DEF c
  <2> QED BY <1>3 DEF lower
<1> HIDE DEF w, tag
<1>5. deposit \in Nat /\ delta \in Int /\ deposit = c + delta
  <2> HIDE DEF c
  <2> QED BY <1>3, <1>4
<1>6. totalUSDDDeposits' = totalUSDDDeposits + delta
  BY <1>1, <1>2, <1>4
<1>7. /\ usdd' \in [Accounts -> Int] /\ usdd'[d] = usdd[d] - delta
      /\ \A x \in Accounts \ {d} : usdd'[x] = usdd[x]
  <2>1. usdd[d] + w = usdd[d] - delta
    BY <1>1, <1>4
  <2> QED BY <1>1, <1>2, <1>4, <2>1
<1> HIDE DEF deposit, stake, delta
<1> QED BY <1>2, <1>5, <1>6, <1>7, SettleKeepsShares

\* withdrawCollGainToTrove: the deposit is settled and keeps its value.
LEMMA GainToTroveKeepsShares ==
    ASSUME SnapshotsInv, SharesInv, NEW d \in Accounts, NEW hasTrove, NEW issuance,
           withdrawCollGainToTrove(d, hasTrove, issuance)
    PROVE  SharesInv'
<1> DEFINE tag == deposits[d].frontEndTag
           deposit == getCompoundedUSDDDeposit(d)
           stake == getCompoundedFrontEndStake(tag)
<1>1. usdd \in [Accounts -> Nat] /\ totalUSDDDeposits \in Nat
  BY DEF SnapshotsInv, TypeOK
<1>2. UNCHANGED <<usdd, totalUSDDDeposits>> /\ settle(d, tag, deposit, stake, issuance)
  BY DEF withdrawCollGainToTrove
<1>3. deposit \in Nat
  BY StakesType
<1>4. 0 \in Int /\ deposit = getCompoundedUSDDDeposit(d) + 0
  BY <1>3
<1>5. totalUSDDDeposits' = totalUSDDDeposits + 0
  BY <1>1, <1>2
<1>6. /\ usdd' \in [Accounts -> Int] /\ usdd'[d] = usdd[d] - 0
      /\ \A x \in Accounts \ {d} : usdd'[x] = usdd[x]
  BY <1>1, <1>2
<1> HIDE DEF tag, deposit, stake
<1> QED BY <1>2, <1>3, <1>4, <1>5, <1>6, SettleKeepsShares

\* Every step keeps the deposits within shares that the pool holds.
LEMMA NextShares == SnapshotsInv /\ SharesInv /\ [Next]_vars => SharesInv'
<1> SUFFICES ASSUME SnapshotsInv, SharesInv, [Next]_vars PROVE SharesInv'
  OBVIOUS
<1>1. Amounts \cup {0} \subseteq Nat /\ Issuances \subseteq Nat
  BY PoolAssumption
<1>2. ASSUME NEW d \in Accounts, NEW amount \in Amounts, NEW tag \in Tags, NEW i \in Issuances,
             provideToSP(d, amount, tag, i)
      PROVE  SharesInv'
  <2>1. amount \in Nat
    BY <1>1
  <2> QED BY <1>2, <2>1, ProvideKeepsShares
<1>3. ASSUME NEW d \in Accounts, NEW amount \in Amounts \cup {0}, NEW icr \in LowestICRs,
             NEW i \in Issuances, withdrawFromSP(d, amount, icr, i)
      PROVE  SharesInv'
  <2>1. amount \in Nat
    BY <1>1
  <2> QED BY <1>3, <2>1, WithdrawKeepsShares
<1>4. ASSUME NEW d \in Accounts, NEW hasTrove \in BOOLEAN, NEW i \in Issuances,
             withdrawCollGainToTrove(d, hasTrove, i)
      PROVE  SharesInv'
  BY <1>4, GainToTroveKeepsShares
<1>5. ASSUME NEW debt \in Debts, NEW ratio \in CollRatios, NEW i \in Issuances,
             offset(lower(debt, totalUSDDDeposits), lower(debt, totalUSDDDeposits) * ratio, i)
      PROVE  SharesInv'
  <2> DEFINE x == lower(debt, totalUSDDDeposits)
             y == x * ratio
  <2>1. x \in Nat /\ y \in Nat /\ i \in Nat
    BY <1>1, OffsetInputs
  <2>2. offset(x, y, i)
    BY <1>5
  <2> HIDE DEF x, y
  <2> QED BY <2>1, <2>2, OffsetKeepsShares
<1>6. ASSUME UNCHANGED <<totalUSDDDeposits, deposits, depositSnapshots, P, currentScale,
                         currentEpoch, lastUSDDLossError_Offset, usdd, offsets>>
      PROVE  SharesInv'
  <2>1. ErrorBounded' /\ SupplyBounded'
    BY <1>6 DEF SharesInv, ErrorBounded, SupplyBounded, Room, USDDSupply
  <2>2. PICK M \in Nat \ {0}, w \in [Accounts -> Nat] : SharesCover(M, w) /\ SharesHeld(M, w)
    BY DEF SharesInv
  <2>3. SharesCover(M, w)' /\ SharesHeld(M, w)'
    BY <1>6, <2>2 DEF SharesCover, SharesHeld, Room, USDDSupply
  <2> QED BY <2>1, <2>3 DEF SharesInv
<1>7. ASSUME NEW f \in Accounts, NEW k \in KickbackRates, registerFrontEnd(f, k)
      PROVE  SharesInv'
  BY <1>6, <1>7 DEF registerFrontEnd, depositVars, productVars
<1>8. CASE UNCHANGED vars
  BY <1>6, <1>8 DEF vars, depositVars, productVars
<1> QED BY <1>2, <1>3, <1>4, <1>5, <1>7, <1>8 DEF Next

\* However often deposits are changed and debts offset, at whatever scale and
\* epoch: what the depositors may withdraw is in the pool, but for a
\* precision-th of all the USDD.  The error does not grow with the number of
\* liquidations.
THEOREM DepositsAreBacked == Spec => []PoolInv
<1>1. Spec => []SnapshotsInv
  BY InitSnapshots, NextSnapshots, PTL DEF Spec
<1>2. Spec => []SharesInv
  BY <1>1, InitShares, NextShares, PTL DEF Spec
<1>3. SnapshotsInv /\ SharesInv => PoolInv
  BY SharesBackDeposits DEF PoolInv, SnapshotsInv
<1> QED BY <1>1, <1>2, <1>3, PTL
=============================================================================
