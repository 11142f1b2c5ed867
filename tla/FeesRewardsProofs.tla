-------------------------- MODULE FeesRewardsProofs --------------------------
(***************************************************************************)
(* For every set of stakers and every choice of rates, fees and amounts:   *)
(* the staking contract can pay what it shows, fees reach the stakers, the *)
(* base rate stays below 100%, the client's powers are the contracts' and  *)
(* the fees it quotes are accepted; and for every set of providers, period *)
(* and curve: the rewards of liquidity mining are backed and kept, and the *)
(* issue of DEFT never reverts.                                            *)
(***************************************************************************)
EXTENDS Fees, DEFTRewards, DataTheorems

(* Powers *)

\* A rounded product of natural numbers is one, and a product of fractions
\* is a fraction.
LEMMA DecMulType ==
    ASSUME NEW x \in Nat, NEW y \in Nat
    PROVE  /\ decMul(x, y) \in Nat
           /\ x <= DECIMAL_PRECISION /\ y <= DECIMAL_PRECISION
                  => decMul(x, y) <= DECIMAL_PRECISION
<1> DEFINE D == DECIMAL_PRECISION
           h == D \div 2
           p == x * y
<1>1. D \in Nat /\ D > 0
  BY DecPowAssumption
<1>2. h \in Nat /\ h < D
  BY <1>1
<1>3. p \in Nat
  OBVIOUS
<1>4. decMul(x, y) = (p + h) \div D
  BY DEF decMul
<1>5. ASSUME x <= D, y <= D PROVE p <= D * D
  BY <1>1, <1>5
<1> HIDE DEF p, h, D
<1>6. (p + h) \div D \in Nat
  BY <1>1, <1>2, <1>3
<1>7. ASSUME p <= D * D PROVE (p + h) \div D <= D
  <2>1. p + h < D * D + D
    BY <1>1, <1>2, <1>3, <1>7
  <2>2. p + h \in Int /\ D \in Int
    BY <1>1, <1>2, <1>3
  <2> QED BY <1>1, <2>1, <2>2, QuotientGreatest
<1> QED BY <1>4, <1>5, <1>6, <1>7 DEF D

\* The factors of _decPow's loop.
Table == [Nat -> [Nat -> Nat]]

\* The loop of _decPow computes what its recursive description says.
LEMMA SquaringDef ==
    squaring = [n \in Nat |-> [x \in Nat |-> [y \in Nat |->
                   IF n <= 1 THEN decMul(x, y)
                   ELSE IF n % 2 = 0 THEN squaring[n \div 2][decMul(x, x)][y]
                   ELSE squaring[(n - 1) \div 2][decMul(x, x)][decMul(x, y)]]]]
<1> DEFINE b == [x \in Nat |-> [y \in Nat |-> decMul(x, y)]]
           next(n, v) == [x \in Nat |-> [y \in Nat |->
                             IF n % 2 = 0 THEN v[decMul(x, x)][y]
                             ELSE v[decMul(x, x)][decMul(x, y)]]]
           step == [n \in Nat |-> [v \in Table |-> next(n, v)]]
<1>1. b \in Table
  BY DecMulType DEF Table
<1>2. ASSUME NEW n \in Nat, NEW v \in Table PROVE next(n, v) \in Table
  <2>1. ASSUME NEW x \in Nat, NEW y \in Nat
        PROVE  (IF n % 2 = 0 THEN v[decMul(x, x)][y] ELSE v[decMul(x, x)][decMul(x, y)]) \in Nat
    <3>1. decMul(x, x) \in Nat /\ decMul(x, y) \in Nat
      BY DecMulType
    <3>2. v[decMul(x, x)] \in [Nat -> Nat]
      BY <3>1 DEF Table
    <3> QED BY <3>1, <3>2
  <2> QED BY <2>1 DEF Table
<1> HIDE DEF next, b
<1>3. step \in [Nat -> [Table -> Table]]
  BY <1>2
<1>4. PICK f \in [Nat -> Table] : Halves(f, b, step)
  <2> HIDE DEF step
  <2> QED BY <1>1, <1>3, HalvingRecursion
<1>5. ASSUME NEW n \in Nat
      PROVE  f[n] = IF n <= 1 THEN b ELSE next(n, f[n \div 2])
  <2>1. ASSUME ~(n <= 1) PROVE step[n][f[n \div 2]] = next(n, f[n \div 2])
    <3>1. n \div 2 \in Nat
      OBVIOUS
    <3>2. f[n \div 2] \in Table
      BY <3>1
    <3> QED BY <3>2
  <2> HIDE DEF step
  <2> QED BY <1>4, <2>1 DEF Halves
<1> HIDE DEF step
<1>6. ASSUME NEW n \in Nat
      PROVE  f[n] = [x \in Nat |-> [y \in Nat |->
                         IF n <= 1 THEN decMul(x, y)
                         ELSE IF n % 2 = 0 THEN f[n \div 2][decMul(x, x)][y]
                         ELSE f[(n - 1) \div 2][decMul(x, x)][decMul(x, y)]]]
  <2>1. CASE n <= 1
    BY <1>5, <2>1 DEF b
  <2>2. CASE ~(n <= 1)
    <3>1. f[n] = next(n, f[n \div 2])
      BY <1>5, <2>2
    <3>2. n % 2 # 0 => (n - 1) \div 2 = n \div 2
      OBVIOUS
    <3> QED BY <2>2, <3>1, <3>2 DEF next
  <2> QED BY <2>1, <2>2
<1>7. f = [n \in Nat |-> [x \in Nat |-> [y \in Nat |->
                   IF n <= 1 THEN decMul(x, y)
                   ELSE IF n % 2 = 0 THEN f[n \div 2][decMul(x, x)][y]
                   ELSE f[(n - 1) \div 2][decMul(x, x)][decMul(x, y)]]]]
  BY <1>6
<1> QED BY <1>7 DEF squaring

\* One turn of the loop.
LEMMA SquaringStep ==
    ASSUME NEW n \in Nat, NEW x \in Nat, NEW y \in Nat
    PROVE  squaring[n][x][y] =
               IF n <= 1 THEN decMul(x, y)
               ELSE squaring[n \div 2][decMul(x, x)][IF n % 2 = 1 THEN decMul(x, y) ELSE y]
<1>1. squaring[n] = [x_1 \in Nat |-> [y_1 \in Nat |->
                   IF n <= 1 THEN decMul(x_1, y_1)
                   ELSE IF n % 2 = 0 THEN squaring[n \div 2][decMul(x_1, x_1)][y_1]
                   ELSE squaring[(n - 1) \div 2][decMul(x_1, x_1)][decMul(x_1, y_1)]]]
  BY SquaringDef
<1>2. squaring[n][x][y] =
          IF n <= 1 THEN decMul(x, y)
          ELSE IF n % 2 = 0 THEN squaring[n \div 2][decMul(x, x)][y]
          ELSE squaring[(n - 1) \div 2][decMul(x, x)][decMul(x, y)]
  BY <1>1
<1>3. n % 2 \in {0, 1} /\ (n % 2 = 1 => (n - 1) \div 2 = n \div 2)
  OBVIOUS
<1> QED BY <1>2, <1>3

\* The loop computes natural numbers, and fractions from fractions.
LEMMA SquaringType ==
    ASSUME NEW n \in Nat, NEW x \in Nat, NEW y \in Nat
    PROVE  /\ squaring[n][x][y] \in Nat
           /\ x <= DECIMAL_PRECISION /\ y <= DECIMAL_PRECISION
                  => squaring[n][x][y] <= DECIMAL_PRECISION
<1> DEFINE D == DECIMAL_PRECISION
           Good(m, v, w) == /\ squaring[m][v][w] \in Nat
                            /\ v <= D /\ w <= D => squaring[m][v][w] <= D
           T == {m \in Nat : \E v \in Nat, w \in Nat : ~Good(m, v, w)}
<1> SUFFICES ASSUME T # {} PROVE FALSE
  OBVIOUS
<1>1. PICK m \in T : \A k \in T : m <= k
  <2> HIDE DEF T
  <2>1. T \in SUBSET Nat
    BY DEF T
  <2> QED BY <2>1, MinimumExists
<1>2. m \in Nat
  BY <1>1
<1>3. PICK v \in Nat, w \in Nat : ~Good(m, v, w)
  BY <1>1
<1> DEFINE u == IF m % 2 = 1 THEN decMul(v, w) ELSE w
<1>4. squaring[m][v][w] = IF m <= 1 THEN decMul(v, w)
                          ELSE squaring[m \div 2][decMul(v, v)][u]
  BY <1>2, SquaringStep
<1>5. /\ decMul(v, w) \in Nat /\ (v <= D /\ w <= D => decMul(v, w) <= D)
      /\ decMul(v, v) \in Nat /\ (v <= D => decMul(v, v) <= D)
  BY DecMulType
<1>6. u \in Nat /\ (v <= D /\ w <= D => u <= D)
  BY <1>5
<1>7. CASE m <= 1
  BY <1>3, <1>4, <1>5, <1>7
<1>8. CASE ~(m <= 1)
  <2>1. m \div 2 \in Nat /\ m \div 2 < m
    BY <1>2, <1>8, HalfSmaller
  <2>2. m \div 2 \notin T
    <3> HIDE DEF T
    <3> QED BY <1>1, <1>2, <2>1
  <2>3. Good(m \div 2, decMul(v, v), u)
    <3> HIDE DEF u, Good
    <3> QED BY <1>5, <1>6, <2>1, <2>2
  <2> HIDE DEF u
  <2> QED BY <1>3, <1>4, <1>5, <1>6, <1>8, <2>3
<1> QED BY <1>7, <1>8

\* A power of a fraction is a fraction (LiquityMath._decPow).
LEMMA DecPowFraction ==
    ASSUME NEW base \in 0..DECIMAL_PRECISION, NEW minutes \in Nat
    PROVE  decPow(base, minutes) \in 0..DECIMAL_PRECISION
<1> DEFINE n == IF minutes > MAX_MINUTES THEN MAX_MINUTES ELSE minutes
<1>1. DECIMAL_PRECISION \in Nat /\ MAX_MINUTES \in Nat
  BY DecPowAssumption
<1>2. n \in Nat
  BY <1>1
<1>3. decPow(base, minutes) = IF n = 0 THEN DECIMAL_PRECISION
                              ELSE squaring[n][base][DECIMAL_PRECISION]
  BY DEF decPow
<1> HIDE DEF n
<1>4. /\ squaring[n][base][DECIMAL_PRECISION] \in Nat
      /\ squaring[n][base][DECIMAL_PRECISION] <= DECIMAL_PRECISION
  BY <1>1, <1>2, SquaringType
<1> QED BY <1>1, <1>3, <1>4

\* The client's loop computes what its recursive description says.
LEMMA ShiftingDef ==
    shifting = [e \in Nat |-> [x \in Nat |-> [y \in Nat |->
                   IF e <= 1 THEN decMul(x, y)
                   ELSE shifting[e \div 2][decMul(x, x)]
                                [IF e % 2 = 1 THEN decMul(x, y) ELSE y]]]]
<1>1. ASSUME NEW e \in Nat
      PROVE  squaring[e] = [x \in Nat |-> [y \in Nat |->
                   IF e <= 1 THEN decMul(x, y)
                   ELSE squaring[e \div 2][decMul(x, x)]
                                [IF e % 2 = 1 THEN decMul(x, y) ELSE y]]]
  <2> DEFINE A(x, y) ==
                 IF e <= 1 THEN decMul(x, y)
                 ELSE IF e % 2 = 0 THEN squaring[e \div 2][decMul(x, x)][y]
                 ELSE squaring[(e - 1) \div 2][decMul(x, x)][decMul(x, y)]
             B(x, y) ==
                 IF e <= 1 THEN decMul(x, y)
                 ELSE squaring[e \div 2][decMul(x, x)]
                              [IF e % 2 = 1 THEN decMul(x, y) ELSE y]
  <2>1. squaring[e] = [x \in Nat |-> [y \in Nat |-> A(x, y)]]
    BY SquaringDef
  <2>2. e % 2 \in {0, 1} /\ (e % 2 = 1 => (e - 1) \div 2 = e \div 2)
    OBVIOUS
  <2>3. ASSUME NEW x \in Nat, NEW y \in Nat PROVE A(x, y) = B(x, y)
    BY <2>2
  <2> HIDE DEF A, B
  <2>4. squaring[e] = [x \in Nat |-> [y \in Nat |-> B(x, y)]]
    BY <2>1, <2>3
  <2> QED BY <2>4 DEF B
<1>2. squaring = [e \in Nat |-> squaring[e]]
  BY SquaringDef
<1>3. squaring = [e \in Nat |-> [x \in Nat |-> [y \in Nat |->
                   IF e <= 1 THEN decMul(x, y)
                   ELSE squaring[e \div 2][decMul(x, x)]
                                [IF e % 2 = 1 THEN decMul(x, y) ELSE y]]]]
  BY <1>1, <1>2
<1> QED BY <1>3 DEF shifting

\* The loops of the client and of the contracts agree.
LEMMA ShiftingIsSquaring ==
    ASSUME NEW e \in Nat, NEW x \in Nat, NEW y \in Nat
    PROVE  shifting[e][x][y] = squaring[e][x][y]
<1> DEFINE T == {m \in Nat : \E v \in Nat, w \in Nat :
                                 shifting[m][v][w] # squaring[m][v][w]}
<1> SUFFICES ASSUME T # {} PROVE FALSE
  OBVIOUS
<1>1. PICK m \in T : \A k \in T : m <= k
  <2> HIDE DEF T
  <2>1. T \in SUBSET Nat
    BY DEF T
  <2> QED BY <2>1, MinimumExists
<1>2. m \in Nat
  BY <1>1
<1>3. PICK v \in Nat, w \in Nat : shifting[m][v][w] # squaring[m][v][w]
  BY <1>1
<1> DEFINE u == IF m % 2 = 1 THEN decMul(v, w) ELSE w
<1>4. squaring[m][v][w] = IF m <= 1 THEN decMul(v, w)
                          ELSE squaring[m \div 2][decMul(v, v)][u]
  BY <1>2, SquaringStep
<1>5. shifting[m][v][w] = IF m <= 1 THEN decMul(v, w)
                          ELSE shifting[m \div 2][decMul(v, v)][u]
  <2>1. shifting[m] = [x_1 \in Nat |-> [y_1 \in Nat |->
                   IF m <= 1 THEN decMul(x_1, y_1)
                   ELSE shifting[m \div 2][decMul(x_1, x_1)]
                                [IF m % 2 = 1 THEN decMul(x_1, y_1) ELSE y_1]]]
    BY <1>2, ShiftingDef
  <2> QED BY <2>1
<1>6. decMul(v, v) \in Nat /\ u \in Nat
  BY DecMulType
<1>7. ~(m <= 1)
  BY <1>3, <1>4, <1>5
<1>8. m \div 2 \in Nat /\ m \div 2 < m
  BY <1>2, <1>7, HalfSmaller
<1>9. m \div 2 \notin T
  <2> HIDE DEF T
  <2> QED BY <1>1, <1>2, <1>8
<1>10. shifting[m \div 2][decMul(v, v)][u] = squaring[m \div 2][decMul(v, v)][u]
  <2> HIDE DEF u
  <2> QED BY <1>6, <1>8, <1>9
<1> QED BY <1>3, <1>4, <1>5, <1>7, <1>10

\* Decimal.pow of the client and _decPow of the contracts are the same
\* function, up to the thousand years at which _decPow caps the exponent.
THEOREM ClientPowerAgrees ==
    ASSUME NEW base \in Nat, NEW minutes \in 0..MAX_MINUTES
    PROVE  clientPow(base, minutes) = decPow(base, minutes)
<1> DEFINE D == DECIMAL_PRECISION
<1>1. D \in Nat /\ D > 0 /\ MAX_MINUTES \in Nat
  BY DecPowAssumption
<1>2. decPow(base, minutes) = IF minutes = 0 THEN D ELSE squaring[minutes][base][D]
  BY <1>1 DEF decPow
<1>3. clientPow(base, minutes) = IF minutes = 0 THEN D
                                 ELSE IF minutes = 1 THEN base
                                 ELSE shifting[minutes][base][D]
  BY DEF clientPow
<1>4. shifting[minutes][base][D] = squaring[minutes][base][D]
  BY <1>1, ShiftingIsSquaring
<1>5. squaring[1][base][D] = base
  <2>1. squaring[1][base][D] = decMul(base, D)
    BY <1>1, SquaringStep
  <2>2. decMul(base, D) = (base * D + D \div 2) \div D
    BY DEF decMul
  <2> DEFINE h == D \div 2
  <2>3. h \in Nat /\ h < D
    BY <1>1
  <2> HIDE DEF h, D
  <2>4. D * base <= base * D + h /\ base * D + h < D * base + D
    BY <1>1, <2>3
  <2>5. base * D + h \in Int /\ base \in Int
    BY <1>1, <2>3
  <2>6. (base * D + h) \div D \in Int
    BY <1>1, <2>5, QuotientBounds
  <2>7. base <= (base * D + h) \div D /\ (base * D + h) \div D <= base
    BY <1>1, <2>4, <2>5, QuotientGreatest
  <2>8. (base * D + h) \div D = base
    BY <2>5, <2>6, <2>7
  <2> QED BY <2>1, <2>2, <2>8 DEF h
<1> QED BY <1>2, <1>3, <1>4, <1>5

\* A rounded product grows with its factors.
LEMMA DecMulMonotone ==
    ASSUME NEW x \in Nat, NEW y \in Nat, NEW v \in Nat, NEW w \in Nat, x <= v, y <= w
    PROVE  decMul(x, y) <= decMul(v, w)
<1> DEFINE D == DECIMAL_PRECISION
           h == D \div 2
           p == x * y
           q == v * w
<1>1. D \in Nat /\ D > 0 /\ h \in Nat
  BY DecPowAssumption
<1>2. p \in Nat /\ q \in Nat
  OBVIOUS
<1>3. p <= q
  <2>1. x * y <= v * y
    OBVIOUS
  <2>2. v * y <= v * w
    OBVIOUS
  <2>3. v * y \in Nat
    OBVIOUS
  <2> QED BY <1>2, <2>1, <2>2, <2>3
<1>4. decMul(x, y) = (p + h) \div D /\ decMul(v, w) = (q + h) \div D
  BY DEF decMul
<1> HIDE DEF p, q, h, D
<1>5. (p + h) \div D <= (q + h) \div D
  BY <1>1, <1>2, <1>3
<1> QED BY <1>4, <1>5

\* Multiplying by one is exact.
LEMMA DecMulOne ==
    ASSUME NEW x \in Nat
    PROVE  decMul(x, DECIMAL_PRECISION) = x
<1> DEFINE D == DECIMAL_PRECISION
           h == D \div 2
           p == x * D
<1>1. D \in Nat /\ D > 0 /\ h \in Nat /\ h < D
  BY DecPowAssumption
<1>2. decMul(x, D) = (p + h) \div D
  BY DEF decMul
<1>3. p \in Nat /\ p = D * x
  BY <1>1
<1> HIDE DEF h, D
<1>4. (p + h) \div D = x
  BY <1>1, <1>3
<1> QED BY <1>2, <1>4 DEF D

\* The loop of _decPow grows with the product it starts from.
LEMMA SquaringMonotone ==
    ASSUME NEW n \in Nat, NEW x \in Nat, NEW y \in Nat, NEW z \in Nat, y <= z
    PROVE  squaring[n][x][y] <= squaring[n][x][z]
<1> DEFINE Good(m, v, a, b) == a <= b => squaring[m][v][a] <= squaring[m][v][b]
           T == {m \in Nat : \E v \in Nat, a \in Nat, b \in Nat : ~Good(m, v, a, b)}
<1> SUFFICES ASSUME T # {} PROVE FALSE
  OBVIOUS
<1>1. PICK m \in T : \A k \in T : m <= k
  <2> HIDE DEF T
  <2>1. T \in SUBSET Nat
    BY DEF T
  <2> QED BY <2>1, MinimumExists
<1>2. m \in Nat
  BY <1>1
<1>3. PICK v \in Nat, a \in Nat, b \in Nat : ~Good(m, v, a, b)
  BY <1>1
<1>4. a <= b
  BY <1>3
<1> DEFINE times(w) == IF m % 2 = 1 THEN decMul(v, w) ELSE w
<1>5. \A w \in Nat : squaring[m][v][w] = IF m <= 1 THEN decMul(v, w)
                                         ELSE squaring[m \div 2][decMul(v, v)][times(w)]
  BY <1>2, SquaringStep
<1>6. decMul(v, a) <= decMul(v, b)
  BY <1>4, DecMulMonotone
<1>7. decMul(v, v) \in Nat /\ times(a) \in Nat /\ times(b) \in Nat
  BY DecMulType
<1>8. times(a) <= times(b)
  BY <1>4, <1>6
<1>9. CASE m <= 1
  BY <1>3, <1>5, <1>6, <1>9
<1>10. CASE ~(m <= 1)
  <2>1. m \div 2 \in Nat /\ m \div 2 < m
    BY <1>2, <1>10, HalfSmaller
  <2>2. m \div 2 \notin T
    <3> HIDE DEF T
    <3> QED BY <1>1, <1>2, <2>1
  <2>3. Good(m \div 2, decMul(v, v), times(a), times(b))
    <3> HIDE DEF times, Good
    <3> QED BY <1>7, <2>1, <2>2
  <2> HIDE DEF times
  <2> QED BY <1>3, <1>5, <1>8, <1>10, <2>3
<1> QED BY <1>9, <1>10

\* One more factor: the loop that starts from one with n + 1 computes no more
\* than the loop that starts with n from a product that is at least the base.
\* The bits of n that the increment turns are the first that the loop reads.
LEMMA SquaringFalls ==
    ASSUME NEW n \in Nat, n > 0, NEW x \in Nat, NEW z \in Nat, x <= z
    PROVE  squaring[n + 1][x][DECIMAL_PRECISION] <= squaring[n][x][z]
<1> DEFINE D == DECIMAL_PRECISION
           Good(m, v, w) == v <= w => squaring[m + 1][v][D] <= squaring[m][v][w]
           T == {m \in Nat : m > 0 /\ \E v \in Nat, w \in Nat : ~Good(m, v, w)}
<1> SUFFICES ASSUME T # {} PROVE FALSE
  OBVIOUS
<1>1. PICK m \in T : \A k \in T : m <= k
  <2> HIDE DEF T
  <2>1. T \in SUBSET Nat
    BY DEF T
  <2> QED BY <2>1, MinimumExists
<1>2. m \in Nat /\ m > 0
  BY <1>1
<1>3. PICK v \in Nat, w \in Nat : ~Good(m, v, w)
  BY <1>1
<1>4. v <= w
  BY <1>3
<1>5. D \in Nat
  BY DecPowAssumption
<1> HIDE DEF T
<1> DEFINE X == decMul(v, v)
<1>6. X \in Nat /\ decMul(v, w) \in Nat /\ decMul(v, D) = v /\ decMul(X, D) = X
  BY <1>5, DecMulType, DecMulOne
<1>7. X <= decMul(v, w)
  BY <1>4, DecMulMonotone
<1>8. \A k \in Nat, a \in Nat :
          /\ k <= 1 => squaring[k][v][a] = decMul(v, a)
          /\ k > 1 /\ k % 2 = 1 => squaring[k][v][a] = squaring[k \div 2][X][decMul(v, a)]
          /\ k > 1 /\ k % 2 = 0 => squaring[k][v][a] = squaring[k \div 2][X][a]
  <2> SUFFICES ASSUME NEW k \in Nat, NEW a \in Nat
               PROVE  /\ k <= 1 => squaring[k][v][a] = decMul(v, a)
                      /\ k > 1 /\ k % 2 = 1
                             => squaring[k][v][a] = squaring[k \div 2][X][decMul(v, a)]
                      /\ k > 1 /\ k % 2 = 0 => squaring[k][v][a] = squaring[k \div 2][X][a]
    OBVIOUS
  <2>1. squaring[k][v][a] =
            IF k <= 1 THEN decMul(v, a)
            ELSE squaring[k \div 2][X][IF k % 2 = 1 THEN decMul(v, a) ELSE a]
    BY SquaringStep
  <2> HIDE DEF X
  <2> QED BY <2>1
<1> HIDE DEF X, D
<1>9. CASE m = 1
  <2>1. squaring[1][v][w] = decMul(v, w)
    BY <1>8
  <2>2. squaring[2][v][D] = squaring[1][X][D]
    <3>1. 2 \in Nat /\ 2 > 1 /\ 2 % 2 = 0 /\ 2 \div 2 = 1
      OBVIOUS
    <3> QED BY <1>5, <1>8, <3>1
  <2>3. squaring[1][X][D] = decMul(X, D)
    <3>1. \A k \in Nat : k <= 1 => squaring[k][X][D] = decMul(X, D)
      BY <1>5, <1>6, SquaringStep
    <3> QED BY <3>1
  <2> QED BY <1>3, <1>6, <1>7, <1>9, <2>1, <2>2, <2>3
<1>10. CASE m > 1 /\ m % 2 = 0
  <2> DEFINE k == m \div 2
  <2>1. k \in Nat /\ m + 1 \in Nat /\ m + 1 > 1 /\ (m + 1) % 2 = 1 /\ (m + 1) \div 2 = k
    BY <1>2, <1>10
  <2>2. squaring[m][v][w] = squaring[k][X][w]
    BY <1>2, <1>8, <1>10
  <2> HIDE DEF k
  <2>3. squaring[m + 1][v][D] = squaring[k][X][v]
    BY <1>5, <1>6, <1>8, <2>1
  <2>4. squaring[k][X][v] <= squaring[k][X][w]
    BY <1>4, <1>6, <2>1, SquaringMonotone
  <2> QED BY <1>3, <2>2, <2>3, <2>4
<1>11. CASE m > 1 /\ m % 2 = 1
  <2> DEFINE k == m \div 2
  <2>1. /\ k \in Nat /\ k > 0 /\ k < m
        /\ m + 1 \in Nat /\ m + 1 > 1 /\ (m + 1) % 2 = 0 /\ (m + 1) \div 2 = k + 1
    BY <1>2, <1>11
  <2>2. squaring[m][v][w] = squaring[k][X][decMul(v, w)]
    BY <1>2, <1>8, <1>11
  <2> HIDE DEF k
  <2>3. squaring[m + 1][v][D] = squaring[k + 1][X][D]
    BY <1>5, <1>8, <2>1
  <2>4. k \notin T
    BY <1>1, <1>2, <2>1
  <2>5. Good(k, X, decMul(v, w))
    <3> HIDE DEF Good
    <3> QED BY <1>6, <2>1, <2>4 DEF T
  <2> QED BY <1>3, <1>7, <2>2, <2>3, <2>5
<1>12. m % 2 \in {0, 1}
  BY <1>2
<1> QED BY <1>2, <1>9, <1>10, <1>11, <1>12

\* The more time passes, the less is left: the rounded power of a fraction
\* does not grow with its exponent, although each product is rounded to the
\* nearest (LiquityMath._decPow).
THEOREM DecPowFalls ==
    ASSUME NEW base \in 0..DECIMAL_PRECISION, NEW earlier \in Nat, NEW later \in Nat,
           earlier <= later
    PROVE  decPow(base, later) <= decPow(base, earlier)
<1> DEFINE D == DECIMAL_PRECISION
           P(n) == IF n = 0 THEN D ELSE squaring[n][base][D]
           capped(n) == IF n > MAX_MINUTES THEN MAX_MINUTES ELSE n
           m == capped(earlier)
           T == {k \in Nat : ~(P(m + k) <= P(m))}
<1>1. D \in Nat /\ MAX_MINUTES \in Nat /\ base \in Nat /\ base <= D
  BY DecPowAssumption
<1>2. m \in Nat /\ capped(later) \in Nat /\ m <= capped(later)
  BY <1>1
<1>3. decPow(base, earlier) = P(m) /\ decPow(base, later) = P(capped(later))
  BY DEF decPow
<1> HIDE DEF capped, m
<1>4. \A n \in Nat : P(n) \in Nat
  BY <1>1, SquaringType
<1>5. ASSUME NEW n \in Nat PROVE P(n + 1) <= P(n)
  <2>1. CASE n = 0
    <3>1. \A k \in Nat : k = 1 => squaring[k][base][D] = decMul(base, D)
      BY <1>1, SquaringStep
    <3>2. decMul(base, D) = base
      BY <1>1, DecMulOne
    <3> QED BY <1>1, <2>1, <3>1, <3>2
  <2>2. CASE n > 0
    <3>1. squaring[n + 1][base][D] <= squaring[n][base][D]
      BY <1>1, <2>2, SquaringFalls
    <3> QED BY <2>2, <3>1
  <2> QED BY <2>1, <2>2
<1> HIDE DEF P
<1>6. T = {}
  <2> SUFFICES ASSUME T # {} PROVE FALSE
    OBVIOUS
  <2>1. PICK k \in T : \A j \in T : k <= j
    <3>1. T \in SUBSET Nat
      OBVIOUS
    <3> HIDE DEF T
    <3> QED BY <3>1, MinimumExists
  <2>2. k \in Nat /\ ~(P(m + k) <= P(m))
    BY <2>1
  <2>3. k # 0
    BY <1>2, <1>4, <2>2
  <2>4. k - 1 \in Nat /\ k - 1 \notin T /\ (m + (k - 1)) + 1 = m + k /\ m + (k - 1) \in Nat
    BY <1>2, <2>1, <2>2, <2>3
  <2>5. P(m + (k - 1)) <= P(m)
    BY <2>4
  <2>6. P(m + k) <= P(m + (k - 1))
    BY <1>5, <2>4
  <2>7. P(m + k) \in Nat /\ P(m + (k - 1)) \in Nat /\ P(m) \in Nat
    BY <1>2, <1>4, <2>2, <2>4
  <2> QED BY <2>2, <2>5, <2>6, <2>7
<1>7. capped(later) - m \in Nat /\ m + (capped(later) - m) = capped(later)
  BY <1>2
<1>8. P(capped(later)) <= P(m)
  BY <1>6, <1>7
<1> QED BY <1>3, <1>8

-----------------------------------------------------------------------------
(* Claims.  A staker's claim is the gain before the division: the stake    *)
(* times what the fees per token have grown by since the snapshot.         *)

\* Some claims together are at most what is held.
Covered(c, held) == SumFunction(c) <= STAKING_PRECISION * held

\* Covered claims can be paid, each rounded down.
LEMMA GainsCovered ==
    ASSUME NEW c \in [Stakers -> Nat], NEW held \in Int, Covered(c, held)
    PROVE  SumFunction([u \in Stakers |-> c[u] \div STAKING_PRECISION]) <= held
<1> DEFINE K == STAKING_PRECISION
           g == [u \in Stakers |-> c[u] \div K]
           zero == [u \in Stakers |-> 0]
           kg == [u \in Stakers |-> K * g[u]]
<1>1. K \in Nat /\ K > 0 /\ IsFiniteSet(Stakers)
  BY StakingAssumption
<1>2. \A u \in Stakers : g[u] \in Int /\ K * g[u] <= c[u] /\ K * g[u] \in Int
  <2>1. ASSUME NEW u \in Stakers
        PROVE  c[u] \div K \in Int /\ K * (c[u] \div K) <= c[u]
    <3>1. c[u] \in Int
      OBVIOUS
    <3> HIDE DEF K
    <3> QED BY <1>1, <3>1, QuotientBounds
  <2>2. \A u \in Stakers : g[u] = c[u] \div K
    OBVIOUS
  <2> HIDE DEF g, K
  <2> QED BY <1>1, <2>1, <2>2
<1>3. g \in [Stakers -> Int]
  BY <1>2
<1>4. zero \in [Stakers -> Int] /\ c \in [Stakers -> Int] /\ SumFunction(zero) = 0
  <2>1. zero \in [Stakers -> Int] /\ \A u \in Stakers : zero[u] = 0
    OBVIOUS
  <2> HIDE DEF zero
  <2> QED BY <1>1, <2>1, SumZero
<1> HIDE DEF g, K
<1>5. kg \in [Stakers -> Int] /\ \A u \in Stakers : kg[u] <= c[u]
  BY <1>2
<1>6. Combines(kg, zero, K, g, Stakers)
  BY <1>1, <1>2 DEF Combines
<1> HIDE DEF zero, kg
<1>7. SumFunction(kg) = SumFunction(zero) + K * SumFunction(g)
  <2>1. K \in Int
    BY <1>1
  <2> QED BY <1>1, <1>3, <1>4, <1>5, <1>6, <2>1, SumLinear
<1>8. SumFunction(kg) <= SumFunction(c)
  BY <1>1, <1>4, <1>5, SumMonotone
<1>9. SumFunction(g) \in Int /\ SumFunction(c) \in Int /\ SumFunction(kg) \in Int
  BY <1>1, <1>3, <1>4, <1>5, SumType
<1> DEFINE sg == SumFunction(g)
           sc == SumFunction(c)
<1>10. sc <= K * held
  BY DEF Covered, K
<1>11. K * sg <= sc
  BY <1>1, <1>4, <1>7, <1>8, <1>9
<1>12. sg \in Int /\ sc \in Int
  BY <1>9
<1> HIDE DEF sg, sc
<1>13. K * sg <= K * held
  BY <1>1, <1>10, <1>11, <1>12
<1>14. sg <= held
  BY <1>1, <1>12, <1>13, CancelFactor
<1> QED BY <1>14 DEF sg, g, K

\* One of the covered claims can be paid, and what is left covers the rest.
LEMMA ClaimPaid ==
    ASSUME NEW c \in [Stakers -> Nat], NEW d \in [Stakers -> Nat], NEW held \in Int,
           Covered(c, held), NEW u \in Stakers,
           d[u] = 0, \A v \in Stakers \ {u} : d[v] = c[v]
    PROVE  Covered(d, held - c[u] \div STAKING_PRECISION)
<1> DEFINE K == STAKING_PRECISION
           q == c[u] \div K
           sc == SumFunction(c)
           sd == SumFunction(d)
<1>1. K \in Nat /\ K > 0 /\ IsFiniteSet(Stakers)
  BY StakingAssumption
<1>2. c \in [Stakers -> Int] /\ d \in [Stakers -> Int]
  OBVIOUS
<1>3. sd = sc - c[u] + d[u]
  BY <1>1, <1>2, SumUpdate
<1>4. sc \in Int
  BY <1>1, <1>2, SumType
<1>5. q \in Int /\ K * q <= c[u] /\ c[u] \in Int
  <2>1. c[u] \in Int
    OBVIOUS
  <2> HIDE DEF K
  <2> QED BY <1>1, <2>1, QuotientBounds
<1>6. sc <= K * held
  BY DEF Covered
<1> HIDE DEF q, sc, sd, K
<1>7. K * (held - q) = K * held - K * q
  BY <1>1, <1>5
<1>8. K * held \in Int /\ K * q \in Int
  BY <1>1, <1>5
<1>9. sd <= K * (held - q)
  BY <1>3, <1>4, <1>5, <1>6, <1>7, <1>8
<1> QED BY <1>9 DEF Covered, q, sd, K

\* A fee that is held covers what it adds to the claims: the fee per token,
\* rounded down, times the stakes.
LEMMA ClaimsGrow ==
    ASSUME NEW c \in [Stakers -> Nat], NEW d \in [Stakers -> Nat], NEW held \in Int,
           Covered(c, held), NEW s \in [Stakers -> Nat], NEW f \in Nat, NEW fee \in Nat,
           Combines(d, c, f, s, Stakers), SumFunction(s) * f <= fee * STAKING_PRECISION
    PROVE  Covered(d, held + fee)
<1> DEFINE K == STAKING_PRECISION
           sc == SumFunction(c)
           sd == SumFunction(d)
           ss == SumFunction(s)
<1>1. K \in Nat /\ K > 0 /\ IsFiniteSet(Stakers)
  BY StakingAssumption
<1>2. c \in [Stakers -> Int] /\ d \in [Stakers -> Int] /\ s \in [Stakers -> Int] /\ f \in Int
  OBVIOUS
<1>3. sd = sc + f * ss
  BY <1>1, <1>2, SumLinear
<1>4. sc \in Int /\ ss \in Int
  BY <1>1, <1>2, SumType
<1>5. sc <= K * held /\ ss * f <= fee * K
  BY DEF Covered
<1> HIDE DEF sc, sd, ss, K
<1>6. f * ss = ss * f /\ K * (held + fee) = K * held + fee * K
  BY <1>1, <1>4
<1>7. ss * f \in Int /\ K * held \in Int /\ fee * K \in Int
  BY <1>1, <1>4
<1>8. sd <= K * (held + fee)
  BY <1>3, <1>4, <1>5, <1>6, <1>7
<1> QED BY <1>8 DEF Covered, sd, K

-----------------------------------------------------------------------------
(* The inductive invariant *)

usddClaims == [u \in Stakers |-> stakes[u] * (F_USDD - F_Snapshots[u].USDD)]

collClaims == [u \in Stakers |-> stakes[u] * (F_COLL - F_Snapshots[u].COLL)]

\* The sums of fees per token only grow.
SnapshotsBehind ==
    \A u \in Stakers : /\ F_Snapshots[u].USDD <= F_USDD
                       /\ F_Snapshots[u].COLL <= F_COLL

\* The claims, not only their whole parts, are covered: what a payment or a
\* fee per token rounds off stays in the contract.
ClaimsCovered == Covered(usddClaims, usddHeld) /\ Covered(collClaims, collHeld)

\* The staked DEFT is in the contract.
StakesHeld == deftHeld = totalDEFTStaked /\ totalDEFTStaked = SumFunction(stakes)

FeesInv ==
    /\ TypeOK
    /\ redeemed \in [rate : Nat, time : Nat]
    /\ SnapshotsBehind
    /\ ClaimsCovered
    /\ StakesHeld

\* The claims are natural numbers.
LEMMA ClaimsType ==
    StakingTypeOK /\ SnapshotsBehind
        => usddClaims \in [Stakers -> Nat] /\ collClaims \in [Stakers -> Nat]
<1> SUFFICES ASSUME StakingTypeOK, SnapshotsBehind
             PROVE  usddClaims \in [Stakers -> Nat] /\ collClaims \in [Stakers -> Nat]
  OBVIOUS
<1>1. ASSUME NEW u \in Stakers
      PROVE  /\ stakes[u] * (F_USDD - F_Snapshots[u].USDD) \in Nat
             /\ stakes[u] * (F_COLL - F_Snapshots[u].COLL) \in Nat
  <2> DEFINE a == F_USDD - F_Snapshots[u].USDD
             b == F_COLL - F_Snapshots[u].COLL
  <2>1. a \in Nat /\ b \in Nat /\ stakes[u] \in Nat
    BY DEF StakingTypeOK, SnapshotsBehind
  <2> HIDE DEF a, b
  <2>2. stakes[u] * a \in Nat /\ stakes[u] * b \in Nat
    BY <2>1
  <2> QED BY <2>2 DEF a, b
<1> QED BY <1>1 DEF usddClaims, collClaims

\* The same after a step.
LEMMA ClaimsTypeNext ==
    StakingTypeOK' /\ SnapshotsBehind'
        => usddClaims' \in [Stakers -> Nat] /\ collClaims' \in [Stakers -> Nat]
<1>1. (StakingTypeOK /\ SnapshotsBehind
           => usddClaims \in [Stakers -> Nat] /\ collClaims \in [Stakers -> Nat])'
  BY ClaimsType, PTL
<1> QED BY <1>1

\* The gains shown are the claims, rounded down.
LEMMA GainsAreClaims ==
    /\ \A u \in Stakers : /\ getPendingUSDDGain(u) = usddClaims[u] \div STAKING_PRECISION
                          /\ getPendingCollGain(u) = collClaims[u] \div STAKING_PRECISION
    /\ allUSDDGains = SumFunction([u \in Stakers |-> usddClaims[u] \div STAKING_PRECISION])
    /\ allCollGains = SumFunction([u \in Stakers |-> collClaims[u] \div STAKING_PRECISION])
<1>1. \A u \in Stakers : /\ getPendingUSDDGain(u) = usddClaims[u] \div STAKING_PRECISION
                         /\ getPendingCollGain(u) = collClaims[u] \div STAKING_PRECISION
  BY DEF getPendingUSDDGain, getPendingCollGain, usddClaims, collClaims
<1>2. /\ [u \in Stakers |-> getPendingUSDDGain(u)]
             = [u \in Stakers |-> usddClaims[u] \div STAKING_PRECISION]
      /\ [u \in Stakers |-> getPendingCollGain(u)]
             = [u \in Stakers |-> collClaims[u] \div STAKING_PRECISION]
  BY <1>1
<1> QED BY <1>1, <1>2 DEF allUSDDGains, allCollGains

\* The gains are natural numbers.
LEMMA GainsType ==
    ASSUME StakingTypeOK, SnapshotsBehind, NEW u \in Stakers
    PROVE  getPendingUSDDGain(u) \in Nat /\ getPendingCollGain(u) \in Nat
<1> DEFINE K == STAKING_PRECISION
           a == usddClaims[u]
           b == collClaims[u]
<1>1. a \in Nat /\ b \in Nat
  BY ClaimsType
<1>2. K \in Nat /\ K > 0
  BY StakingAssumption
<1>3. getPendingUSDDGain(u) = a \div K /\ getPendingCollGain(u) = b \div K
  BY GainsAreClaims
<1> HIDE DEF a, b, K
<1>4. a \div K \in Nat /\ b \div K \in Nat
  BY <1>1, <1>2
<1> QED BY <1>3, <1>4

\* The invariant is stronger than the one the run checks.
LEMMA InvariantBacksGains == FeesInv => StakingInv
<1> SUFFICES ASSUME FeesInv PROVE StakingInv
  OBVIOUS
<1>1. StakingTypeOK /\ SnapshotsBehind /\ ClaimsCovered /\ StakesHeld /\ TypeOK
  BY DEF FeesInv, TypeOK
<1>2. usddHeld \in Int /\ collHeld \in Int
  BY <1>1 DEF StakingTypeOK
<1>3. usddClaims \in [Stakers -> Nat] /\ collClaims \in [Stakers -> Nat]
  BY <1>1, ClaimsType
<1>4. allUSDDGains <= usddHeld
  BY <1>1, <1>2, <1>3, GainsCovered, GainsAreClaims DEF ClaimsCovered
<1>5. allCollGains <= collHeld
  BY <1>1, <1>2, <1>3, GainsCovered, GainsAreClaims DEF ClaimsCovered
<1> QED BY <1>1, <1>4, <1>5 DEF StakingInv, GainsBacked, StakesHeld

-----------------------------------------------------------------------------
(* The staking contract's operations *)

\* The part of the invariant that is about the staking contract.
SharesInv == StakingTypeOK /\ SnapshotsBehind /\ ClaimsCovered /\ StakesHeld

\* The fee per token times the tokens is the fee, up to less than a unit for
\* each token.
LEMMA FeePerStakeBounds ==
    ASSUME totalDEFTStaked \in Nat, NEW fee \in Nat
    PROVE  /\ feePerStake(fee) \in Nat
           /\ totalDEFTStaked * feePerStake(fee) <= fee * STAKING_PRECISION
           /\ totalDEFTStaked > 0
                  => fee * STAKING_PRECISION
                         < totalDEFTStaked * feePerStake(fee) + totalDEFTStaked
           /\ totalDEFTStaked = 0 => feePerStake(fee) = 0
<1> DEFINE K == STAKING_PRECISION
           t == totalDEFTStaked
           p == fee * K
<1>1. K \in Nat /\ K > 0
  BY StakingAssumption
<1>2. p \in Nat
  BY <1>1
<1>3. CASE t = 0
  <2>1. feePerStake(fee) = 0
    BY <1>3 DEF feePerStake
  <2> QED BY <1>2, <1>3, <2>1
<1>4. CASE t # 0
  <2>1. t \in Nat /\ t > 0
    BY <1>4
  <2>2. feePerStake(fee) = p \div t
    BY <2>1 DEF feePerStake
  <2> HIDE DEF p, t
  <2>3. p \div t \in Nat /\ t * (p \div t) <= p /\ p < t * (p \div t) + t
    BY <1>2, <2>1
  <2> QED BY <1>4, <2>1, <2>2, <2>3 DEF p, t
<1> QED BY <1>3, <1>4

\* A USDD fee is covered by the USDD that comes with it.
LEMMA IncreaseUSDDKeepsShares ==
    ASSUME SharesInv, NEW fee \in Nat, increaseF_USDD(fee)
    PROVE  SharesInv'
<1> DEFINE f == feePerStake(fee)
<1>1. f \in Nat /\ totalDEFTStaked * f <= fee * STAKING_PRECISION
  BY FeePerStakeBounds DEF SharesInv, StakingTypeOK
<1>2. /\ F_USDD' = F_USDD + f /\ usddHeld' = usddHeld + fee
      /\ UNCHANGED <<stakes, totalDEFTStaked, F_COLL, F_Snapshots, deftOf, deftHeld, collHeld>>
  BY DEF increaseF_USDD
<1> HIDE DEF f
<1>3. StakingTypeOK'
  BY <1>1, <1>2 DEF SharesInv, StakingTypeOK
<1>4. SnapshotsBehind'
  <2>1. ASSUME NEW u \in Stakers
        PROVE  F_Snapshots[u].USDD <= F_USDD + f /\ F_Snapshots[u].COLL <= F_COLL
    <3>1. F_Snapshots[u].USDD \in Nat /\ F_USDD \in Nat
      BY DEF SharesInv, StakingTypeOK
    <3> QED BY <1>1, <3>1 DEF SharesInv, SnapshotsBehind
  <2> QED BY <1>2, <2>1 DEF SnapshotsBehind
<1>5. Covered(usddClaims, usddHeld)'
  <2> DEFINE c == usddClaims
             d == usddClaims'
  <2>1. c \in [Stakers -> Nat] /\ stakes \in [Stakers -> Nat]
    BY ClaimsType DEF SharesInv, StakingTypeOK
  <2>2. d \in [Stakers -> Nat]
    BY <1>3, <1>4, ClaimsTypeNext
  <2>3. Combines(d, c, f, stakes, Stakers)
    <3>1. ASSUME NEW u \in Stakers
          PROVE  usddClaims'[u] = usddClaims[u] + f * stakes[u]
      <4> DEFINE s == stakes[u]
                 p == F_Snapshots[u].USDD
      <4>1. s \in Nat /\ p \in Nat /\ F_USDD \in Nat
        BY DEF SharesInv, StakingTypeOK
      <4>2. usddClaims'[u] = s * ((F_USDD + f) - p)
        BY <1>2 DEF usddClaims
      <4>3. usddClaims[u] = s * (F_USDD - p)
        BY DEF usddClaims
      <4> HIDE DEF s, p
      <4>4. s * ((F_USDD + f) - p) = s * (F_USDD - p) + f * s
        BY <1>1, <4>1
      <4> QED BY <4>2, <4>3, <4>4 DEF s
    <3> QED BY <3>1 DEF Combines
  <2>4. Covered(c, usddHeld) /\ usddHeld \in Int
    BY DEF SharesInv, ClaimsCovered, StakingTypeOK
  <2>5. SumFunction(stakes) * f <= fee * STAKING_PRECISION
    BY <1>1 DEF SharesInv, StakesHeld
  <2> HIDE DEF c, d
  <2>6. Covered(d, usddHeld + fee)
    BY <1>1, <2>1, <2>2, <2>3, <2>4, <2>5, ClaimsGrow
  <2> QED BY <1>2, <2>6 DEF d, Covered
<1>6. Covered(collClaims, collHeld)'
  <2>1. collClaims' = collClaims /\ collHeld' = collHeld
    BY <1>2 DEF collClaims
  <2> QED BY <2>1 DEF SharesInv, ClaimsCovered, Covered
<1>7. StakesHeld'
  BY <1>2 DEF SharesInv, StakesHeld
<1> QED BY <1>3, <1>4, <1>5, <1>6, <1>7 DEF SharesInv, ClaimsCovered

\* A collateral fee is covered by the collateral that comes with it.
LEMMA IncreaseCollKeepsShares ==
    ASSUME SharesInv, NEW fee \in Nat, increaseF_COLL(fee)
    PROVE  SharesInv'
<1> DEFINE f == feePerStake(fee)
<1>1. f \in Nat /\ totalDEFTStaked * f <= fee * STAKING_PRECISION
  BY FeePerStakeBounds DEF SharesInv, StakingTypeOK
<1>2. /\ F_COLL' = F_COLL + f /\ collHeld' = collHeld + fee
      /\ UNCHANGED <<stakes, totalDEFTStaked, F_USDD, F_Snapshots, deftOf, deftHeld, usddHeld>>
  BY DEF increaseF_COLL
<1> HIDE DEF f
<1>3. StakingTypeOK'
  BY <1>1, <1>2 DEF SharesInv, StakingTypeOK
<1>4. SnapshotsBehind'
  <2>1. ASSUME NEW u \in Stakers
        PROVE  F_Snapshots[u].COLL <= F_COLL + f /\ F_Snapshots[u].USDD <= F_USDD
    <3>1. F_Snapshots[u].COLL \in Nat /\ F_COLL \in Nat
      BY DEF SharesInv, StakingTypeOK
    <3> QED BY <1>1, <3>1 DEF SharesInv, SnapshotsBehind
  <2> QED BY <1>2, <2>1 DEF SnapshotsBehind
<1>5. Covered(collClaims, collHeld)'
  <2> DEFINE c == collClaims
             d == collClaims'
  <2>1. c \in [Stakers -> Nat] /\ stakes \in [Stakers -> Nat]
    BY ClaimsType DEF SharesInv, StakingTypeOK
  <2>2. d \in [Stakers -> Nat]
    BY <1>3, <1>4, ClaimsTypeNext
  <2>3. Combines(d, c, f, stakes, Stakers)
    <3>1. ASSUME NEW u \in Stakers
          PROVE  collClaims'[u] = collClaims[u] + f * stakes[u]
      <4> DEFINE s == stakes[u]
                 p == F_Snapshots[u].COLL
      <4>1. s \in Nat /\ p \in Nat /\ F_COLL \in Nat
        BY DEF SharesInv, StakingTypeOK
      <4>2. collClaims'[u] = s * ((F_COLL + f) - p)
        BY <1>2 DEF collClaims
      <4>3. collClaims[u] = s * (F_COLL - p)
        BY DEF collClaims
      <4> HIDE DEF s, p
      <4>4. s * ((F_COLL + f) - p) = s * (F_COLL - p) + f * s
        BY <1>1, <4>1
      <4> QED BY <4>2, <4>3, <4>4 DEF s
    <3> QED BY <3>1 DEF Combines
  <2>4. Covered(c, collHeld) /\ collHeld \in Int
    BY DEF SharesInv, ClaimsCovered, StakingTypeOK
  <2>5. SumFunction(stakes) * f <= fee * STAKING_PRECISION
    BY <1>1 DEF SharesInv, StakesHeld
  <2> HIDE DEF c, d
  <2>6. Covered(d, collHeld + fee)
    BY <1>1, <2>1, <2>2, <2>3, <2>4, <2>5, ClaimsGrow
  <2> QED BY <1>2, <2>6 DEF d, Covered
<1>6. Covered(usddClaims, usddHeld)'
  <2>1. usddClaims' = usddClaims /\ usddHeld' = usddHeld
    BY <1>2 DEF usddClaims
  <2> QED BY <2>1 DEF SharesInv, ClaimsCovered, Covered
<1>7. StakesHeld'
  BY <1>2 DEF SharesInv, StakesHeld
<1> QED BY <1>3, <1>4, <1>5, <1>6, <1>7 DEF SharesInv, ClaimsCovered

\* Who stakes or unstakes is paid and starts anew; nobody else is concerned.
LEMMA PaymentClearsClaim ==
    ASSUME SharesInv, NEW u \in Stakers, NEW n \in Nat,
           stakes' = [stakes EXCEPT ![u] = n], payGains(u), F_COLL' = F_COLL, F_USDD' = F_USDD
    PROVE  /\ usddClaims'[u] = 0 /\ collClaims'[u] = 0
           /\ \A v \in Stakers \ {u} : /\ usddClaims'[v] = usddClaims[v]
                                       /\ collClaims'[v] = collClaims[v]
<1>1. StakingTypeOK
  BY DEF SharesInv
<1>2. F_Snapshots' = [F_Snapshots EXCEPT ![u] = [COLL |-> F_COLL, USDD |-> F_USDD]]
  BY DEF payGains, updateUserSnapshots
<1>3. DOMAIN stakes = Stakers /\ DOMAIN F_Snapshots = Stakers
  BY <1>1 DEF StakingTypeOK
<1>4. /\ stakes'[u] = n
      /\ F_Snapshots'[u] = [COLL |-> F_COLL, USDD |-> F_USDD]
      /\ \A v \in Stakers \ {u} : stakes'[v] = stakes[v] /\ F_Snapshots'[v] = F_Snapshots[v]
  BY <1>2, <1>3
<1>5. \A v \in Stakers : /\ usddClaims'[v] = stakes'[v] * (F_USDD - F_Snapshots'[v].USDD)
                         /\ collClaims'[v] = stakes'[v] * (F_COLL - F_Snapshots'[v].COLL)
                         /\ usddClaims[v] = stakes[v] * (F_USDD - F_Snapshots[v].USDD)
                         /\ collClaims[v] = stakes[v] * (F_COLL - F_Snapshots[v].COLL)
  BY DEF usddClaims, collClaims
<1>6. F_Snapshots'[u].USDD = F_USDD /\ F_Snapshots'[u].COLL = F_COLL
  BY <1>4
<1>7. n * (F_USDD - F_USDD) = 0 /\ n * (F_COLL - F_COLL) = 0
  BY <1>1 DEF StakingTypeOK
<1> QED BY <1>4, <1>5, <1>6, <1>7

\* A payment leaves the other claims covered.
LEMMA PaymentKeepsCover ==
    ASSUME SharesInv, NEW u \in Stakers, NEW n \in Nat,
           stakes' = [stakes EXCEPT ![u] = n], payGains(u), F_COLL' = F_COLL, F_USDD' = F_USDD
    PROVE  /\ stakes' \in [Stakers -> Nat]
           /\ F_Snapshots' \in [Stakers -> [COLL : Nat, USDD : Nat]]
           /\ usddHeld' \in Nat /\ collHeld' \in Nat
           /\ SnapshotsBehind'
           /\ ClaimsCovered'
<1>1. StakingTypeOK /\ SnapshotsBehind /\ ClaimsCovered
  BY DEF SharesInv
<1>2. F_Snapshots' = [F_Snapshots EXCEPT ![u] = [COLL |-> F_COLL, USDD |-> F_USDD]]
  BY DEF payGains, updateUserSnapshots
<1>3. stakes' \in [Stakers -> Nat]
  BY <1>1 DEF StakingTypeOK
<1>4. F_Snapshots' \in [Stakers -> [COLL : Nat, USDD : Nat]]
  BY <1>1, <1>2 DEF StakingTypeOK
<1> DEFINE a == getPendingUSDDGain(u)
           b == getPendingCollGain(u)
<1>5. /\ usddHeld >= a /\ usddHeld' = usddHeld - a
      /\ collHeld >= b /\ collHeld' = collHeld - b
  BY DEF payGains
<1>6. a \in Nat /\ b \in Nat
  BY <1>1, GainsType
<1>7. a = usddClaims[u] \div STAKING_PRECISION /\ b = collClaims[u] \div STAKING_PRECISION
  BY GainsAreClaims
<1> HIDE DEF a, b
<1>8. usddHeld \in Nat /\ collHeld \in Nat
  BY <1>1 DEF StakingTypeOK
<1>9. usddHeld' \in Nat /\ collHeld' \in Nat
  BY <1>5, <1>6, <1>8
<1>10. SnapshotsBehind'
  <2>1. ASSUME NEW v \in Stakers
        PROVE  F_Snapshots'[v].USDD <= F_USDD /\ F_Snapshots'[v].COLL <= F_COLL
    <3>1. CASE v = u
      <4>1. F_Snapshots'[v].USDD = F_USDD /\ F_Snapshots'[v].COLL = F_COLL
        BY <1>1, <1>2, <3>1 DEF StakingTypeOK
      <4> QED BY <1>1, <4>1 DEF StakingTypeOK
    <3>2. CASE v # u
      <4>1. F_Snapshots'[v] = F_Snapshots[v]
        BY <1>1, <1>2, <3>2 DEF StakingTypeOK
      <4> QED BY <1>1, <4>1 DEF SnapshotsBehind
    <3> QED BY <3>1, <3>2
  <2> QED BY <2>1 DEF SnapshotsBehind
<1>11. usddClaims \in [Stakers -> Nat] /\ collClaims \in [Stakers -> Nat]
  BY <1>1, ClaimsType
<1>12. /\ usddClaims'[u] = 0 /\ collClaims'[u] = 0
       /\ \A v \in Stakers \ {u} : usddClaims'[v] = usddClaims[v]
       /\ \A v \in Stakers \ {u} : collClaims'[v] = collClaims[v]
  BY PaymentClearsClaim
<1>13. usddClaims' \in [Stakers -> Nat] /\ collClaims' \in [Stakers -> Nat]
  <2>1. \A v \in Stakers : usddClaims'[v] \in Nat /\ collClaims'[v] \in Nat
    <3>1. ASSUME NEW v \in Stakers PROVE usddClaims'[v] \in Nat /\ collClaims'[v] \in Nat
      BY <1>11, <1>12
    <3> QED BY <3>1
  <2>2. /\ usddClaims' = [v \in Stakers |-> usddClaims'[v]]
        /\ collClaims' = [v \in Stakers |-> collClaims'[v]]
    BY DEF usddClaims, collClaims
  <2> QED BY <2>1, <2>2
<1> DEFINE c == usddClaims
           d == usddClaims'
           cc == collClaims
           dd == collClaims'
<1>14. Covered(c, usddHeld) /\ Covered(cc, collHeld) /\ usddHeld \in Int /\ collHeld \in Int
  BY <1>1, <1>8 DEF ClaimsCovered
<1>15. /\ c \in [Stakers -> Nat] /\ d \in [Stakers -> Nat] /\ d[u] = 0
       /\ \A v \in Stakers \ {u} : d[v] = c[v]
  BY <1>11, <1>12, <1>13
<1>16. /\ cc \in [Stakers -> Nat] /\ dd \in [Stakers -> Nat] /\ dd[u] = 0
       /\ \A v \in Stakers \ {u} : dd[v] = cc[v]
  BY <1>11, <1>12, <1>13
<1>17. a = c[u] \div STAKING_PRECISION /\ b = cc[u] \div STAKING_PRECISION
  BY <1>7
<1> HIDE DEF c, d, cc, dd
<1>18. Covered(d, usddHeld - a)
  BY <1>14, <1>15, <1>17, ClaimPaid
<1>19. Covered(dd, collHeld - b)
  BY <1>14, <1>16, <1>17, ClaimPaid
<1>20. ClaimsCovered'
  BY <1>5, <1>18, <1>19 DEF ClaimsCovered, Covered, d, dd
<1> QED BY <1>3, <1>4, <1>9, <1>10, <1>20

\* stake keeps the contract's shares backed.
LEMMA StakeKeepsShares ==
    ASSUME SharesInv, NEW u \in Stakers, NEW amount \in Nat, stake(u, amount)
    PROVE  SharesInv'
<1> DEFINE n == stakes[u] + amount
<1>1. StakingTypeOK /\ StakesHeld
  BY DEF SharesInv
<1>2. stakes[u] \in Nat /\ n \in Nat
  BY <1>1 DEF StakingTypeOK
<1>3. /\ stakes' = [stakes EXCEPT ![u] = n] /\ payGains(u)
      /\ F_COLL' = F_COLL /\ F_USDD' = F_USDD
      /\ totalDEFTStaked' = totalDEFTStaked + amount /\ deftHeld' = deftHeld + amount
      /\ amount <= deftOf[u] /\ deftOf' = [deftOf EXCEPT ![u] = @ - amount]
  BY DEF stake
<1>4. /\ stakes' \in [Stakers -> Nat]
      /\ F_Snapshots' \in [Stakers -> [COLL : Nat, USDD : Nat]]
      /\ usddHeld' \in Nat /\ collHeld' \in Nat
      /\ SnapshotsBehind'
      /\ ClaimsCovered'
  <2> HIDE DEF n
  <2> QED BY <1>2, <1>3, PaymentKeepsCover
<1>5. deftOf' \in [Stakers -> Nat]
  BY <1>1, <1>3 DEF StakingTypeOK
<1>6. StakingTypeOK'
  BY <1>1, <1>3, <1>4, <1>5 DEF StakingTypeOK
<1>7. SumFunction(stakes') = SumFunction(stakes) - stakes[u] + stakes'[u]
  <2> DEFINE c == stakes
             d == stakes'
  <2>1. c \in [Stakers -> Int] /\ d \in [Stakers -> Int] /\ IsFiniteSet(Stakers)
    BY <1>1, <1>4, StakingAssumption DEF StakingTypeOK
  <2>2. \A v \in Stakers \ {u} : d[v] = c[v]
    BY <1>1, <1>3 DEF StakingTypeOK
  <2> HIDE DEF c, d
  <2>3. SumFunction(d) = SumFunction(c) - c[u] + d[u]
    BY <2>1, <2>2, SumUpdate
  <2> QED BY <2>3 DEF c, d
<1>8. stakes'[u] = n
  BY <1>1, <1>3 DEF StakingTypeOK
<1>9. StakesHeld'
  BY <1>1, <1>2, <1>3, <1>7, <1>8 DEF StakesHeld, StakingTypeOK
<1> QED BY <1>4, <1>6, <1>9 DEF SharesInv

\* unstake keeps the contract's shares backed.
LEMMA UnstakeKeepsShares ==
    ASSUME SharesInv, NEW u \in Stakers, NEW amount \in Nat, unstake(u, amount)
    PROVE  SharesInv'
<1> DEFINE w == withdrawable(u, amount)
           n == stakes[u] - w
<1>1. StakingTypeOK /\ StakesHeld
  BY DEF SharesInv
<1>2. stakes[u] \in Nat /\ w \in Nat /\ w <= stakes[u]
  BY <1>1 DEF StakingTypeOK, withdrawable
<1>3. /\ stakes' = [stakes EXCEPT ![u] = n] /\ payGains(u)
      /\ F_COLL' = F_COLL /\ F_USDD' = F_USDD
      /\ totalDEFTStaked' = totalDEFTStaked - w /\ deftHeld' = deftHeld - w
      /\ deftOf' = [deftOf EXCEPT ![u] = @ + w]
  BY DEF unstake
<1> HIDE DEF w
<1>4. n \in Nat
  BY <1>2
<1>5. /\ stakes' \in [Stakers -> Nat]
      /\ F_Snapshots' \in [Stakers -> [COLL : Nat, USDD : Nat]]
      /\ usddHeld' \in Nat /\ collHeld' \in Nat
      /\ SnapshotsBehind'
      /\ ClaimsCovered'
  <2> HIDE DEF n
  <2> QED BY <1>3, <1>4, PaymentKeepsCover
<1>6. deftOf' \in [Stakers -> Nat]
  BY <1>1, <1>2, <1>3 DEF StakingTypeOK
<1>7. IsFiniteSet(Stakers) /\ stakes \in [Stakers -> Nat]
  BY <1>1, StakingAssumption DEF StakingTypeOK
<1>8. stakes[u] <= totalDEFTStaked
  BY <1>1, <1>7, SumNat DEF StakesHeld
<1>9. StakingTypeOK'
  BY <1>1, <1>2, <1>3, <1>5, <1>6, <1>8 DEF StakingTypeOK, StakesHeld
<1>10. SumFunction(stakes') = SumFunction(stakes) - stakes[u] + stakes'[u]
  <2> DEFINE c == stakes
             d == stakes'
  <2>1. c \in [Stakers -> Int] /\ d \in [Stakers -> Int]
    BY <1>5, <1>7
  <2>2. \A v \in Stakers \ {u} : d[v] = c[v]
    BY <1>3, <1>7
  <2> HIDE DEF c, d
  <2>3. SumFunction(d) = SumFunction(c) - c[u] + d[u]
    BY <1>7, <2>1, <2>2, SumUpdate
  <2> QED BY <2>3 DEF c, d
<1>11. stakes'[u] = n
  BY <1>3, <1>7
<1>12. StakesHeld'
  BY <1>1, <1>2, <1>3, <1>10, <1>11 DEF StakesHeld, StakingTypeOK
<1> QED BY <1>5, <1>9, <1>12 DEF SharesInv

-----------------------------------------------------------------------------
(* Rates *)

\* A part of an amount, rounded down, is at most the amount.
LEMMA PartType ==
    ASSUME NEW r \in 0..DECIMAL_PRECISION, NEW x \in Nat
    PROVE  (r * x) \div DECIMAL_PRECISION \in 0..x
<1> DEFINE D == DECIMAL_PRECISION
           p == r * x
<1>1. D \in Nat /\ D > 0
  BY DecPowAssumption
<1>2. p \in Nat
  BY <1>1
<1>3. p <= D * x
  <2> HIDE DEF p
  <2>1. r \in Nat /\ r <= D
    BY <1>1
  <2> HIDE DEF D
  <2> QED BY <1>1, <2>1 DEF p
<1> HIDE DEF p, D
<1>4. p \div D \in Nat
  BY <1>1, <1>2
<1>5. p < D * x + D
  BY <1>1, <1>2, <1>3
<1>6. p \in Int /\ x \in Int
  BY <1>2
<1>7. p \div D <= x
  BY <1>1, <1>5, <1>6, QuotientGreatest
<1> QED BY <1>4, <1>7 DEF p, D

\* The rate decays: it does not grow between redemptions.
LEMMA DecayedRateType ==
    ASSUME TypeOK
    PROVE  calcDecayedBaseRate \in 0..baseRate /\ minutesPassedSinceLastFeeOp \in Nat
<1> DEFINE m == minutesPassedSinceLastFeeOp
           p == decPow(MINUTE_DECAY_FACTOR, m)
<1>1. m \in Nat
  <2>1. now - lastFeeOperationTime \in Nat
    BY DEF TypeOK
  <2>2. SECONDS_IN_ONE_MINUTE \in Nat /\ SECONDS_IN_ONE_MINUTE > 0
    BY RateAssumption
  <2> DEFINE t == now - lastFeeOperationTime
  <2>3. t \in Nat
    BY <2>1
  <2> HIDE DEF t
  <2>4. t \div SECONDS_IN_ONE_MINUTE \in Nat
    BY <2>2, <2>3
  <2> QED BY <2>4 DEF minutesPassedSinceLastFeeOp, t
<1>2. MINUTE_DECAY_FACTOR \in 0..DECIMAL_PRECISION
  BY RateAssumption, DecPowAssumption
<1> HIDE DEF m
<1>3. p \in 0..DECIMAL_PRECISION
  BY <1>1, <1>2, DecPowFraction
<1>4. calcDecayedBaseRate = (baseRate * p) \div DECIMAL_PRECISION
  BY DEF calcDecayedBaseRate, m
<1>5. baseRate \in Nat /\ baseRate * p = p * baseRate
  <2>1. baseRate \in Nat /\ p \in Nat
    BY <1>3, DecPowAssumption DEF TypeOK
  <2> HIDE DEF p
  <2> QED BY <2>1
<1>6. (p * baseRate) \div DECIMAL_PRECISION \in 0..baseRate
  <2> HIDE DEF p
  <2> QED BY <1>3, <1>5, PartType
<1> QED BY <1>1, <1>4, <1>5, <1>6 DEF m

\* The rates are fractions, and fees parts of the amount.
LEMMA FeesType ==
    ASSUME TypeOK, NEW amount \in Nat, NEW supply \in Nat \ {0}
    PROVE  /\ borrowingFee(amount) \in 0..amount
           /\ rateAfterRedemption(amount, DECIMAL_PRECISION, supply) \in 0..DECIMAL_PRECISION
           /\ redemptionFee(amount, DECIMAL_PRECISION, supply) \in 0..amount
<1> DEFINE r == calcDecayedBaseRate
           D == DECIMAL_PRECISION
           q == ((amount * D) \div supply) \div BETA
           new == rateAfterRedemption(amount, D, supply)
<1>1. D \in Nat /\ baseRate \in 0..D /\ r \in 0..baseRate
  BY DecPowAssumption, DecayedRateType DEF TypeOK
<1>2. r \in 0..D
  BY <1>1
<1>3. q \in Nat
  <2> DEFINE x == amount * D
             y == x \div supply
  <2>1. x \in Nat
    BY <1>1
  <2> HIDE DEF x
  <2>2. y \in Nat
    BY <2>1
  <2> HIDE DEF y
  <2>3. y \div BETA \in Nat
    BY <2>2, RateAssumption
  <2> QED BY <2>3 DEF x, y
<1> HIDE DEF r, q
<1>4. calcBorrowingRate(r) \in 0..D
  BY <1>1, <1>2, RateAssumption DEF calcBorrowingRate, lesser
<1>5. borrowingFee(amount) \in 0..amount
  BY <1>4, PartType DEF borrowingFee, rateFee, r
<1>6. new = lesser(r + q, D)
  BY DEF rateAfterRedemption, r, q
<1>7. new \in 0..D
  BY <1>1, <1>2, <1>3, <1>6 DEF lesser
<1> HIDE DEF new
<1>8. calcRedemptionRate(new) \in 0..D
  BY <1>1, <1>7, RateAssumption DEF calcRedemptionRate, lesser
<1>9. redemptionFee(amount, D, supply) = (calcRedemptionRate(new) * amount) \div D
  BY DEF redemptionFee, rateFee, new
<1>10. redemptionFee(amount, D, supply) \in 0..amount
  BY <1>8, <1>9, PartType
<1> QED BY <1>5, <1>7, <1>10 DEF new

\* The client's power is a natural number.
LEMMA ClientPowType ==
    ASSUME NEW base \in Nat, NEW e \in Nat
    PROVE  clientPow(base, e) \in Nat
<1>1. DECIMAL_PRECISION \in Nat
  BY DecPowAssumption
<1>2. squaring[e][base][DECIMAL_PRECISION] \in Nat
  BY <1>1, SquaringType
<1>3. shifting[e][base][DECIMAL_PRECISION] = squaring[e][base][DECIMAL_PRECISION]
  BY <1>1, ShiftingIsSquaring
<1> QED BY <1>1, <1>2, <1>3 DEF clientPow

\* The rate the client quotes is a fraction.
LEMMA QuoteType ==
    ASSUME TypeOK
    PROVE  clientBorrowingRate(now) \in 0..DECIMAL_PRECISION
<1> DEFINE since == IF now > lastFeeOperationTime THEN now - lastFeeOperationTime ELSE 0
           e == since \div SECONDS_IN_ONE_MINUTE
           p == clientPow(MINUTE_DECAY_FACTOR, e)
<1>1. since \in Nat
  BY DEF TypeOK
<1>2. e \in Nat
  <2> HIDE DEF since
  <2> QED BY <1>1, RateAssumption
<1>3. clientBaseRate(now) = (p * baseRate) \div DECIMAL_PRECISION
  BY DEF clientBaseRate
<1> HIDE DEF since, e
<1>4. p \in Nat
  <2>1. MINUTE_DECAY_FACTOR \in Nat
    BY RateAssumption, DecPowAssumption
  <2> QED BY <1>2, <2>1, ClientPowType
<1>5. baseRate \in Nat /\ DECIMAL_PRECISION \in Nat /\ DECIMAL_PRECISION > 0
  BY DecPowAssumption DEF TypeOK
<1> HIDE DEF p
<1>6. clientBaseRate(now) \in Nat
  <2> DEFINE x == p * baseRate
  <2>1. x \in Nat
    BY <1>4, <1>5
  <2> HIDE DEF x
  <2>2. x \div DECIMAL_PRECISION \in Nat
    BY <1>5, <2>1
  <2> QED BY <1>3, <2>2 DEF x
<1> QED BY <1>5, <1>6, RateAssumption DEF clientBorrowingRate, lesser

-----------------------------------------------------------------------------
(* The steps *)

\* The clock is moved to a time that is not in the future.
LEMMA ClockType ==
    ASSUME TypeOK
    PROVE  updateLastFeeOpTime \in 0..now
  BY DEF TypeOK, updateLastFeeOpTime

\* Init satisfies the invariant.
LEMMA InitFees == Init => FeesInv
<1> SUFFICES ASSUME Init PROVE FeesInv
  OBVIOUS
<1>1. DEFTBalance \in Nat /\ DECIMAL_PRECISION \in Nat /\ IsFiniteSet(Stakers)
  BY StakingAssumption, DecPowAssumption
<1>2. TypeOK /\ redeemed \in [rate : Nat, time : Nat] /\ StakingTypeOK
  <2>1. StakingTypeOK
    BY <1>1 DEF Init, StakingInit, StakingTypeOK
  <2>2. recoveryMode \in BOOLEAN
    BY DEF Init
  <2>3. /\ now \in Nat /\ baseRate \in 0..DECIMAL_PRECISION
        /\ lastFeeOperationTime \in 0..now /\ redeemed \in [rate : Nat, time : Nat]
    BY <1>1 DEF Init
  <2>4. quote = None
    BY DEF Init
  <2> QED BY <2>1, <2>2, <2>3, <2>4 DEF TypeOK
<1>3. SnapshotsBehind
  BY DEF Init, StakingInit, SnapshotsBehind
<1>4. StakesHeld
  <2>1. stakes \in [Stakers -> Int] /\ \A u \in Stakers : stakes[u] = 0
    BY DEF Init, StakingInit
  <2>2. SumFunction(stakes) = 0
    BY <1>1, <2>1, SumZero
  <2> QED BY <2>2 DEF Init, StakingInit, StakesHeld
<1>5. ClaimsCovered
  <2> DEFINE c == usddClaims
             d == collClaims
  <2>1. \A u \in Stakers : c[u] = 0 /\ d[u] = 0
    BY DEF Init, StakingInit, usddClaims, collClaims
  <2>2. c \in [Stakers -> Int] /\ d \in [Stakers -> Int]
    BY <1>2, <1>3, ClaimsType
  <2> HIDE DEF c, d
  <2>3. SumFunction(c) = 0 /\ SumFunction(d) = 0
    BY <1>1, <2>1, <2>2, SumZero
  <2>4. usddHeld = 0 /\ collHeld = 0 /\ STAKING_PRECISION * 0 = 0
    BY StakingAssumption DEF Init, StakingInit
  <2> QED BY <2>3, <2>4 DEF ClaimsCovered, Covered, c, d
<1> QED BY <1>2, <1>3, <1>4, <1>5 DEF FeesInv

\* What the invariant says beyond the staking contract.
RatesInv ==
    /\ now \in Nat
    /\ baseRate \in 0..DECIMAL_PRECISION
    /\ lastFeeOperationTime \in 0..now
    /\ recoveryMode \in BOOLEAN
    /\ quote \in {None} \cup [rate : 0..DECIMAL_PRECISION, recovery : BOOLEAN,
                              redeemed : [rate : Nat, time : Nat]]
    /\ redeemed \in [rate : Nat, time : Nat]

\* The two parts of the invariant.
LEMMA FeesInvParts == FeesInv <=> SharesInv /\ RatesInv
  BY DEF FeesInv, SharesInv, RatesInv, TypeOK

\* Where the staking contract does not change, its shares stay backed.
LEMMA SharesUnchanged == SharesInv /\ UNCHANGED stakingVars => SharesInv'
<1> SUFFICES ASSUME SharesInv, UNCHANGED stakingVars PROVE SharesInv'
  OBVIOUS
<1>1. /\ UNCHANGED <<stakes, totalDEFTStaked, F_COLL, F_USDD, F_Snapshots>>
      /\ UNCHANGED <<deftOf, deftHeld, usddHeld, collHeld>>
  BY DEF stakingVars
<1>2. usddClaims' = usddClaims /\ collClaims' = collClaims
  BY <1>1 DEF usddClaims, collClaims
<1> QED BY <1>1, <1>2 DEF SharesInv, StakingTypeOK, SnapshotsBehind, ClaimsCovered,
                         StakesHeld, Covered

\* _triggerBorrowingFee keeps the invariant: the fee is computed from the
\* decayed rate and sent to the stakers.
LEMMA TriggerKeepsInv ==
    ASSUME FeesInv, NEW amount \in Nat, NEW max, triggerBorrowingFee(amount, max)
    PROVE  /\ SharesInv'
           /\ baseRate' \in 0..DECIMAL_PRECISION
           /\ lastFeeOperationTime' \in 0..now
<1>1. TypeOK /\ SharesInv
  BY FeesInvParts DEF FeesInv
<1>2. borrowingFee(amount) \in Nat
  <2>1. 1 \in Nat \ {0}
    OBVIOUS
  <2> QED BY <1>1, <2>1, FeesType
<1>3. increaseF_USDD(borrowingFee(amount)) /\ decayBaseRate
  BY DEF triggerBorrowingFee
<1>4. SharesInv'
  BY <1>1, <1>2, <1>3, IncreaseUSDDKeepsShares
<1>5. baseRate' \in 0..DECIMAL_PRECISION
  <2>1. baseRate' = calcDecayedBaseRate /\ calcDecayedBaseRate \in 0..baseRate
    BY <1>1, <1>3, DecayedRateType DEF decayBaseRate
  <2> QED BY <1>1, <2>1, DecPowAssumption DEF TypeOK
<1>6. lastFeeOperationTime' \in 0..now
  BY <1>1, <1>3, ClockType DEF decayBaseRate
<1> QED BY <1>4, <1>5, <1>6

\* So does the fee of an operation, in either mode.
LEMMA ChargeKeepsInv ==
    ASSUME FeesInv, NEW amount \in Nat, NEW max, chargeFee(amount, max)
    PROVE  /\ SharesInv'
           /\ baseRate' \in 0..DECIMAL_PRECISION
           /\ lastFeeOperationTime' \in 0..now
<1>1. CASE recoveryMode
  <2>1. SharesInv /\ RatesInv
    BY FeesInvParts
  <2>2. UNCHANGED <<baseRate, lastFeeOperationTime>> /\ UNCHANGED stakingVars
    BY <1>1 DEF chargeFee
  <2> QED BY <2>1, <2>2, SharesUnchanged DEF RatesInv
<1>2. CASE ~recoveryMode
  <2>1. triggerBorrowingFee(amount, max)
    BY <1>2 DEF chargeFee
  <2> QED BY <2>1, TriggerKeepsInv
<1> QED BY <1>1, <1>2

\* Every step keeps it.
LEMMA NextFees == FeesInv /\ [Next]_vars => FeesInv'
<1> SUFFICES ASSUME FeesInv, [Next]_vars PROVE SharesInv' /\ RatesInv'
  <2>1. (FeesInv <=> SharesInv /\ RatesInv)'
    BY FeesInvParts, PTL
  <2> QED BY <2>1
<1>1. SharesInv /\ RatesInv /\ TypeOK
  BY FeesInvParts DEF FeesInv
<1>2. CASE UNCHANGED vars
  BY <1>1, <1>2, SharesUnchanged DEF vars, rateVars, RatesInv
<1>3. CASE Tick
  <2>1. /\ UNCHANGED stakingVars
        /\ UNCHANGED <<baseRate, lastFeeOperationTime, recoveryMode, quote, redeemed>>
        /\ now' = now + 1
    BY <1>3 DEF Tick, secondPasses
  <2> QED BY <1>1, <2>1, SharesUnchanged DEF RatesInv
<1>4. CASE modeChanges
  <2>1. /\ UNCHANGED stakingVars
        /\ UNCHANGED <<now, baseRate, lastFeeOperationTime, quote, redeemed>>
        /\ recoveryMode' = ~recoveryMode
    BY <1>4 DEF modeChanges
  <2>2. recoveryMode' \in BOOLEAN
    BY <2>1
  <2> QED BY <1>1, <2>1, <2>2, SharesUnchanged DEF RatesInv
<1>5. CASE quoteFee
  <2>1. /\ UNCHANGED stakingVars
        /\ UNCHANGED <<now, baseRate, lastFeeOperationTime, recoveryMode, redeemed>>
        /\ quote' = [rate |-> clientBorrowingRate(now), recovery |-> recoveryMode,
                     redeemed |-> redeemed]
    BY <1>5 DEF quoteFee
  <2>2. clientBorrowingRate(now) \in 0..DECIMAL_PRECISION
    BY <1>1, QuoteType
  <2> QED BY <1>1, <2>1, <2>2, SharesUnchanged DEF RatesInv
<1>6. ASSUME NEW amount \in BorrowAmounts, borrow(amount) PROVE SharesInv' /\ RatesInv'
  <2>1. /\ chargeFee(amount, DECIMAL_PRECISION)
        /\ UNCHANGED <<now, recoveryMode, quote, redeemed>>
    BY <1>6 DEF borrow
  <2>2. amount \in Nat
    BY FeesAssumption
  <2> QED BY <1>1, <2>1, <2>2, ChargeKeepsInv DEF RatesInv
<1>7. ASSUME NEW amount \in BorrowAmounts, borrowQuoted(amount) PROVE SharesInv' /\ RatesInv'
  <2>1. /\ chargeFee(amount, quote.rate + SLIPPAGE)
        /\ quote' = None /\ UNCHANGED <<now, recoveryMode, redeemed>>
    BY <1>7 DEF borrowQuoted
  <2>2. amount \in Nat
    BY FeesAssumption
  <2> QED BY <1>1, <2>1, <2>2, ChargeKeepsInv DEF RatesInv
<1>8. ASSUME NEW drawn \in DrawnColl, redeem(drawn) PROVE SharesInv' /\ RatesInv'
  <2> DEFINE fee == redemptionFee(drawn, DECIMAL_PRECISION, Supply)
             rate == rateAfterRedemption(drawn, DECIMAL_PRECISION, Supply)
  <2>1. /\ updateBaseRateFromRedemption(drawn, DECIMAL_PRECISION, Supply)
        /\ increaseF_COLL(fee) /\ UNCHANGED <<now, recoveryMode, quote>>
    BY <1>8 DEF redeem
  <2>2. drawn \in Nat /\ Supply \in Nat \ {0}
    BY FeesAssumption
  <2>3. fee \in Nat /\ rate \in 0..DECIMAL_PRECISION
    BY <1>1, <2>2, FeesType
  <2>4. /\ baseRate' = rate /\ lastFeeOperationTime' = updateLastFeeOpTime
        /\ redeemed' = [rate |-> rate, time |-> now]
    BY <2>1 DEF updateBaseRateFromRedemption
  <2> HIDE DEF fee, rate
  <2>5. SharesInv'
    BY <1>1, <2>1, <2>3, IncreaseCollKeepsShares
  <2>6. updateLastFeeOpTime \in 0..now
    BY <1>1, ClockType
  <2>7. rate \in Nat /\ now \in Nat
    BY <1>1, <2>3, DecPowAssumption DEF RatesInv
  <2>8. redeemed' \in [rate : Nat, time : Nat]
    BY <2>4, <2>7
  <2> QED BY <1>1, <2>1, <2>3, <2>4, <2>5, <2>6, <2>8 DEF RatesInv
<1>9. CASE stakeDEFT
  <2>1. PICK u \in Stakers, amount \in StakeAmounts : stake(u, amount) /\ UNCHANGED rateVars
    BY <1>9 DEF stakeDEFT
  <2>2. amount \in Nat
    BY FeesAssumption
  <2>3. SharesInv'
    BY <1>1, <2>1, <2>2, StakeKeepsShares
  <2> QED BY <1>1, <2>1, <2>3 DEF RatesInv, rateVars
<1>10. CASE unstakeDEFT
  <2>1. PICK u \in Stakers, amount \in StakeAmounts : unstake(u, amount) /\ UNCHANGED rateVars
    BY <1>10 DEF unstakeDEFT
  <2>2. amount \in Nat
    BY FeesAssumption
  <2>3. SharesInv'
    BY <1>1, <2>1, <2>2, UnstakeKeepsShares
  <2> QED BY <1>1, <2>1, <2>3 DEF RatesInv, rateVars
<1> QED BY <1>2, <1>3, <1>5, <1>6, <1>7, <1>8, <1>9, <1>10, <1>4 DEF Next

\* The staking contract owns what it shows: all gains can be paid at once,
\* all staked DEFT returned, no balance is negative, and the base rate is at
\* most 100%, for all stakers, amounts and rates.
THEOREM StakingInvariance == Spec => []StakingInv
<1>1. Spec => []FeesInv
  BY InitFees, NextFees, PTL DEF Spec
<1> QED BY <1>1, InvariantBacksGains, PTL

-----------------------------------------------------------------------------
(* Fees reach the stakers *)

\* The gains of some claims.
gainsOf(c) == SumFunction([u \in Stakers |-> c[u] \div STAKING_PRECISION])

\* Claims that grow by f for each staked token raise the gains by as much,
\* up to one for each staker.
LEMMA GainsGrow ==
    ASSUME NEW c \in [Stakers -> Nat], NEW d \in [Stakers -> Nat],
           NEW s \in [Stakers -> Nat], NEW f \in Nat, Combines(d, c, f, s, Stakers)
    PROVE  /\ gainsOf(c) \in Int /\ gainsOf(d) \in Int
           /\ STAKING_PRECISION * gainsOf(d)
                  >= STAKING_PRECISION * gainsOf(c) + f * SumFunction(s)
                         - STAKING_PRECISION * Cardinality(Stakers)
<1> DEFINE K == STAKING_PRECISION
           gc == [u \in Stakers |-> c[u] \div K]
           gd == [u \in Stakers |-> d[u] \div K]
           zero == [u \in Stakers |-> 0]
           one == [u \in Stakers |-> 1]
           kc == [u \in Stakers |-> K * gc[u]]
           kd == [u \in Stakers |-> K * gd[u]]
           a == [u \in Stakers |-> kc[u] + f * s[u]]
           b == [u \in Stakers |-> a[u] + (-K) * one[u]]
<1>1. K \in Nat /\ K > 0 /\ IsFiniteSet(Stakers) /\ -K \in Int /\ K \in Int /\ f \in Int
  BY StakingAssumption
<1>2. ASSUME NEW u \in Stakers
      PROVE  /\ c[u] \in Nat /\ d[u] \in Nat /\ s[u] \in Nat /\ d[u] = c[u] + f * s[u]
             /\ c[u] \div K \in Int /\ d[u] \div K \in Int
             /\ K * (c[u] \div K) <= c[u] /\ d[u] < K * (d[u] \div K) + K
  <2>1. c[u] \in Nat /\ d[u] \in Nat /\ s[u] \in Nat /\ d[u] = c[u] + f * s[u]
    BY DEF Combines
  <2>2. c[u] \in Int /\ d[u] \in Int
    BY <2>1
  <2> HIDE DEF K
  <2>3. c[u] \div K \in Int /\ K * (c[u] \div K) <= c[u]
    BY <1>1, <2>2, QuotientBounds
  <2>4. d[u] \div K \in Int /\ d[u] < K * (d[u] \div K) + K
    BY <1>1, <2>2, QuotientBounds
  <2> QED BY <2>1, <2>3, <2>4
<1>3. gc \in [Stakers -> Int] /\ gd \in [Stakers -> Int]
  <2> HIDE DEF K
  <2> QED BY <1>2
<1>4. \A u \in Stakers : gc[u] = c[u] \div K /\ gd[u] = d[u] \div K
  OBVIOUS
<1>5. zero \in [Stakers -> Int] /\ one \in [Stakers -> Int] /\ s \in [Stakers -> Int]
  OBVIOUS
<1>6. \A u \in Stakers : zero[u] = 0 /\ one[u] = 1
  OBVIOUS
<1> HIDE DEF K, gc, gd, zero, one
<1>7. kc \in [Stakers -> Int] /\ kd \in [Stakers -> Int]
  BY <1>1, <1>3
<1>8. \A u \in Stakers : kc[u] = K * gc[u] /\ kd[u] = K * gd[u]
  OBVIOUS
<1> HIDE DEF kc, kd
<1>9. a \in [Stakers -> Int] /\ \A u \in Stakers : a[u] = kc[u] + f * s[u]
  BY <1>5, <1>7
<1> HIDE DEF a
<1>10. b \in [Stakers -> Int] /\ \A u \in Stakers : b[u] = a[u] + (-K) * one[u]
  BY <1>1, <1>5, <1>9
<1> HIDE DEF b
<1>11. Combines(kc, zero, K, gc, Stakers) /\ Combines(kd, zero, K, gd, Stakers)
  BY <1>1, <1>3, <1>6, <1>8 DEF Combines
<1>12. Combines(a, kc, f, s, Stakers) /\ Combines(b, a, -K, one, Stakers)
  BY <1>9, <1>10 DEF Combines
<1>13. ASSUME NEW u \in Stakers PROVE b[u] <= kd[u]
  <2> DEFINE x == c[u] \div K
             y == d[u] \div K
             p == f * s[u]
  <2>1. /\ c[u] \in Nat /\ d[u] \in Nat /\ d[u] = c[u] + p /\ x \in Int /\ y \in Int
        /\ K * x <= c[u] /\ d[u] < K * y + K
    BY <1>2
  <2>2. p \in Int
    BY <1>2
  <2>3. b[u] = K * x + p + (-K) * 1 /\ kd[u] = K * y
    BY <1>4, <1>6, <1>8, <1>9, <1>10
  <2> HIDE DEF x, y, p
  <2> QED BY <1>1, <2>1, <2>2, <2>3
<1>14. SumFunction(b) <= SumFunction(kd)
  BY <1>1, <1>7, <1>10, <1>13, SumMonotone
<1>15. SumFunction(zero) = 0 /\ SumFunction(one) = Cardinality(Stakers)
  BY <1>1, <1>5, <1>6, SumZero, SumOnes
<1>16. SumFunction(kc) = SumFunction(zero) + K * SumFunction(gc)
  BY <1>1, <1>3, <1>5, <1>7, <1>11, SumLinear
<1>17. SumFunction(kd) = SumFunction(zero) + K * SumFunction(gd)
  BY <1>1, <1>3, <1>5, <1>7, <1>11, SumLinear
<1>18. SumFunction(a) = SumFunction(kc) + f * SumFunction(s)
  BY <1>1, <1>5, <1>7, <1>9, <1>12, SumLinear
<1>19. SumFunction(b) = SumFunction(a) + (-K) * SumFunction(one)
  BY <1>1, <1>5, <1>9, <1>10, <1>12, SumLinear
<1>20. SumFunction(gc) \in Int /\ SumFunction(gd) \in Int /\ SumFunction(s) \in Int
  BY <1>1, <1>3, <1>5, SumType
<1>21. Cardinality(Stakers) \in Nat
  BY <1>1, FS_CardinalityType
<1> DEFINE sc == SumFunction(gc)
           sd == SumFunction(gd)
           ss == SumFunction(s)
           n == Cardinality(Stakers)
<1>22. (K * sc + f * ss) + (-K) * n <= K * sd
  <2>1. SumFunction(kc) = K * sc /\ SumFunction(kd) = K * sd
    <3>1. K * sc \in Int /\ K * sd \in Int
      BY <1>1, <1>20
    <3> QED BY <1>15, <1>16, <1>17, <3>1
  <2> QED BY <1>14, <1>15, <1>18, <1>19, <2>1
<1>23. sc \in Int /\ sd \in Int /\ ss \in Int /\ n \in Nat
  BY <1>20, <1>21
<1>24. sc = gainsOf(c) /\ sd = gainsOf(d)
  BY DEF gainsOf, gc, gd, K
<1> HIDE DEF sc, sd, n, ss
<1>25. K * sd >= K * sc + f * ss - K * n
  BY <1>1, <1>22, <1>23
<1> QED BY <1>23, <1>24, <1>25 DEF K, n, ss

\* So a fee, less what the fee per token and the gains round off, is in the
\* gains.
LEMMA FeeShared ==
    ASSUME NEW K \in Nat, K > 0, NEW t \in Nat, NEW fee \in Nat, NEW f \in Nat,
           NEW x \in Int, NEW y \in Int, NEW n \in Nat,
           fee * K < t * f + t, K * y >= K * x + f * t - K * n
    PROVE  y - x >= fee - (1 + t \div K + n)
<1> DEFINE q == t \div K
           p == t * f
<1>1. q \in Int /\ t < K * q + K
  <2>1. t \in Int
    OBVIOUS
  <2> QED BY <2>1, QuotientBounds
<1>2. p \in Nat /\ f * t = p
  OBVIOUS
<1> HIDE DEF q, p
<1>3. K * y > K * x + (fee * K - (K * q + K)) - K * n
  <2>1. K * y \in Int /\ K * x \in Int /\ fee * K \in Int /\ K * q \in Int /\ K * n \in Int
    BY <1>1
  <2> QED BY <1>1, <1>2, <2>1 DEF p
<1> DEFINE z == x + fee - (1 + q + n)
<1>4. z \in Int /\ K * z = K * x + (fee * K - (K * q + K)) - K * n
  BY <1>1
<1> HIDE DEF z
<1>5. K * z <= K * y
  <2>1. K * z \in Int /\ K * y \in Int
    BY <1>4
  <2> QED BY <1>3, <1>4, <2>1
<1>6. z <= y
  BY <1>4, <1>5, CancelFactor
<1> QED BY <1>1, <1>6 DEF z, q

\* The gains are those of the claims, before a step and after it.
LEMMA GainsOfClaims ==
    /\ allUSDDGains = gainsOf(usddClaims) /\ allCollGains = gainsOf(collClaims)
    /\ allUSDDGains' = gainsOf(usddClaims') /\ allCollGains' = gainsOf(collClaims')
<1>1. allUSDDGains = gainsOf(usddClaims) /\ allCollGains = gainsOf(collClaims)
  BY GainsAreClaims DEF gainsOf
<1>2. (allUSDDGains = gainsOf(usddClaims) /\ allCollGains = gainsOf(collClaims))'
  BY <1>1, PTL
<1>3. allUSDDGains' = gainsOf(usddClaims') /\ allCollGains' = gainsOf(collClaims')
  BY <1>2 DEF gainsOf
<1> QED BY <1>1, <1>3

\* The gains together are integers.
LEMMA GainsTotalType ==
    ASSUME SharesInv
    PROVE  allUSDDGains \in Int /\ allCollGains \in Int
<1> DEFINE c == usddClaims
           d == collClaims
           z == [u \in Stakers |-> 0]
<1>1. c \in [Stakers -> Nat] /\ d \in [Stakers -> Nat]
  BY ClaimsType DEF SharesInv
<1>2. z \in [Stakers -> Nat] /\ \A u \in Stakers : z[u] = 0
  OBVIOUS
<1> HIDE DEF c, d, z
<1>3. Combines(c, c, 0, z, Stakers) /\ Combines(d, d, 0, z, Stakers)
  BY <1>1, <1>2 DEF Combines
<1>4. gainsOf(c) \in Int /\ gainsOf(d) \in Int
  <2>1. \A f \in Nat : f = 0 => gainsOf(c) \in Int /\ gainsOf(d) \in Int
    BY <1>1, <1>2, <1>3, GainsGrow
  <2> QED BY <2>1
<1> QED BY <1>4, GainsOfClaims DEF c, d

\* What FeesReachStakers and OperationsSettle say of a step.
Reaches ==
    LET fees == (usddHeld' - usddHeld) + (collHeld' - collHeld)
        gained == (allUSDDGains' - allUSDDGains) + (allCollGains' - allCollGains)
        rounding == 1 + totalDEFTStaked \div STAKING_PRECISION + Cardinality(Stakers)
    IN  (stakes' = stakes /\ F_Snapshots' = F_Snapshots)
            => IF totalDEFTStaked > 0 THEN gained >= fees - rounding ELSE gained = 0

Settles ==
    \A u \in Stakers :
        (stakes'[u] # stakes[u])
            => /\ getPendingUSDDGain(u)' = 0
               /\ getPendingCollGain(u)' = 0
               /\ usddHeld - usddHeld' = getPendingUSDDGain(u)
               /\ collHeld - collHeld' = getPendingCollGain(u)
               /\ \A v \in Stakers \ {u} :
                      /\ getPendingUSDDGain(v)' = getPendingUSDDGain(v)
                      /\ getPendingCollGain(v)' = getPendingCollGain(v)

\* The rounding is a natural number.
LEMMA RoundingType ==
    ASSUME SharesInv
    PROVE  /\ Cardinality(Stakers) \in Nat
           /\ totalDEFTStaked \div STAKING_PRECISION \in Nat
<1>1. Cardinality(Stakers) \in Nat
  BY StakingAssumption, FS_CardinalityType
<1>2. totalDEFTStaked \in Nat /\ STAKING_PRECISION \in Nat /\ STAKING_PRECISION > 0
  BY StakingAssumption DEF SharesInv, StakingTypeOK
<1>3. totalDEFTStaked \div STAKING_PRECISION \in Nat
  BY <1>2
<1> QED BY <1>1, <1>3

\* A step that changes no claim and takes nothing in.
LEMMA NothingReaches ==
    ASSUME SharesInv, usddClaims' = usddClaims, collClaims' = collClaims,
           usddHeld' \in Int, collHeld' \in Int, usddHeld' <= usddHeld, collHeld' <= collHeld
    PROVE  Reaches
<1>1. allUSDDGains' = allUSDDGains /\ allCollGains' = allCollGains
  BY GainsOfClaims
<1>2. allUSDDGains \in Int /\ allCollGains \in Int
  BY GainsTotalType
<1>3. usddHeld \in Int /\ collHeld \in Int
  BY DEF SharesInv, StakingTypeOK
<1> DEFINE gained == (allUSDDGains' - allUSDDGains) + (allCollGains' - allCollGains)
           fees == (usddHeld' - usddHeld) + (collHeld' - collHeld)
           rounding == 1 + totalDEFTStaked \div STAKING_PRECISION + Cardinality(Stakers)
<1>4. gained = 0
  BY <1>1, <1>2
<1>5. fees \in Int /\ fees <= 0
  <2>1. \A a, b, x, y \in Int :
            x <= a /\ y <= b => (x - a) + (y - b) \in Int /\ (x - a) + (y - b) <= 0
    OBVIOUS
  <2> QED BY <1>3, <2>1
<1>6. rounding \in Nat
  BY RoundingType
<1> HIDE DEF gained, fees, rounding
<1>7. gained >= fees - rounding
  BY <1>4, <1>5, <1>6
<1> QED BY <1>4, <1>7 DEF Reaches, gained, fees, rounding

\* A USDD fee reaches those who stake.
LEMMA USDDFeeReaches ==
    ASSUME SharesInv, NEW fee \in Nat, increaseF_USDD(fee)
    PROVE  Reaches
<1> DEFINE f == feePerStake(fee)
           t == totalDEFTStaked
           K == STAKING_PRECISION
           c == usddClaims
           d == usddClaims'
<1>1. /\ F_USDD' = F_USDD + f /\ usddHeld' = usddHeld + fee
      /\ UNCHANGED <<stakes, totalDEFTStaked, F_COLL, F_Snapshots, deftOf, deftHeld, collHeld>>
  BY DEF increaseF_USDD
<1>2. /\ t \in Nat /\ f \in Nat
      /\ t > 0 => fee * K < t * f + t
      /\ t = 0 => f = 0
  BY FeePerStakeBounds DEF SharesInv, StakingTypeOK
<1>3. SharesInv'
  BY IncreaseUSDDKeepsShares
<1>4. c \in [Stakers -> Nat] /\ d \in [Stakers -> Nat] /\ stakes \in [Stakers -> Nat]
  BY <1>3, ClaimsType, ClaimsTypeNext DEF SharesInv, StakingTypeOK
<1> HIDE DEF f
<1>5. Combines(d, c, f, stakes, Stakers)
  <2>1. ASSUME NEW u \in Stakers
        PROVE  usddClaims'[u] = usddClaims[u] + f * stakes[u]
    <3> DEFINE s == stakes[u]
               p == F_Snapshots[u].USDD
    <3>1. s \in Nat /\ p \in Nat /\ F_USDD \in Nat
      BY DEF SharesInv, StakingTypeOK
    <3>2. usddClaims'[u] = s * ((F_USDD + f) - p)
      BY <1>1 DEF usddClaims
    <3>3. usddClaims[u] = s * (F_USDD - p)
      BY DEF usddClaims
    <3> HIDE DEF s, p
    <3>4. s * ((F_USDD + f) - p) = s * (F_USDD - p) + f * s
      BY <1>2, <3>1
    <3> QED BY <3>2, <3>3, <3>4 DEF s
  <2> QED BY <2>1 DEF Combines
<1>6. collClaims' = collClaims
  BY <1>1 DEF collClaims
<1>7. /\ allUSDDGains = gainsOf(c) /\ allUSDDGains' = gainsOf(d)
      /\ allCollGains' = allCollGains /\ allCollGains \in Int
  BY <1>6, GainsOfClaims, GainsTotalType
<1>8. SumFunction(stakes) = t
  BY DEF SharesInv, StakesHeld
<1> DEFINE x == gainsOf(c)
           y == gainsOf(d)
           n == Cardinality(Stakers)
<1>9. x \in Int /\ y \in Int /\ K * y >= K * x + f * t - K * n
  <2> HIDE DEF c, d, x, y
  <2>1. /\ gainsOf(c) \in Int /\ gainsOf(d) \in Int
        /\ STAKING_PRECISION * gainsOf(d)
               >= STAKING_PRECISION * gainsOf(c) + f * SumFunction(stakes)
                      - STAKING_PRECISION * Cardinality(Stakers)
    BY <1>2, <1>4, <1>5, GainsGrow
  <2> QED BY <1>8, <2>1 DEF x, y
<1>10. n \in Nat /\ t \div K \in Nat /\ K \in Nat /\ K > 0
  BY RoundingType, StakingAssumption
<1>11. /\ (usddHeld' - usddHeld) + (collHeld' - collHeld) = fee
       /\ (allUSDDGains' - allUSDDGains) + (allCollGains' - allCollGains) = y - x
  <2>1. usddHeld \in Int /\ collHeld \in Int
    BY DEF SharesInv, StakingTypeOK
  <2> HIDE DEF x, y
  <2>2. allUSDDGains = x /\ allUSDDGains' = y
    BY <1>7 DEF x, y
  <2> QED BY <1>1, <1>7, <1>9, <2>1, <2>2
<1>12. CASE t > 0
  <2> HIDE DEF x, y, n, t, K
  <2>1. y - x >= fee - (1 + t \div K + n)
    BY <1>2, <1>9, <1>10, <1>12, FeeShared
  <2> QED BY <1>11, <1>12, <2>1 DEF Reaches, t, K, n
<1>13. CASE ~(t > 0)
  <2>1. f = 0
    BY <1>2, <1>13
  <2>2. d = c
    <3>1. F_USDD' = F_USDD
      BY <1>1, <2>1 DEF SharesInv, StakingTypeOK
    <3> QED BY <1>1, <3>1 DEF usddClaims
  <2>3. y - x = 0
    <3>1. y = x
      BY <2>2
    <3> HIDE DEF x, y
    <3> QED BY <1>9, <3>1
  <2> HIDE DEF x, y
  <2> QED BY <1>11, <1>13, <2>3 DEF Reaches
<1> QED BY <1>12, <1>13

\* A collateral fee reaches those who stake.
LEMMA CollFeeReaches ==
    ASSUME SharesInv, NEW fee \in Nat, increaseF_COLL(fee)
    PROVE  Reaches
<1> DEFINE f == feePerStake(fee)
           t == totalDEFTStaked
           K == STAKING_PRECISION
           c == collClaims
           d == collClaims'
<1>1. /\ F_COLL' = F_COLL + f /\ collHeld' = collHeld + fee
      /\ UNCHANGED <<stakes, totalDEFTStaked, F_USDD, F_Snapshots, deftOf, deftHeld, usddHeld>>
  BY DEF increaseF_COLL
<1>2. /\ t \in Nat /\ f \in Nat
      /\ t > 0 => fee * K < t * f + t
      /\ t = 0 => f = 0
  BY FeePerStakeBounds DEF SharesInv, StakingTypeOK
<1>3. SharesInv'
  BY IncreaseCollKeepsShares
<1>4. c \in [Stakers -> Nat] /\ d \in [Stakers -> Nat] /\ stakes \in [Stakers -> Nat]
  BY <1>3, ClaimsType, ClaimsTypeNext DEF SharesInv, StakingTypeOK
<1> HIDE DEF f
<1>5. Combines(d, c, f, stakes, Stakers)
  <2>1. ASSUME NEW u \in Stakers
        PROVE  collClaims'[u] = collClaims[u] + f * stakes[u]
    <3> DEFINE s == stakes[u]
               p == F_Snapshots[u].COLL
    <3>1. s \in Nat /\ p \in Nat /\ F_COLL \in Nat
      BY DEF SharesInv, StakingTypeOK
    <3>2. collClaims'[u] = s * ((F_COLL + f) - p)
      BY <1>1 DEF collClaims
    <3>3. collClaims[u] = s * (F_COLL - p)
      BY DEF collClaims
    <3> HIDE DEF s, p
    <3>4. s * ((F_COLL + f) - p) = s * (F_COLL - p) + f * s
      BY <1>2, <3>1
    <3> QED BY <3>2, <3>3, <3>4 DEF s
  <2> QED BY <2>1 DEF Combines
<1>6. usddClaims' = usddClaims
  BY <1>1 DEF usddClaims
<1>7. /\ allCollGains = gainsOf(c) /\ allCollGains' = gainsOf(d)
      /\ allUSDDGains' = allUSDDGains /\ allUSDDGains \in Int
  BY <1>6, GainsOfClaims, GainsTotalType
<1>8. SumFunction(stakes) = t
  BY DEF SharesInv, StakesHeld
<1> DEFINE x == gainsOf(c)
           y == gainsOf(d)
           n == Cardinality(Stakers)
<1>9. x \in Int /\ y \in Int /\ K * y >= K * x + f * t - K * n
  <2> HIDE DEF c, d, x, y
  <2>1. /\ gainsOf(c) \in Int /\ gainsOf(d) \in Int
        /\ STAKING_PRECISION * gainsOf(d)
               >= STAKING_PRECISION * gainsOf(c) + f * SumFunction(stakes)
                      - STAKING_PRECISION * Cardinality(Stakers)
    BY <1>2, <1>4, <1>5, GainsGrow
  <2> QED BY <1>8, <2>1 DEF x, y
<1>10. n \in Nat /\ t \div K \in Nat /\ K \in Nat /\ K > 0
  BY RoundingType, StakingAssumption
<1>11. /\ (usddHeld' - usddHeld) + (collHeld' - collHeld) = fee
       /\ (allUSDDGains' - allUSDDGains) + (allCollGains' - allCollGains) = y - x
  <2>1. collHeld \in Int /\ usddHeld \in Int
    BY DEF SharesInv, StakingTypeOK
  <2> HIDE DEF x, y
  <2>2. allCollGains = x /\ allCollGains' = y
    BY <1>7 DEF x, y
  <2> QED BY <1>1, <1>7, <1>9, <2>1, <2>2
<1>12. CASE t > 0
  <2> HIDE DEF x, y, n, t, K
  <2>1. y - x >= fee - (1 + t \div K + n)
    BY <1>2, <1>9, <1>10, <1>12, FeeShared
  <2> QED BY <1>11, <1>12, <2>1 DEF Reaches, t, K, n
<1>13. CASE ~(t > 0)
  <2>1. f = 0
    BY <1>2, <1>13
  <2>2. d = c
    <3>1. F_COLL' = F_COLL
      BY <1>1, <2>1 DEF SharesInv, StakingTypeOK
    <3> QED BY <1>1, <3>1 DEF collClaims
  <2>3. y - x = 0
    <3>1. y = x
      BY <2>2
    <3> HIDE DEF x, y
    <3> QED BY <1>9, <3>1
  <2> HIDE DEF x, y
  <2> QED BY <1>11, <1>13, <2>3 DEF Reaches
<1> QED BY <1>12, <1>13

\* Staking and unstaking settle the caller's gains and nobody else's.
LEMMA PaymentSettles ==
    ASSUME SharesInv, NEW u \in Stakers, NEW n \in Nat,
           stakes' = [stakes EXCEPT ![u] = n], payGains(u), F_COLL' = F_COLL, F_USDD' = F_USDD
    PROVE  Settles
<1> DEFINE K == STAKING_PRECISION
<1>1. \A v \in Stakers : /\ getPendingUSDDGain(v) = usddClaims[v] \div K
                         /\ getPendingCollGain(v) = collClaims[v] \div K
  BY GainsAreClaims
<1>2. \A v \in Stakers : /\ getPendingUSDDGain(v)' = usddClaims'[v] \div K
                         /\ getPendingCollGain(v)' = collClaims'[v] \div K
  BY DEF getPendingUSDDGain, getPendingCollGain, usddClaims, collClaims
<1>3. /\ usddClaims'[u] = 0 /\ collClaims'[u] = 0
      /\ \A v \in Stakers \ {u} : /\ usddClaims'[v] = usddClaims[v]
                                  /\ collClaims'[v] = collClaims[v]
  BY PaymentClearsClaim
<1>4. 0 \div K = 0
  BY StakingAssumption
<1>5. getPendingUSDDGain(u)' = 0 /\ getPendingCollGain(u)' = 0
  BY <1>2, <1>3, <1>4
<1>6. \A v \in Stakers \ {u} : /\ getPendingUSDDGain(v)' = getPendingUSDDGain(v)
                               /\ getPendingCollGain(v)' = getPendingCollGain(v)
  BY <1>1, <1>2, <1>3
<1>7. usddHeld - usddHeld' = getPendingUSDDGain(u) /\ collHeld - collHeld' = getPendingCollGain(u)
  <2> DEFINE a == getPendingUSDDGain(u)
             b == getPendingCollGain(u)
  <2>1. usddHeld' = usddHeld - a /\ collHeld' = collHeld - b
    BY DEF payGains
  <2>2. a \in Nat /\ b \in Nat /\ usddHeld \in Nat /\ collHeld \in Nat
    BY GainsType DEF SharesInv, StakingTypeOK
  <2> HIDE DEF a, b
  <2>3. usddHeld - usddHeld' = a /\ collHeld - collHeld' = b
    BY <2>1, <2>2
  <2> QED BY <2>3 DEF a, b
<1>8. \A v \in Stakers : stakes'[v] # stakes[v] => v = u
  BY DEF SharesInv, StakingTypeOK
<1> QED BY <1>5, <1>6, <1>7, <1>8 DEF Settles

\* A payment that leaves the stake and the snapshot as they were paid nothing
\* that anybody gained.
LEMMA PaymentReaches ==
    ASSUME SharesInv, NEW u \in Stakers, NEW n \in Nat,
           stakes' = [stakes EXCEPT ![u] = n], payGains(u), F_COLL' = F_COLL, F_USDD' = F_USDD
    PROVE  Reaches
<1> SUFFICES ASSUME stakes' = stakes, F_Snapshots' = F_Snapshots PROVE Reaches
  BY DEF Reaches
<1>1. usddClaims' = usddClaims /\ collClaims' = collClaims
  BY DEF usddClaims, collClaims
<1> DEFINE a == getPendingUSDDGain(u)
           b == getPendingCollGain(u)
<1>2. usddHeld' = usddHeld - a /\ collHeld' = collHeld - b
  BY DEF payGains
<1>3. a \in Nat /\ b \in Nat /\ usddHeld \in Nat /\ collHeld \in Nat
  BY GainsType DEF SharesInv, StakingTypeOK
<1> HIDE DEF a, b
<1>4. /\ usddHeld' \in Int /\ collHeld' \in Int
      /\ usddHeld' <= usddHeld /\ collHeld' <= collHeld
  BY <1>2, <1>3
<1> QED BY <1>1, <1>4, NothingReaches

\* A fee goes to those who stake when it arrives.
LEMMA FeeStepPaid ==
    ASSUME SharesInv, NEW fee \in Nat, increaseF_USDD(fee) \/ increaseF_COLL(fee)
    PROVE  Reaches /\ Settles
<1>1. Reaches
  BY USDDFeeReaches, CollFeeReaches
<1>2. stakes' = stakes
  BY DEF increaseF_USDD, increaseF_COLL
<1> QED BY <1>1, <1>2 DEF Settles

\* Every step pays stakers what is theirs.
LEMMA NextPays == FeesInv /\ [Next]_vars => Reaches /\ Settles
<1> SUFFICES ASSUME FeesInv, [Next]_vars PROVE Reaches /\ Settles
  OBVIOUS
<1>1. SharesInv /\ TypeOK
  BY FeesInvParts DEF FeesInv
<1>2. CASE UNCHANGED stakingVars
  <2>1. /\ UNCHANGED <<stakes, totalDEFTStaked, F_COLL, F_USDD, F_Snapshots>>
        /\ UNCHANGED <<deftOf, deftHeld, usddHeld, collHeld>>
    BY <1>2 DEF stakingVars
  <2>2. usddClaims' = usddClaims /\ collClaims' = collClaims
    BY <2>1 DEF usddClaims, collClaims
  <2>3. usddHeld \in Int /\ collHeld \in Int
    BY <1>1 DEF SharesInv, StakingTypeOK
  <2>4. Reaches
    BY <1>1, <2>1, <2>2, <2>3, NothingReaches
  <2> QED BY <2>1, <2>4 DEF Settles
<1>3. ASSUME NEW amount \in BorrowAmounts, NEW max, triggerBorrowingFee(amount, max)
      PROVE  Reaches /\ Settles
  <2>1. borrowingFee(amount) \in Nat
    <3>1. amount \in Nat /\ 1 \in Nat \ {0}
      BY FeesAssumption
    <3> QED BY <1>1, <3>1, FeesType
  <2>2. increaseF_USDD(borrowingFee(amount))
    BY <1>3 DEF triggerBorrowingFee
  <2> QED BY <1>1, <2>1, <2>2, FeeStepPaid
<1>4. ASSUME NEW drawn \in DrawnColl, redeem(drawn) PROVE Reaches /\ Settles
  <2> DEFINE fee == redemptionFee(drawn, DECIMAL_PRECISION, Supply)
  <2>1. increaseF_COLL(fee)
    BY <1>4 DEF redeem
  <2>2. fee \in Nat
    <3>1. drawn \in Nat /\ Supply \in Nat \ {0}
      BY FeesAssumption
    <3> QED BY <1>1, <3>1, FeesType
  <2> HIDE DEF fee
  <2> QED BY <1>1, <2>1, <2>2, FeeStepPaid
<1>5. CASE stakeDEFT
  <2>1. PICK u \in Stakers, amount \in StakeAmounts : stake(u, amount)
    BY <1>5 DEF stakeDEFT
  <2> DEFINE n == stakes[u] + amount
  <2>2. n \in Nat
    BY <1>1, FeesAssumption DEF SharesInv, StakingTypeOK
  <2>3. /\ stakes' = [stakes EXCEPT ![u] = n] /\ payGains(u)
        /\ F_COLL' = F_COLL /\ F_USDD' = F_USDD
    BY <2>1 DEF stake
  <2> HIDE DEF n
  <2> QED BY <1>1, <2>2, <2>3, PaymentReaches, PaymentSettles
<1>6. CASE unstakeDEFT
  <2>1. PICK u \in Stakers, amount \in StakeAmounts : unstake(u, amount)
    BY <1>6 DEF unstakeDEFT
  <2> DEFINE n == stakes[u] - withdrawable(u, amount)
  <2>2. n \in Nat
    BY <1>1, FeesAssumption DEF SharesInv, StakingTypeOK, withdrawable
  <2>3. /\ stakes' = [stakes EXCEPT ![u] = n] /\ payGains(u)
        /\ F_COLL' = F_COLL /\ F_USDD' = F_USDD
    BY <2>1 DEF unstake
  <2> HIDE DEF n
  <2> QED BY <1>1, <2>2, <2>3, PaymentReaches, PaymentSettles
<1>7. CASE Tick \/ modeChanges \/ quoteFee \/ UNCHANGED vars
  <2>1. UNCHANGED stakingVars
    BY <1>7 DEF Tick, secondPasses, modeChanges, quoteFee, vars
  <2> QED BY <1>2, <2>1
<1>8. ASSUME NEW amount \in BorrowAmounts, borrow(amount) \/ borrowQuoted(amount)
      PROVE  Reaches /\ Settles
  BY <1>2, <1>3, <1>8 DEF borrow, borrowQuoted, chargeFee
<1> QED BY <1>4, <1>5, <1>6, <1>7, <1>8 DEF Next

\* A fee goes to those who stake when it arrives, up to rounding, and staking
\* or unstaking pays the caller what is due, once, and touches nobody else,
\* for all stakers, stakes and fees.
THEOREM StakersArePaid == Spec => StakersPaid
<1>1. Spec => []FeesInv
  BY InitFees, NextFees, PTL DEF Spec
<1>2. Spec => [][Reaches]_vars /\ [][Settles]_vars
  BY <1>1, NextPays, PTL DEF Spec
<1>3. Spec => FeesReachStakers
  BY <1>2 DEF FeesReachStakers, Reaches
<1>4. Spec => OperationsSettle
  BY <1>2 DEF OperationsSettle, Settles
<1> QED BY <1>3, <1>4 DEF StakersPaid

-----------------------------------------------------------------------------
(* What the client quotes *)

\* A fee that is a part of an amount, rounded down, is accepted when the
\* maximum is that part.
LEMMA PartAccepted ==
    ASSUME NEW r \in 0..DECIMAL_PRECISION, NEW amount \in Nat, amount > 0
    PROVE  userAcceptsFee((r * amount) \div DECIMAL_PRECISION, amount, r)
<1> DEFINE D == DECIMAL_PRECISION
           p == r * amount
           fee == p \div D
<1>1. D \in Nat /\ D > 0 /\ r \in Int
  BY DecPowAssumption
<1>2. p \in Int /\ p = amount * r
  BY <1>1
<1> HIDE DEF p
<1>3. fee \in Int /\ D * fee <= p
  <2> HIDE DEF D
  <2> QED BY <1>1, <1>2, QuotientBounds
<1> HIDE DEF fee, D
<1>4. fee * D \in Int /\ fee * D < amount * r + amount
  BY <1>1, <1>2, <1>3
<1>5. (fee * D) \div amount <= r
  BY <1>1, <1>4, QuotientGreatest
<1> QED BY <1>5 DEF userAcceptsFee, fee, p, D

\* The client decays the base rate as the contracts do, for a thousand years.
LEMMA ClientRateAgrees ==
    ASSUME TypeOK, minutesPassedSinceLastFeeOp <= MAX_MINUTES
    PROVE  clientBaseRate(now) = calcDecayedBaseRate
<1> DEFINE since == IF now > lastFeeOperationTime THEN now - lastFeeOperationTime ELSE 0
           m == minutesPassedSinceLastFeeOp
<1>1. since = now - lastFeeOperationTime
  BY DEF TypeOK
<1>2. m = since \div SECONDS_IN_ONE_MINUTE
  BY <1>1 DEF minutesPassedSinceLastFeeOp
<1>3. clientBaseRate(now) = (clientPow(MINUTE_DECAY_FACTOR, m) * baseRate) \div DECIMAL_PRECISION
  <2> HIDE DEF m
  <2> QED BY <1>2 DEF clientBaseRate
<1>4. m \in 0..MAX_MINUTES
  BY DecayedRateType, DecPowAssumption
<1>5. MINUTE_DECAY_FACTOR \in 0..DECIMAL_PRECISION /\ DECIMAL_PRECISION \in Nat
  BY RateAssumption, DecPowAssumption
<1> DEFINE p == decPow(MINUTE_DECAY_FACTOR, m)
<1>6. clientPow(MINUTE_DECAY_FACTOR, m) = p
  <2> HIDE DEF m
  <2>1. MINUTE_DECAY_FACTOR \in Nat
    BY <1>5
  <2> QED BY <1>4, <2>1, ClientPowerAgrees
<1>7. p \in Nat /\ baseRate \in Nat
  <2> HIDE DEF m
  <2>1. m \in Nat
    BY <1>4, DecPowAssumption
  <2>2. p \in 0..DECIMAL_PRECISION
    BY <1>5, <2>1, DecPowFraction
  <2> HIDE DEF p
  <2> QED BY <1>5, <2>2 DEF TypeOK
<1>8. calcDecayedBaseRate = (baseRate * p) \div DECIMAL_PRECISION
  BY DEF calcDecayedBaseRate
<1> HIDE DEF p
<1>9. p * baseRate = baseRate * p
  BY <1>7
<1> QED BY <1>3, <1>6, <1>8, <1>9

\* The two ways to add the floor, the redeemed fraction and the rate give the
\* same rate.
LEMMA RedemptionRatesAgree ==
    ASSUME TypeOK, minutesPassedSinceLastFeeOp <= MAX_MINUTES,
           NEW drawn \in Nat, NEW supply \in Nat \ {0}
    PROVE  calcRedemptionRate(rateAfterRedemption(drawn, DECIMAL_PRECISION, supply))
               = clientRedemptionRate((drawn * DECIMAL_PRECISION) \div supply, now)
<1> DEFINE D == DECIMAL_PRECISION
           r == calcDecayedBaseRate
           q == ((drawn * D) \div supply) \div BETA
<1>1. D \in Nat /\ REDEMPTION_FEE_FLOOR \in Nat
  BY DecPowAssumption, RateAssumption
<1>2. r \in Nat
  BY DecayedRateType DEF TypeOK
<1>3. q \in Nat
  <2> DEFINE x == drawn * D
             y == x \div supply
  <2>1. x \in Nat
    BY <1>1
  <2> HIDE DEF x
  <2>2. y \in Nat
    BY <2>1
  <2> HIDE DEF y
  <2>3. y \div BETA \in Nat
    BY <2>2, RateAssumption
  <2> QED BY <2>3 DEF x, y
<1>4. calcRedemptionRate(rateAfterRedemption(drawn, D, supply))
          = lesser(REDEMPTION_FEE_FLOOR + lesser(r + q, D), D)
  BY DEF calcRedemptionRate, rateAfterRedemption
<1>5. clientRedemptionRate((drawn * D) \div supply, now)
          = lesser(REDEMPTION_FEE_FLOOR + q + r, D)
  BY ClientRateAgrees DEF clientRedemptionRate
<1> HIDE DEF D, r, q
<1>6. lesser(REDEMPTION_FEE_FLOOR + lesser(r + q, D), D) = lesser(REDEMPTION_FEE_FLOOR + q + r, D)
  BY <1>1, <1>2, <1>3 DEF lesser
<1> QED BY <1>4, <1>5, <1>6 DEF D

\* Time stops at the bound.
LEMMA ClockBounded == Spec => [](now <= MaxTime)
<1>1. Spec => []FeesInv
  BY InitFees, NextFees, PTL DEF Spec
<1>2. Init => now <= MaxTime
  BY ClockAssumption DEF Init
<1>3. FeesInv /\ now <= MaxTime /\ [Next]_vars => (now <= MaxTime)'
  <2> SUFFICES ASSUME FeesInv, now <= MaxTime, [Next]_vars PROVE now' <= MaxTime
    OBVIOUS
  <2>1. now \in Nat /\ MaxTime \in Nat
    BY ClockAssumption DEF FeesInv, TypeOK
  <2>2. CASE Tick
    BY <2>1, <2>2 DEF Tick, secondPasses
  <2>3. ASSUME now' = now PROVE now' <= MaxTime
    BY <2>3
  <2> QED BY <2>2, <2>3 DEF Next, modeChanges, quoteFee, borrow, borrowQuoted, redeem,
                           stakeDEFT, unstakeDEFT, vars, rateVars
<1> QED BY <1>1, <1>2, <1>3, PTL DEF Spec

\* Up to the bound the exponent is not capped.
LEMMA MinutesBounded ==
    ASSUME MaxTime <= MAX_MINUTES * SECONDS_IN_ONE_MINUTE, TypeOK, now <= MaxTime
    PROVE  minutesPassedSinceLastFeeOp <= MAX_MINUTES
<1> DEFINE t == now - lastFeeOperationTime
<1>1. /\ MAX_MINUTES \in Nat /\ SECONDS_IN_ONE_MINUTE \in Nat /\ SECONDS_IN_ONE_MINUTE > 0
      /\ MaxTime \in Nat
  BY DecPowAssumption, RateAssumption, ClockAssumption
<1>2. t \in Int /\ t <= MaxTime
  BY <1>1 DEF TypeOK
<1> HIDE DEF t
<1>3. t < SECONDS_IN_ONE_MINUTE * MAX_MINUTES + SECONDS_IN_ONE_MINUTE
  BY <1>1, <1>2
<1>4. MAX_MINUTES \in Int
  BY <1>1
<1>5. t \div SECONDS_IN_ONE_MINUTE <= MAX_MINUTES
  BY <1>1, <1>2, <1>3, <1>4, QuotientGreatest
<1> QED BY <1>5 DEF minutesPassedSinceLastFeeOp, t

\* A redemption with the maximum the client quotes at the latest block is not
\* refused for its fee, within the thousand years at which _decPow stops
\* counting and Decimal.pow does not.
THEOREM RedemptionQuotesAccepted ==
    ASSUME MaxTime <= MAX_MINUTES * SECONDS_IN_ONE_MINUTE
    PROVE  Spec => []QuotedRedemptionAccepted
<1>1. Spec => []FeesInv
  BY InitFees, NextFees, PTL DEF Spec
<1>2. Spec => [](now <= MaxTime)
  BY ClockBounded
<1>3. FeesInv /\ now <= MaxTime => QuotedRedemptionAccepted
  <2> SUFFICES ASSUME FeesInv, now <= MaxTime, NEW drawn \in DrawnColl
               PROVE  userAcceptsFee(redemptionFee(drawn, DECIMAL_PRECISION, Supply), drawn,
                          clientRedemptionRate((drawn * DECIMAL_PRECISION) \div Supply, now))
    BY DEF QuotedRedemptionAccepted
  <2>1. TypeOK
    BY DEF FeesInv
  <2>2. minutesPassedSinceLastFeeOp <= MAX_MINUTES
    BY <2>1, MinutesBounded
  <2>3. drawn \in Nat /\ drawn > 0 /\ Supply \in Nat \ {0}
    BY FeesAssumption
  <2> DEFINE rate == rateAfterRedemption(drawn, DECIMAL_PRECISION, Supply)
             r == calcRedemptionRate(rate)
  <2>4. r = clientRedemptionRate((drawn * DECIMAL_PRECISION) \div Supply, now)
    BY <2>1, <2>2, <2>3, RedemptionRatesAgree
  <2>5. r \in 0..DECIMAL_PRECISION
    <3>1. rate \in 0..DECIMAL_PRECISION
      BY <2>1, <2>3, FeesType
    <3> HIDE DEF rate
    <3> QED BY <3>1, RateAssumption, DecPowAssumption DEF calcRedemptionRate, lesser
  <2>6. redemptionFee(drawn, DECIMAL_PRECISION, Supply) = (r * drawn) \div DECIMAL_PRECISION
    BY DEF redemptionFee, rateFee
  <2> HIDE DEF r
  <2>7. userAcceptsFee((r * drawn) \div DECIMAL_PRECISION, drawn, r)
    BY <2>3, <2>5, PartAccepted
  <2> QED BY <2>4, <2>6, <2>7
<1> QED BY <1>1, <1>2, <1>3, PTL

\* What the invariant says of quotes.  A redemption in this second left the
\* rate it set; a quote that no redemption followed is still high enough,
\* because nothing but a redemption raises the decayed rate.  A quote that was
\* made in this second, after a redemption in it, is also high enough for the
\* rate of that redemption: another one that sets the same rate in the same
\* second cannot be told from it.  Of a quote made in Recovery Mode nothing is
\* said but that it is not above the maximum: it is below every rate.
QuotesInv ==
    /\ now <= MaxTime
    /\ redeemed.time <= now
    /\ redeemed.time = now => calcDecayedBaseRate = redeemed.rate
    /\ quote # None =>
           /\ quote.rate \in 0..MAX_BORROWING_FEE
           /\ quote.redeemed.time <= now
           /\ ~quote.recovery =>
                  /\ BORROWING_FEE_FLOOR <= quote.rate
                  /\ quote.redeemed = redeemed
                         => calcBorrowingRate(calcDecayedBaseRate) <= quote.rate
                  /\ quote.redeemed.time = now
                         => calcBorrowingRate(quote.redeemed.rate) <= quote.rate

\* A rate after some minutes
decayed(rate, minutes) == (rate * decPow(MINUTE_DECAY_FACTOR, minutes)) \div DECIMAL_PRECISION

\* A rate decays with the minutes, and by nothing within the first.
LEMMA DecayedFalls ==
    ASSUME NEW rate \in Nat, NEW earlier \in Nat, NEW later \in Nat, earlier <= later
    PROVE  /\ decayed(rate, later) <= decayed(rate, earlier)
           /\ decayed(rate, 0) = rate
<1> DEFINE D == DECIMAL_PRECISION
           p == decPow(MINUTE_DECAY_FACTOR, earlier)
           q == decPow(MINUTE_DECAY_FACTOR, later)
<1>1. D \in Nat /\ D > 0 /\ MINUTE_DECAY_FACTOR \in 0..D
  BY DecPowAssumption, RateAssumption
<1>2. p \in 0..D /\ q \in 0..D
  BY <1>1, DecPowFraction
<1>3. q <= p
  BY <1>1, DecPowFalls
<1>4. decayed(rate, earlier) = (rate * p) \div D /\ decayed(rate, later) = (rate * q) \div D
  BY DEF decayed
<1>5. decPow(MINUTE_DECAY_FACTOR, 0) = D
  BY DecPowAssumption DEF decPow
<1>6. decayed(rate, 0) = (rate * D) \div D
  BY <1>5 DEF decayed
<1> HIDE DEF p, q, D
<1> DEFINE x == rate * p
           y == rate * q
           z == D * rate
<1>7. p \in Nat /\ q \in Nat
  BY <1>1, <1>2
<1>8. x \in Nat /\ y \in Nat /\ y <= x
  BY <1>3, <1>7
<1>9. z \in Nat /\ z = rate * D
  BY <1>1
<1>10. z \div D = rate
  <2>1. z \div D \in Int /\ D * (z \div D) <= z /\ z < D * (z \div D) + D
    <3> HIDE DEF z
    <3> QED BY <1>1, <1>9, QuotientBounds
  <2> DEFINE k == z \div D
  <2>2. k <= rate
    <3>1. z < D * rate + D
      BY <1>1
    <3> HIDE DEF z
    <3> QED BY <1>1, <1>9, <3>1, QuotientGreatest
  <2>3. rate <= k
    <3>1. D * rate < D * k + D
      BY <2>1
    <3> HIDE DEF k
    <3>2. k \in Int
      BY <2>1 DEF k
    <3> SUFFICES ASSUME k + 1 <= rate PROVE FALSE
      BY <3>2
    <3>3. D * (k + 1) <= D * rate
      BY <1>1, <3>2
    <3> QED BY <1>1, <3>1, <3>2, <3>3
  <2> QED BY <2>1, <2>2, <2>3
<1> HIDE DEF x, y
<1>11. y \div D <= x \div D
  BY <1>1, <1>8
<1> QED BY <1>4, <1>6, <1>9, <1>10, <1>11 DEF x, y

\* An operation sets the rate of this second: the clock is restarted now or
\* was within the last minute.
LEMMA OperationSetsRate ==
    ASSUME TypeOK, NEW rate \in Nat, baseRate' = rate,
           lastFeeOperationTime' = updateLastFeeOpTime, now' = now
    PROVE  calcDecayedBaseRate' = rate
<1> DEFINE S == SECONDS_IN_ONE_MINUTE
           t == now - lastFeeOperationTime'
<1>1. S \in Nat /\ S > 0
  BY RateAssumption
<1>2. t \in Nat /\ t < S
  BY <1>1 DEF TypeOK, updateLastFeeOpTime
<1> HIDE DEF t, S
<1>3. t \div S = 0
  BY <1>1, <1>2
<1>4. minutesPassedSinceLastFeeOp' = 0
  BY <1>3 DEF minutesPassedSinceLastFeeOp, t, S
<1>5. calcDecayedBaseRate' = decayed(rate, 0)
  BY <1>4 DEF calcDecayedBaseRate, decayed
<1>6. decayed(rate, 0) = rate
  <2>1. 0 \in Nat /\ 0 <= 0
    OBVIOUS
  <2> QED BY <2>1, DecayedFalls
<1> QED BY <1>5, <1>6

\* A second does not raise the rate.
LEMMA TickLowersRate ==
    ASSUME TypeOK, Tick
    PROVE  calcDecayedBaseRate' <= calcDecayedBaseRate
<1> DEFINE S == SECONDS_IN_ONE_MINUTE
           t == now - lastFeeOperationTime
           m == t \div S
           n == (t + 1) \div S
<1>1. S \in Nat /\ S > 0
  BY RateAssumption
<1>2. t \in Nat /\ now' - lastFeeOperationTime' = t + 1 /\ baseRate' = baseRate
  BY DEF TypeOK, Tick, secondPasses
<1>3. minutesPassedSinceLastFeeOp = m /\ minutesPassedSinceLastFeeOp' = n
  BY <1>2 DEF minutesPassedSinceLastFeeOp
<1> HIDE DEF t, S
<1>4. m \in Nat /\ n \in Nat /\ m <= n
  BY <1>1, <1>2
<1>5. baseRate \in Nat
  BY DecPowAssumption DEF TypeOK
<1> HIDE DEF m, n
<1>6. decayed(baseRate, n) <= decayed(baseRate, m)
  BY <1>4, <1>5, DecayedFalls
<1>7. calcDecayedBaseRate = decayed(baseRate, m) /\ calcDecayedBaseRate' = decayed(baseRate, n)
  BY <1>2, <1>3 DEF calcDecayedBaseRate, decayed
<1> QED BY <1>6, <1>7

\* A higher rate is a higher fee rate, between the floor and the maximum.
LEMMA BorrowingRateGrows ==
    ASSUME NEW low \in Nat, NEW high \in Nat, low <= high
    PROVE  /\ calcBorrowingRate(low) <= calcBorrowingRate(high)
           /\ calcBorrowingRate(low) \in BORROWING_FEE_FLOOR..MAX_BORROWING_FEE
  BY RateAssumption, DecPowAssumption DEF calcBorrowingRate, lesser

\* In the initial state there is no rate and no quote.
LEMMA InitQuotes == Init => QuotesInv
<1> SUFFICES ASSUME Init PROVE QuotesInv
  OBVIOUS
<1>1. now = 0 /\ baseRate = 0 /\ lastFeeOperationTime = 0 /\ quote = None
      /\ redeemed = [rate |-> 0, time |-> 0]
  BY DEF Init
<1>2. TypeOK
  BY InitFees DEF FeesInv
<1>3. calcDecayedBaseRate = 0
  BY <1>1, <1>2, DecayedRateType
<1> QED BY <1>1, <1>3, ClockAssumption DEF QuotesInv

\* A step in which no second passes, after which the decayed rate is what it
\* was, and which makes no quote and no redemption, keeps the quotes high
\* enough.
LEMMA SameRateKeepsQuotes ==
    ASSUME QuotesInv, now' = now, redeemed' = redeemed, quote' \in {quote, None},
           calcDecayedBaseRate' = calcDecayedBaseRate
    PROVE  QuotesInv'
<1>1. calcBorrowingRate(calcDecayedBaseRate)' = calcBorrowingRate(calcDecayedBaseRate)
  BY DEF calcBorrowingRate
<1> QED BY <1>1 DEF QuotesInv

\* Every step keeps the quotes high enough.
LEMMA NextQuotes ==
    ASSUME MaxTime <= MAX_MINUTES * SECONDS_IN_ONE_MINUTE,
           FeesInv, QuotesInv, [Next]_vars
    PROVE  QuotesInv'
<1> DEFINE r == calcDecayedBaseRate
<1>1. TypeOK /\ redeemed \in [rate : Nat, time : Nat] /\ now \in Nat
  BY DEF FeesInv, TypeOK
<1>2. baseRate \in Nat /\ r \in Nat
  BY <1>1, DecayedRateType, DecPowAssumption DEF TypeOK
<1>3. ASSUME UNCHANGED rateVars PROVE QuotesInv'
  <2>1. r' = r
    BY <1>3 DEF rateVars, calcDecayedBaseRate, minutesPassedSinceLastFeeOp
  <2> QED BY <1>3, <2>1, SameRateKeepsQuotes DEF rateVars
<1>4. ASSUME decayBaseRate, now' = now, redeemed' = redeemed, quote' \in {quote, None}
      PROVE  QuotesInv'
  <2>1. baseRate' = r /\ lastFeeOperationTime' = updateLastFeeOpTime
    BY <1>4 DEF decayBaseRate
  <2> HIDE DEF r
  <2>2. r' = r
    BY <1>1, <1>2, <1>4, <2>1, OperationSetsRate DEF r
  <2> QED BY <1>4, <2>2, SameRateKeepsQuotes DEF r
<1>5. ASSUME NEW amount, NEW max, chargeFee(amount, max),
              now' = now, redeemed' = redeemed, quote' \in {quote, None}
       PROVE  QuotesInv'
  <2>1. CASE recoveryMode
    <3>1. r' = r
      BY <1>5, <2>1 DEF chargeFee, calcDecayedBaseRate, minutesPassedSinceLastFeeOp
    <3> QED BY <1>5, <3>1, SameRateKeepsQuotes
  <2>2. CASE ~recoveryMode
    BY <1>4, <1>5, <2>2 DEF chargeFee, triggerBorrowingFee
  <2> QED BY <2>1, <2>2
<1>6. CASE modeChanges
  <2>1. UNCHANGED <<now, baseRate, lastFeeOperationTime, quote, redeemed>>
    BY <1>6 DEF modeChanges
  <2>2. r' = r
    BY <2>1 DEF calcDecayedBaseRate, minutesPassedSinceLastFeeOp
  <2> QED BY <2>1, <2>2, SameRateKeepsQuotes
<1>7. CASE Tick
  <2>1. r' <= r
    BY <1>1, <1>7, TickLowersRate
  <2>2. /\ now' = now + 1 /\ now' <= MaxTime
        /\ redeemed' = redeemed /\ quote' = quote
    <3>1. MaxTime \in Nat
      BY ClockAssumption
    <3> QED BY <1>1, <1>7, <3>1 DEF Tick, secondPasses
  <2>3. TypeOK'
    BY NextFees DEF FeesInv
  <2>4. r' \in Nat
    <3>1. (TypeOK => calcDecayedBaseRate \in 0..baseRate)'
      BY DecayedRateType, PTL
    <3>2. baseRate' \in Nat
      BY <2>3, DecPowAssumption DEF TypeOK
    <3> QED BY <2>3, <3>1, <3>2
  <2>5. calcBorrowingRate(r') <= calcBorrowingRate(r)
    <3> HIDE DEF r
    <3> QED BY <1>2, <2>1, <2>4, BorrowingRateGrows
  <2>6. calcBorrowingRate(r) \in Int /\ calcBorrowingRate(r') \in Int
    <3> HIDE DEF r
    <3> QED BY <1>2, <2>4, BorrowingRateGrows, RateAssumption, DecPowAssumption
  <2>7. redeemed.time <= now' /\ redeemed.time # now'
    BY <1>1, <2>2 DEF QuotesInv
  <2>8. ASSUME quote # None
        PROVE  /\ quote.rate \in 0..MAX_BORROWING_FEE
               /\ quote.redeemed.time <= now' /\ quote.redeemed.time # now'
               /\ ~quote.recovery =>
                      /\ BORROWING_FEE_FLOOR <= quote.rate
                      /\ quote.redeemed = redeemed => calcBorrowingRate(r') <= quote.rate
    <3>1. /\ quote.rate \in 0..MAX_BORROWING_FEE
          /\ quote.redeemed.time <= now
          /\ ~quote.recovery =>
                 /\ BORROWING_FEE_FLOOR <= quote.rate
                 /\ quote.redeemed = redeemed => calcBorrowingRate(r) <= quote.rate
      BY <2>8 DEF QuotesInv
    <3>2. quote.rate \in Int
      BY <3>1, RateAssumption, DecPowAssumption
    <3>3. quote.redeemed.time \in Nat
      BY <2>8 DEF FeesInv, TypeOK
    <3> HIDE DEF r
    <3> QED BY <1>1, <2>2, <2>5, <2>6, <3>1, <3>2, <3>3
  <2>9. calcBorrowingRate(calcDecayedBaseRate)' = calcBorrowingRate(r')
    BY DEF calcBorrowingRate
  <2> QED BY <2>2, <2>7, <2>8, <2>9 DEF QuotesInv
<1>8. CASE quoteFee
  <2>1. /\ UNCHANGED <<now, baseRate, lastFeeOperationTime, redeemed>>
        /\ quote' = [rate |-> clientBorrowingRate(now), recovery |-> recoveryMode,
                     redeemed |-> redeemed]
    BY <1>8 DEF quoteFee
  <2>2. r' = r
    BY <2>1 DEF calcDecayedBaseRate, minutesPassedSinceLastFeeOp
  <2>3. quote'.redeemed.time <= now /\ quote'.recovery = recoveryMode
    BY <2>1 DEF QuotesInv
  <2>4. CASE recoveryMode
    <3>1. quote'.rate = 0 /\ 0 \in 0..MAX_BORROWING_FEE
      BY <2>1, <2>4, RateAssumption, DecPowAssumption DEF clientBorrowingRate
    <3> QED BY <2>1, <2>2, <2>3, <2>4, <3>1 DEF QuotesInv
  <2>5. ASSUME ~recoveryMode PROVE QuotesInv'
    <3>1. clientBaseRate(now) = r
      <4>1. minutesPassedSinceLastFeeOp <= MAX_MINUTES
        BY <1>1, MinutesBounded DEF QuotesInv
      <4> QED BY <1>1, <4>1, ClientRateAgrees
    <3>2. clientBorrowingRate(now) = calcBorrowingRate(r)
      BY <2>5, <3>1 DEF clientBorrowingRate, calcBorrowingRate
    <3> HIDE DEF r
    <3>3. calcBorrowingRate(r) \in BORROWING_FEE_FLOOR..MAX_BORROWING_FEE
      BY <1>2, BorrowingRateGrows
    <3>4. quote'.rate = calcBorrowingRate(r)
      BY <2>1, <3>2
    <3>5. quote'.rate \in 0..MAX_BORROWING_FEE /\ BORROWING_FEE_FLOOR <= quote'.rate
      BY <3>3, <3>4, RateAssumption, DecPowAssumption
    <3>6. calcBorrowingRate(r') <= quote'.rate
      <4>1. calcBorrowingRate(r) \in Int
        BY <3>3, RateAssumption, DecPowAssumption
      <4> QED BY <2>2, <3>4, <4>1
    <3>7. calcBorrowingRate(calcDecayedBaseRate)' = calcBorrowingRate(r')
      BY DEF calcBorrowingRate, r
    <3>8. ASSUME quote'.redeemed.time = now
          PROVE  calcBorrowingRate(quote'.redeemed.rate) <= quote'.rate
      <4>1. redeemed.rate = r
        BY <2>1, <3>8 DEF QuotesInv, r
      <4> QED BY <2>1, <2>2, <3>6, <4>1
    <3> QED BY <2>1, <2>2, <2>3, <3>5, <3>6, <3>7, <3>8 DEF QuotesInv, r, calcBorrowingRate
  <2> QED BY <2>4, <2>5
<1>9. ASSUME NEW amount \in BorrowAmounts, borrow(amount) PROVE QuotesInv'
  BY <1>9, <1>5 DEF borrow
<1>10. ASSUME NEW amount \in BorrowAmounts, borrowQuoted(amount) PROVE QuotesInv'
  BY <1>10, <1>5 DEF borrowQuoted
<1>11. ASSUME NEW drawn \in DrawnColl, redeem(drawn) PROVE QuotesInv'
  <2> DEFINE rate == rateAfterRedemption(drawn, DECIMAL_PRECISION, Supply)
  <2>1. /\ now' = now /\ quote' = quote
        /\ baseRate' = rate /\ lastFeeOperationTime' = updateLastFeeOpTime
        /\ redeemed' = [rate |-> rate, time |-> now]
    BY <1>11 DEF redeem, updateBaseRateFromRedemption
  <2>2. rate \in Nat
    <3>1. drawn \in Nat /\ Supply \in Nat \ {0}
      BY FeesAssumption
    <3> QED BY <1>1, <3>1, FeesType, DecPowAssumption
  <2> HIDE DEF rate, r
  <2>3. r' = rate
    BY <1>1, <2>1, <2>2, OperationSetsRate DEF r
  <2>4. redeemed'.time = now /\ redeemed'.rate = rate
    BY <2>1
  <2>5. ASSUME quote # None
        PROVE  /\ quote.rate \in 0..MAX_BORROWING_FEE
               /\ quote.redeemed.time <= now
               /\ ~quote.recovery =>
                      /\ BORROWING_FEE_FLOOR <= quote.rate
                      /\ quote.redeemed = redeemed' => calcBorrowingRate(r') <= quote.rate
                      /\ quote.redeemed.time = now
                             => calcBorrowingRate(quote.redeemed.rate) <= quote.rate
    <3>1. /\ quote.rate \in 0..MAX_BORROWING_FEE
          /\ quote.redeemed.time <= now
          /\ ~quote.recovery =>
                 /\ BORROWING_FEE_FLOOR <= quote.rate
                 /\ quote.redeemed.time = now
                        => calcBorrowingRate(quote.redeemed.rate) <= quote.rate
      BY <2>5 DEF QuotesInv
    <3> QED BY <2>3, <2>4, <3>1
  <2> QED BY <1>1, <2>1, <2>3, <2>4, <2>5 DEF QuotesInv, r, calcBorrowingRate
<1>12. CASE stakeDEFT
  BY <1>3, <1>12 DEF stakeDEFT
<1>13. CASE unstakeDEFT
  BY <1>3, <1>13 DEF unstakeDEFT
<1>14. CASE UNCHANGED vars
  BY <1>3, <1>14 DEF vars
<1> QED BY <1>7, <1>8, <1>9, <1>10, <1>11, <1>12, <1>13, <1>14, <1>6
  DEF Next

\* The contract's fee is accepted with every maximum that is not below its rate.
LEMMA HighMaximumAccepted ==
    ASSUME TypeOK, NEW amount \in BorrowAmounts, NEW max \in Int,
           calcBorrowingRate(calcDecayedBaseRate) <= max
    PROVE  userAcceptsFee(borrowingFee(amount), amount, max)
<1> DEFINE D == DECIMAL_PRECISION
           r == calcBorrowingRate(calcDecayedBaseRate)
           fee == (r * amount) \div D
<1>1. D \in Nat /\ amount \in Nat /\ amount > 0
  BY DecPowAssumption, FeesAssumption
<1>2. r \in 0..D
  <2>1. calcDecayedBaseRate \in Nat
    BY DecayedRateType, DecPowAssumption DEF TypeOK
  <2>2. r \in BORROWING_FEE_FLOOR..MAX_BORROWING_FEE
    BY <2>1, BorrowingRateGrows
  <2> HIDE DEF r
  <2> QED BY <2>2, RateAssumption, DecPowAssumption
<1>3. borrowingFee(amount) = fee
  BY DEF borrowingFee, rateFee
<1>4. userAcceptsFee(fee, amount, r)
  <2> HIDE DEF r
  <2> QED BY <1>1, <1>2, PartAccepted
<1>5. fee \in 0..amount
  <2> HIDE DEF r
  <2> QED BY <1>1, <1>2, PartType
<1>6. r <= max
  OBVIOUS
<1> HIDE DEF r, fee
<1> DEFINE x == fee * D
<1>7. x \in Nat
  BY <1>1, <1>5
<1>8. x \div amount <= r
  BY <1>4 DEF userAcceptsFee
<1>9. x \div amount \in Int /\ r \in Int
  <2> HIDE DEF x
  <2> QED BY <1>1, <1>2, <1>7
<1>10. x \div amount <= max
  <2> HIDE DEF x
  <2> QED BY <1>6, <1>8, <1>9
<1> QED BY <1>3, <1>10 DEF userAcceptsFee

\* A quote that no redemption followed is accepted, as far as its mode allows.
LEMMA HighQuoteAccepted == FeesInv /\ QuotesInv => QuotedFeeAccepted
<1> SUFFICES ASSUME FeesInv, QuotesInv, quote # None, quote.redeemed = redeemed,
                    NEW amount \in BorrowAmounts
             PROVE  IF ~quote.recovery
                    THEN /\ userAcceptsFee(borrowingFee(amount), amount, quote.rate)
                         /\ validMaxFee(quote.rate + SLIPPAGE)
                    ELSE (recoveryMode \/ calcBorrowingRate(calcDecayedBaseRate) <= SLIPPAGE)
                             => acceptsFee(amount, quote.rate + SLIPPAGE)
  BY DEF QuotedFeeAccepted
<1> DEFINE r == calcBorrowingRate(calcDecayedBaseRate)
<1>1. TypeOK
  BY DEF FeesInv
<1>2. quote.rate \in 0..MAX_BORROWING_FEE /\ quote.rate \in Int
  BY RateAssumption, DecPowAssumption DEF QuotesInv
<1>3. r \in BORROWING_FEE_FLOOR..MAX_BORROWING_FEE
  <2>1. calcDecayedBaseRate \in Nat
    BY <1>1, DecayedRateType, DecPowAssumption DEF TypeOK
  <2> QED BY <2>1, BorrowingRateGrows
<1>4. quote.rate + SLIPPAGE \in Int /\ quote.rate + SLIPPAGE <= DECIMAL_PRECISION
  BY <1>2, RateAssumption, DecPowAssumption
<1>5. CASE ~quote.recovery
  <2>1. BORROWING_FEE_FLOOR <= quote.rate /\ r <= quote.rate
    BY <1>5 DEF QuotesInv
  <2>2. userAcceptsFee(borrowingFee(amount), amount, quote.rate)
    BY <1>1, <1>2, <2>1, HighMaximumAccepted
  <2>3. validMaxFee(quote.rate + SLIPPAGE)
    BY <1>2, <1>4, <2>1, RateAssumption, DecPowAssumption DEF validMaxFee
  <2> QED BY <1>5, <2>2, <2>3
<1>6. CASE quote.recovery
  <2> SUFFICES ASSUME recoveryMode \/ r <= SLIPPAGE
               PROVE  acceptsFee(amount, quote.rate + SLIPPAGE)
    BY <1>6
  <2>1. CASE recoveryMode
    BY <1>4, <2>1 DEF acceptsFee, validMaxFee
  <2>2. CASE r <= SLIPPAGE
    <3> HIDE DEF r
    <3>1. r <= quote.rate + SLIPPAGE /\ BORROWING_FEE_FLOOR <= quote.rate + SLIPPAGE
      BY <1>2, <1>3, <2>2, RateAssumption, DecPowAssumption
    <3>2. userAcceptsFee(borrowingFee(amount), amount, quote.rate + SLIPPAGE)
      BY <1>1, <1>4, <3>1, HighMaximumAccepted DEF r
    <3> QED BY <1>4, <3>1, <3>2 DEF acceptsFee, validMaxFee
  <2> QED BY <2>1, <2>2
<1> QED BY <1>5, <1>6

\* The maximum fee that the client quotes is not the reason for which a
\* transaction is refused: a quote for a loan made in Normal Mode holds through
\* every delay, every change of mode and all transactions but redemptions, one
\* made in Recovery Mode as long as that mode lasts and once the rate is within
\* the tolerance, and one for a redemption in the next block.
THEOREM QuotesAreAccepted ==
    ASSUME MaxTime <= MAX_MINUTES * SECONDS_IN_ONE_MINUTE
    PROVE  Spec => []QuotesAccepted
<1>1. Spec => []FeesInv
  BY InitFees, NextFees, PTL DEF Spec
<1>2. FeesInv /\ QuotesInv /\ [Next]_vars => QuotesInv'
  BY NextQuotes
<1>3. Spec => []QuotesInv
  BY <1>1, <1>2, InitQuotes, PTL DEF Spec
<1>4. Spec => []QuotedFeeAccepted
  BY <1>1, <1>3, HighQuoteAccepted, PTL
<1>5. Spec => []QuotedRedemptionAccepted
  BY RedemptionQuotesAccepted
<1>6. QuotedFeeAccepted /\ QuotedRedemptionAccepted => QuotesAccepted
  BY DEF QuotesAccepted
<1> QED BY <1>4, <1>5, <1>6, PTL

-----------------------------------------------------------------------------
(* The issuance of DEFT *)

\* What the curve has issued by a time is a part of the cap, and it never
\* falls.
LEMMA IssuanceCurve ==
    ASSUME DEFTSupplyCap \in Nat, startTime \in Nat,
           NEW early \in Nat, NEW late \in Nat, startTime <= early, early <= late
    PROVE  /\ latestTotalDEFTIssued(early) \in 0..DEFTSupplyCap
           /\ latestTotalDEFTIssued(late) \in 0..DEFTSupplyCap
           /\ latestTotalDEFTIssued(early) <= latestTotalDEFTIssued(late)
<1> DEFINE D == DECIMAL_PRECISION
           C == DEFTSupplyCap
           minutes(t) == (t - startTime) \div ISSUANCE_MINUTE
           p(t) == decPow(ISSUANCE_FACTOR, minutes(t))
           e == D - p(early)
           l == D - p(late)
<1>1. D \in Nat /\ D > 0 /\ ISSUANCE_FACTOR \in 0..D
  BY DecPowAssumption, IssuanceAssumption
<1>2. minutes(early) \in Nat /\ minutes(late) \in Nat /\ minutes(early) <= minutes(late)
  <2> DEFINE M == ISSUANCE_MINUTE
             a == early - startTime
             b == late - startTime
  <2>1. M \in Nat /\ M > 0 /\ a \in Nat /\ b \in Nat /\ a <= b
    BY IssuanceAssumption
  <2> HIDE DEF M, a, b
  <2>2. a \div M \in Nat /\ b \div M \in Nat /\ a \div M <= b \div M
    BY <2>1
  <2> QED BY <2>2 DEF a, b, M
<1> HIDE DEF minutes
<1>3. p(early) \in 0..D /\ p(late) \in 0..D /\ p(late) <= p(early)
  BY <1>1, <1>2, DecPowFraction, DecPowFalls
<1>4. latestTotalDEFTIssued(early) = (C * e) \div D /\ latestTotalDEFTIssued(late) = (C * l) \div D
  BY DEF latestTotalDEFTIssued, getCumulativeIssuanceFraction, minutes
<1> HIDE DEF p
<1>5. e \in 0..D /\ l \in 0..D /\ e <= l
  BY <1>1, <1>3
<1> HIDE DEF e, l
<1> DEFINE x == C * e
           y == C * l
<1>6. x \in Nat /\ y \in Nat /\ x <= y /\ x = e * C /\ y = l * C
  <2>1. e \in Nat /\ l \in Nat
    BY <1>1, <1>5
  <2>2. C * e <= C * l
    BY <1>5, <2>1
  <2> QED BY <2>1, <2>2
<1>7. x \div D \in 0..C /\ y \div D \in 0..C
  BY <1>5, <1>6, PartType
<1>8. x \div D <= y \div D
  <2> HIDE DEF x, y, D
  <2> QED BY <1>1, <1>6
<1> QED BY <1>4, <1>7, <1>8

\* The same of the present, as a formula.
LEMMA CurveNow ==
    /\ DEFTSupplyCap \in Nat /\ startTime \in Nat /\ now \in Nat /\ startTime <= now
    => latestTotalDEFTIssued(now) \in 0..DEFTSupplyCap
  BY IssuanceCurve

\* What is issued so far is on or below the curve, and the contract owns what
\* it has issued and not sent and all it will issue.
IssuanceInv ==
    /\ now \in Nat /\ now > 0
    /\ DEFTSupplyCap \in Nat
    /\ startTime \in 0..now
    /\ totalDEFTIssued \in 0..DEFTSupplyCap
    /\ deftOfIssuance \in Nat
    /\ issuedToPool \in Int
    /\ startTime = 0 => DEFTSupplyCap = 0 /\ issuedToPool = 0
    /\ startTime > 0 => totalDEFTIssued <= latestTotalDEFTIssued(now)
    /\ issuedToPool + (DEFTSupplyCap - totalDEFTIssued) <= deftOfIssuance

\* A step that leaves the contract alone keeps it, also when time passes.
LEMMA IssuanceUnchanged ==
    ASSUME IssuanceInv, UNCHANGED issuanceVars, now' \in {now, now + 1}
    PROVE  IssuanceInv'
<1>1. UNCHANGED <<DEFTSupplyCap, startTime, totalDEFTIssued, deftOfIssuance, issuedToPool>>
  BY DEF issuanceVars
<1>2. now' \in Nat /\ now <= now' /\ now' > 0
  BY DEF IssuanceInv
<1>3. ASSUME startTime > 0 PROVE latestTotalDEFTIssued(now)' >= totalDEFTIssued
  <2>1. latestTotalDEFTIssued(now)' = latestTotalDEFTIssued(now')
    BY <1>1 DEF latestTotalDEFTIssued, getCumulativeIssuanceFraction
  <2>2. now \in Nat /\ startTime \in Nat /\ startTime <= now /\ DEFTSupplyCap \in Nat
    BY DEF IssuanceInv
  <2>3. /\ latestTotalDEFTIssued(now) <= latestTotalDEFTIssued(now')
        /\ latestTotalDEFTIssued(now) \in Int /\ latestTotalDEFTIssued(now') \in Int
    BY <1>2, <2>2, IssuanceCurve
  <2>4. totalDEFTIssued \in Int /\ totalDEFTIssued <= latestTotalDEFTIssued(now)
    BY <1>3 DEF IssuanceInv
  <2> QED BY <2>1, <2>3, <2>4
<1>4. startTime \in 0..now'
  BY <1>2 DEF IssuanceInv
<1>5. startTime # 0 =>
          totalDEFTIssued \in Int /\ latestTotalDEFTIssued(now)' \in Int
  <2> SUFFICES ASSUME startTime # 0
               PROVE  totalDEFTIssued \in Int /\ latestTotalDEFTIssued(now)' \in Int
    OBVIOUS
  <2>1. latestTotalDEFTIssued(now)' = latestTotalDEFTIssued(now')
    BY <1>1 DEF latestTotalDEFTIssued, getCumulativeIssuanceFraction
  <2>2. startTime \in Nat /\ startTime <= now' /\ DEFTSupplyCap \in Nat
    BY <1>2 DEF IssuanceInv
  <2>3. latestTotalDEFTIssued(now') \in 0..DEFTSupplyCap
    BY <1>2, <2>2, IssuanceCurve
  <2> QED BY <2>1, <2>2, <2>3 DEF IssuanceInv
<1> QED BY <1>1, <1>2, <1>3, <1>4, <1>5 DEF IssuanceInv

\* The start sets the cap to what the contract owns at most.
LEMMA StartKeepsIssuance ==
    ASSUME IssuanceInv, startIssuing
    PROVE  IssuanceInv'
<1>1. /\ IssuanceDEFT > 0 /\ IssuanceDEFT <= deftOfIssuance /\ startTime = 0
      /\ DEFTSupplyCap' = IssuanceDEFT /\ startTime' = now /\ now' = now
      /\ UNCHANGED <<totalDEFTIssued, deftOfIssuance, issuedToPool>>
  BY DEF startIssuing, startIssuance
<1>2. /\ now \in Nat /\ now > 0 /\ deftOfIssuance \in Nat /\ IssuanceDEFT \in Nat
      /\ totalDEFTIssued = 0 /\ issuedToPool = 0
  BY <1>1, RewardsAssumption DEF IssuanceInv
<1>3. latestTotalDEFTIssued(now)' \in 0..DEFTSupplyCap'
  <2>1. (/\ DEFTSupplyCap \in Nat /\ startTime \in Nat /\ now \in Nat /\ startTime <= now
         => latestTotalDEFTIssued(now) \in 0..DEFTSupplyCap)'
    BY CurveNow, PTL
  <2>2. DEFTSupplyCap' \in Nat /\ startTime' \in Nat /\ now' \in Nat /\ startTime' <= now'
    BY <1>1, <1>2
  <2> QED BY <2>1, <2>2
<1> QED BY <1>1, <1>2, <1>3 DEF IssuanceInv

\* What is issued moves from the future of the curve to the pool, and what is
\* sent leaves both the pool's account and the contract.
LEMMA IssueKeepsIssuance ==
    ASSUME IssuanceInv, issue
    PROVE  IssuanceInv'
<1> DEFINE L == latestTotalDEFTIssued(now)
<1>1. now' = now /\ now \in Nat /\ now > 0
  BY DEF issue, IssuanceInv
<1>2. /\ DEFTSupplyCap \in Nat /\ startTime \in Nat /\ startTime <= now
      /\ totalDEFTIssued \in Nat /\ deftOfIssuance \in Nat /\ issuedToPool \in Int
      /\ issuedToPool + (DEFTSupplyCap - totalDEFTIssued) <= deftOfIssuance
  BY DEF IssuanceInv
<1>3. L \in 0..DEFTSupplyCap
  BY <1>1, <1>2, IssuanceCurve
<1>4. ASSUME UNCHANGED <<DEFTSupplyCap, startTime>>
      PROVE  latestTotalDEFTIssued(now)' = L
  BY <1>1, <1>4 DEF latestTotalDEFTIssued, getCumulativeIssuanceFraction
<1>5. CASE issueDEFT(now)
  <2>1. /\ startTime > 0 /\ L >= totalDEFTIssued /\ totalDEFTIssued' = L
        /\ issuedToPool' = issuedToPool + (L - totalDEFTIssued)
        /\ UNCHANGED <<DEFTSupplyCap, startTime, deftOfIssuance>>
    BY <1>5 DEF issueDEFT
  <2>2. latestTotalDEFTIssued(now)' = L
    BY <1>4, <2>1
  <2> HIDE DEF L
  <2> QED BY <1>1, <1>2, <1>3, <2>1, <2>2 DEF IssuanceInv
<1>6. ASSUME NEW amount \in SendAmounts, sendDEFT(amount) PROVE IssuanceInv'
  <2>1. /\ startTime > 0 /\ amount <= deftOfIssuance
        /\ issuedToPool' = issuedToPool - amount
        /\ deftOfIssuance' = deftOfIssuance - amount
        /\ UNCHANGED <<DEFTSupplyCap, startTime, totalDEFTIssued>>
    BY <1>6 DEF sendDEFT
  <2>2. latestTotalDEFTIssued(now)' = L /\ totalDEFTIssued <= L /\ amount \in Nat
    BY <1>4, <2>1, RewardsAssumption DEF IssuanceInv
  <2>3. totalDEFTIssued \in 0..DEFTSupplyCap /\ startTime \in 0..now
    BY DEF IssuanceInv
  <2> HIDE DEF L
  <2> QED BY <1>1, <1>2, <1>3, <2>1, <2>2, <2>3 DEF IssuanceInv
<1> QED BY <1>5, <1>6 DEF issue

\* Nothing is issued at first.
LEMMA InitIssuance == RewardsInit => IssuanceInv
  BY RewardsAssumption DEF RewardsInit, IssuanceInit, IssuanceInv

\* Every step keeps the issuance on its curve.
LEMMA NextIssuance == IssuanceInv /\ [RewardsNext]_rewardsVars => IssuanceInv'
<1> SUFFICES ASSUME IssuanceInv, [RewardsNext]_rewardsVars PROVE IssuanceInv'
  OBVIOUS
<1>1. CASE wait
  BY <1>1, IssuanceUnchanged DEF wait, secondPasses
<1>2. CASE startPool
  BY <1>2, IssuanceUnchanged DEF startPool
<1>3. CASE provide
  BY <1>3, IssuanceUnchanged DEF provide
<1>4. CASE startIssuing
  BY <1>4, StartKeepsIssuance
<1>5. CASE issue
  BY <1>5, IssueKeepsIssuance
<1>6. CASE UNCHANGED rewardsVars
  BY <1>6, IssuanceUnchanged DEF rewardsVars
<1> QED BY <1>1, <1>2, <1>3, <1>4, <1>5, <1>6 DEF RewardsNext

\* CommunityIssuance.issueDEFT never reverts: what the curve has issued by now
\* is at least what was issued and at most the cap, and the contract owns what
\* it has still to send.
THEOREM IssuanceAlwaysPossible == RewardsSpec => []IssuanceNeverReverts
<1>1. IssuanceInv => IssuanceNeverReverts
  <2> SUFFICES ASSUME IssuanceInv, startTime > 0
               PROVE  /\ latestTotalDEFTIssued(now) \in totalDEFTIssued..DEFTSupplyCap
                      /\ issuedToPool + (latestTotalDEFTIssued(now) - totalDEFTIssued)
                             <= deftOfIssuance
    BY DEF IssuanceNeverReverts
  <2> DEFINE L == latestTotalDEFTIssued(now)
  <2>1. /\ now \in Nat /\ DEFTSupplyCap \in Nat /\ startTime \in Nat /\ startTime <= now
        /\ totalDEFTIssued \in Nat /\ totalDEFTIssued <= L
        /\ deftOfIssuance \in Nat /\ issuedToPool \in Int
        /\ issuedToPool + (DEFTSupplyCap - totalDEFTIssued) <= deftOfIssuance
    BY DEF IssuanceInv
  <2>2. L \in 0..DEFTSupplyCap
    BY <2>1, IssuanceCurve
  <2> HIDE DEF L
  <2> QED BY <2>1, <2>2 DEF L
<1> QED BY <1>1, InitIssuance, NextIssuance, PTL DEF RewardsSpec

-----------------------------------------------------------------------------
(* The rewards of the liquidity providers.  As with the stakers, what is   *)
(* conserved are the claims before the division by the unit.               *)

\* What the providers can claim at a reward per token
claimsAt(perTok) ==
    [a \in Providers |->
        balanceOf[a] * (perTok - userRewardPerTokenPaid[a]) + UNIT * rewards[a]]

\* All claims as of the last update
claimed == SumFunction(claimsAt(rewardPerTokenStored))

\* What the rest of the period pays, as of the last update
pending == UNIT * (rewardRate * (periodFinish - lastUpdateTime))

\* All liquidity tokens there are
allTokens == UniBalance * Cardinality(Providers)

\* The most that an operation can lose to rounding, in parts of the unit
opLoss == allTokens + UNIT * Cardinality(Providers)

\* Nothing happens before the start.
UntouchedUntilStart ==
    periodFinish = 0 =>
        /\ deftBalance = PoolDEFT
        /\ rewardRate = 0
        /\ rewardPerTokenStored = 0
        /\ totalSupply = 0
        /\ \A a \in Providers : balanceOf[a] = 0 /\ rewards[a] = 0

\* The claims and the rest of the period are paid from what the contract owns.
ClaimsHeld == claimed + pending <= UNIT * deftBalance

\* What the contract owns beyond the remainder of reward / duration is claimed
\* or pending, but for the rounding of the operations so far.
NothingElseHeld ==
    periodFinish > 0 =>
        UNIT * (deftBalance - (PoolDEFT - rewardRate * duration))
            <= claimed + pending + ops * opLoss

UnipoolInv ==
    /\ now \in Nat /\ ops \in Nat
    /\ UnipoolTypeOK
    /\ totalSupply = SumFunction(balanceOf)
    /\ UntouchedUntilStart
    /\ ClaimsHeld
    /\ NothingElseHeld

\* No more tokens are staked than there are.
LEMMA SupplyBounded ==
    ASSUME UnipoolTypeOK, totalSupply = SumFunction(balanceOf)
    PROVE  /\ totalSupply \in Nat /\ allTokens \in Nat /\ totalSupply <= allTokens
           /\ Cardinality(Providers) \in Nat
           /\ \A a \in Providers : balanceOf[a] <= totalSupply
<1> DEFINE zero == [a \in Providers |-> 0]
           one == [a \in Providers |-> 1]
           full == [a \in Providers |-> UniBalance]
           N == Cardinality(Providers)
<1>1. IsFiniteSet(Providers) /\ UniBalance \in Nat
  BY UnipoolAssumption
<1>2. /\ balanceOf \in [Providers -> Int] /\ balanceOf \in [Providers -> Nat]
      /\ \A a \in Providers : balanceOf[a] <= UniBalance
  BY <1>1 DEF UnipoolTypeOK
<1>3. /\ zero \in [Providers -> Int] /\ \A a \in Providers : zero[a] = 0
      /\ one \in [Providers -> Int] /\ \A a \in Providers : one[a] = 1
      /\ full \in [Providers -> Int] /\ \A a \in Providers : full[a] = UniBalance
  BY <1>1
<1>4. Combines(full, zero, UniBalance, one, Providers)
  BY <1>1, <1>3 DEF Combines
<1> HIDE DEF zero, one, full
<1>5. SumFunction(zero) = 0 /\ SumFunction(one) = N
  BY <1>1, <1>3, SumZero, SumOnes
<1>6. SumFunction(full) = SumFunction(zero) + UniBalance * SumFunction(one)
  <2>1. UniBalance \in Int
    BY <1>1
  <2> QED BY <1>1, <1>3, <1>4, <2>1, SumLinear
<1>7. N \in Nat
  BY <1>1, FS_CardinalityType
<1>8. SumFunction(balanceOf) <= SumFunction(full)
  BY <1>1, <1>2, <1>3, SumMonotone
<1>9. SumFunction(balanceOf) \in Nat /\ \A a \in Providers : balanceOf[a] <= SumFunction(balanceOf)
  BY <1>1, <1>2, SumNat
<1>10. UniBalance * N \in Nat
  BY <1>1, <1>7
<1> QED BY <1>5, <1>6, <1>7, <1>8, <1>9, <1>10 DEF allTokens

\* The claims are natural numbers, and grow with the reward per token by the
\* tokens staked.
LEMMA ClaimsAtGrow ==
    ASSUME UnipoolTypeOK, totalSupply = SumFunction(balanceOf),
           NEW r \in Nat, rewardPerTokenStored <= r
    PROVE  /\ claimsAt(r) \in [Providers -> Nat]
           /\ SumFunction(claimsAt(r)) \in Int /\ claimed \in Int
           /\ SumFunction(claimsAt(r)) = claimed + (r - rewardPerTokenStored) * totalSupply
<1> DEFINE s == rewardPerTokenStored
           new == claimsAt(r)
           old == claimsAt(s)
           g == r - s
<1>1. /\ IsFiniteSet(Providers) /\ UNIT \in Nat /\ s \in Nat /\ g \in Nat
      /\ balanceOf \in [Providers -> Int]
  BY UnipoolAssumption DEF UnipoolTypeOK
<1>2. ASSUME NEW x \in Nat, s <= x PROVE claimsAt(x) \in [Providers -> Nat]
  <2> SUFFICES ASSUME NEW a \in Providers
               PROVE  balanceOf[a] * (x - userRewardPerTokenPaid[a]) + UNIT * rewards[a] \in Nat
    BY DEF claimsAt
  <2>1. /\ balanceOf[a] \in Nat /\ rewards[a] \in Nat
        /\ x - userRewardPerTokenPaid[a] \in Nat
    BY <1>1, <1>2, UnipoolAssumption DEF UnipoolTypeOK
  <2> DEFINE m == x - userRewardPerTokenPaid[a]
             b == balanceOf[a]
             w == rewards[a]
  <2> HIDE DEF m, b, w
  <2>2. b * m + UNIT * w \in Nat
    BY <1>1, <2>1 DEF m, b, w
  <2> QED BY <2>2 DEF m, b, w
<1>3. new \in [Providers -> Nat] /\ old \in [Providers -> Nat]
  BY <1>1, <1>2
<1>4. Combines(new, old, g, balanceOf, Providers)
  <2> SUFFICES ASSUME NEW a \in Providers PROVE new[a] = old[a] + g * balanceOf[a]
    BY DEF Combines
  <2> DEFINE b == balanceOf[a]
             p == userRewardPerTokenPaid[a]
             w == UNIT * rewards[a]
  <2>1. new[a] = b * (r - p) + w /\ old[a] = b * (s - p) + w
    BY DEF claimsAt
  <2>2. b \in Int /\ p \in Int /\ w \in Int
    BY <1>1, UnipoolAssumption DEF UnipoolTypeOK
  <2> HIDE DEF b, p, w
  <2>3. b * (r - p) = b * (s - p) + (r - s) * b
    BY <1>1, <2>2
  <2>4. b * (r - p) \in Int /\ b * (s - p) \in Int /\ (r - s) * b \in Int
    BY <1>1, <2>2
  <2>5. new[a] = old[a] + (r - s) * b
    BY <2>1, <2>2, <2>3, <2>4
  <2> QED BY <2>5 DEF b
<1>5. new \in [Providers -> Int] /\ old \in [Providers -> Int]
  BY <1>3
<1> HIDE DEF new, old
<1>6. SumFunction(new) = SumFunction(old) + g * SumFunction(balanceOf)
  <2>1. g \in Int
    BY <1>1
  <2> HIDE DEF g
  <2> QED BY <1>1, <1>4, <1>5, <2>1, SumLinear
<1>7. SumFunction(new) \in Int /\ SumFunction(old) \in Int
  BY <1>1, <1>5, SumType
<1> QED BY <1>3, <1>6, <1>7 DEF claimed, new, old

\* An update moves rewards from the rest of the period to the claims, but for
\* what the rounded reward per token loses on each token.  While nobody stakes
\* it moves the end of the period instead.
LEMMA UpdateAccrues ==
    ASSUME UnipoolInv
    PROVE  LET r == perToken(extendedPeriod)
               updated == applicable(extendedPeriod)
               rest == UNIT * (rewardRate * (extendedPeriod - updated))
           IN  /\ r \in Nat /\ rewardPerTokenStored <= r
               /\ extendedPeriod \in Nat /\ periodFinish <= extendedPeriod
               /\ updated \in 0..extendedPeriod /\ updated <= now
               /\ rest \in Nat /\ pending \in Nat
               /\ SumFunction(claimsAt(r)) + rest <= claimed + pending
               /\ claimed + pending <= SumFunction(claimsAt(r)) + rest + allTokens
<1> DEFINE F == extendedPeriod
           r == perToken(F)
           u == applicable(F)
           s == rewardPerTokenStored
           l == lastUpdateTime
           n == totalSupply
           rest == UNIT * (rewardRate * (F - u))
<1>1. UnipoolTypeOK /\ n = SumFunction(balanceOf) /\ now \in Nat
  BY DEF UnipoolInv
<1>2. /\ l \in Nat /\ l <= periodFinish /\ l <= now /\ periodFinish \in Nat /\ s \in Nat
      /\ rewardRate \in Nat /\ UNIT \in Nat /\ n \in Nat
  BY <1>1, UnipoolAssumption DEF UnipoolTypeOK
<1>3. F \in Nat /\ periodFinish <= F
  BY <1>1, <1>2 DEF extendedPeriod
<1>4. u \in Nat /\ u <= F /\ u <= now /\ l <= u
  BY <1>1, <1>2, <1>3 DEF applicable
<1>5. n <= allTokens /\ allTokens \in Nat
  BY <1>1, SupplyBounded
<1>6. rest \in Nat /\ pending \in Nat
  <2>1. F - u \in Nat /\ periodFinish - l \in Nat
    BY <1>2, <1>3, <1>4
  <2>2. \A k \in Nat : UNIT * (rewardRate * k) \in Nat
    BY <1>2
  <2> HIDE DEF F, u, l
  <2> QED BY <2>1, <2>2 DEF pending, l
<1>7. CASE n = 0
  <2>1. r = s
    BY <1>7 DEF perToken
  <2>2. F - u = periodFinish - l
    BY <1>1, <1>2, <1>7 DEF extendedPeriod, applicable
  <2>3. rest = pending
    BY <2>2 DEF pending
  <2>4. SumFunction(claimsAt(r)) = claimed /\ claimed \in Int
    <3>1. s <= s
      BY <1>2
    <3> QED BY <1>1, <1>2, <2>1, <3>1, ClaimsAtGrow DEF claimed
  <2> HIDE DEF rest, r, F, u
  <2>5. r \in Nat /\ s <= r
    BY <1>2, <2>1
  <2> QED BY <1>3, <1>4, <1>5, <1>6, <2>3, <2>4, <2>5 DEF F, u, r, rest
<1>8. CASE n # 0
  <2> DEFINE d == u - l
             w == F - u
             x == d * rewardRate * UNIT
             q == x \div n
  <2>1. F = periodFinish
    BY <1>8 DEF extendedPeriod
  <2>2. r = s + q
    BY <1>8 DEF perToken
  <2>3. d \in Nat /\ w \in Nat /\ periodFinish - l = w + d
    BY <1>2, <1>3, <1>4, <2>1
  <2>4. pending = UNIT * (rewardRate * (w + d)) /\ rest = UNIT * (rewardRate * w)
    BY <2>3 DEF pending
  <2> HIDE DEF d, w
  <2>5. x \in Nat /\ UNIT * (rewardRate * (w + d)) = UNIT * (rewardRate * w) + x
    BY <1>2, <2>3
  <2> HIDE DEF x, rest
  <2>6. q \in Nat
    BY <1>2, <1>8, <2>5
  <2>7. n * q <= x /\ x < n * q + n
    <3>1. x \in Int /\ n > 0
      BY <1>2, <1>8, <2>5
    <3> QED BY <1>2, <3>1, QuotientBounds
  <2>8. r \in Nat /\ s <= r /\ r - s = q
    BY <1>2, <2>2, <2>6
  <2> HIDE DEF q, r
  <2>9. /\ SumFunction(claimsAt(r)) = claimed + q * n
        /\ claimed \in Int
    BY <1>1, <2>8, ClaimsAtGrow
  <2> DEFINE y == q * n
  <2>10. y = n * q /\ y \in Int
    BY <1>2, <2>6
  <2> HIDE DEF y
  <2>11. pending = rest + x
    BY <2>4, <2>5
  <2>12. /\ SumFunction(claimsAt(r)) + rest <= claimed + pending
         /\ claimed + pending <= SumFunction(claimsAt(r)) + rest + allTokens
    BY <1>2, <1>5, <1>6, <2>5, <2>7, <2>9, <2>10, <2>11 DEF y
  <2> QED BY <1>3, <1>4, <1>6, <2>8, <2>12 DEF F, u, r, rest
<1> QED BY <1>2, <1>7, <1>8

\* What is earned is the claim divided by the unit.
LEMMA EarnedIsClaim ==
    ASSUME UnipoolTypeOK, totalSupply = SumFunction(balanceOf), periodFinish > 0,
           NEW finish, perToken(finish) \in Nat, rewardPerTokenStored <= perToken(finish),
           NEW a \in Providers
    PROVE  LET c == claimsAt(perToken(finish))[a]
               e == earnedBy(a, finish)
           IN  e \in Nat /\ c \in Nat /\ UNIT * e <= c /\ c < UNIT * e + UNIT
<1> DEFINE r == perToken(finish)
           x == balanceOf[a] * (r - userRewardPerTokenPaid[a])
           w == rewards[a]
           q == x \div UNIT
           c == claimsAt(r)[a]
           e == earnedBy(a, finish)
<1>1. UNIT \in Nat /\ UNIT > 0 /\ w \in Nat
  BY UnipoolAssumption DEF UnipoolTypeOK
<1>2. c = x + UNIT * w
  BY DEF claimsAt
<1>3. e = q + w
  BY DEF earnedBy
<1>4. x \in Nat
  <2>1. balanceOf[a] \in Nat /\ r - userRewardPerTokenPaid[a] \in Nat
    BY UnipoolAssumption DEF UnipoolTypeOK
  <2> DEFINE m == r - userRewardPerTokenPaid[a]
  <2> HIDE DEF m, r
  <2>2. balanceOf[a] * m \in Nat
    BY <2>1 DEF m
  <2> QED BY <2>2 DEF m
<1> HIDE DEF x, w, c, e, r
<1>5. q \in Nat
  BY <1>1, <1>4
<1>6. UNIT * q <= x /\ x < UNIT * q + UNIT
  <2>1. x \in Int
    BY <1>4
  <2> QED BY <1>1, <2>1, QuotientBounds
<1> HIDE DEF q
<1>7. UNIT * (q + w) = UNIT * q + UNIT * w /\ UNIT * w \in Nat /\ UNIT * q \in Nat
  BY <1>1, <1>5
<1>8. e \in Nat /\ c \in Nat /\ UNIT * e <= c /\ c < UNIT * e + UNIT
  BY <1>1, <1>2, <1>3, <1>4, <1>5, <1>6, <1>7
<1> QED BY <1>8 DEF c, e, r

\* An operation of a provider settles that provider: what was earned is kept
\* as a reward or paid.  Nobody else's claim changes, and all claims together
\* lose less than one unit.
LEMMA SettlementKeeps ==
    ASSUME UnipoolInv, periodFinish > 0, NEW a \in Providers,
           rewardPerTokenStored' = perToken(extendedPeriod),
           userRewardPerTokenPaid'
               = [userRewardPerTokenPaid EXCEPT ![a] = perToken(extendedPeriod)],
           periodFinish' - lastUpdateTime' = extendedPeriod - applicable(extendedPeriod),
           UNCHANGED <<rewardRate, duration>>,
           NEW kept \in Nat, rewards' = [rewards EXCEPT ![a] = kept],
           deftBalance' \in Int,
           kept + (deftBalance - deftBalance') = earnedBy(a, extendedPeriod),
           balanceOf' \in [Providers -> Nat],
           \A v \in Providers \ {a} : balanceOf'[v] = balanceOf[v],
           ops' = ops + 1
    PROVE  ClaimsHeld' /\ NothingElseHeld'
<1> DEFINE r == perToken(extendedPeriod)
           old == claimsAt(r)
           new == [v \in Providers |->
                      balanceOf'[v] * (r - userRewardPerTokenPaid'[v]) + UNIT * rewards'[v]]
           rest == UNIT * (rewardRate * (extendedPeriod - applicable(extendedPeriod)))
           e == earnedBy(a, extendedPeriod)
           paid == deftBalance - deftBalance'
           so == SumFunction(old)
           sn == SumFunction(new)
           N == Cardinality(Providers)
<1>1. UnipoolTypeOK /\ totalSupply = SumFunction(balanceOf) /\ ops \in Nat
  BY DEF UnipoolInv
<1>2. /\ r \in Nat /\ rewardPerTokenStored <= r /\ rest \in Nat /\ pending \in Nat
      /\ so + rest <= claimed + pending
      /\ claimed + pending <= so + rest + allTokens
  BY UpdateAccrues
<1>3. /\ IsFiniteSet(Providers) /\ UNIT \in Nat /\ UNIT > 0
      /\ deftBalance \in Nat /\ rewardRate \in Nat /\ duration \in Nat /\ PoolDEFT \in Nat
  BY <1>1, UnipoolAssumption, RewardsAssumption DEF UnipoolTypeOK
<1>4. old \in [Providers -> Nat] /\ so \in Int /\ claimed \in Int
  BY <1>1, <1>2, ClaimsAtGrow
<1>5. e \in Nat /\ old[a] \in Nat /\ UNIT * e <= old[a] /\ old[a] < UNIT * e + UNIT
  BY <1>1, <1>2, EarnedIsClaim
<1>6. claimed' = sn /\ pending' = rest
  <2>1. claimed' = SumFunction(claimsAt(rewardPerTokenStored)')
    BY DEF claimed
  <2>2. claimsAt(rewardPerTokenStored)' = new
    BY DEF claimsAt
  <2>3. pending' = UNIT * (rewardRate' * (periodFinish' - lastUpdateTime'))
    BY DEF pending
  <2> QED BY <2>1, <2>2, <2>3
<1> HIDE DEF rest, e
<1>7. new[a] = UNIT * kept
  <2>1. userRewardPerTokenPaid'[a] = r /\ rewards'[a] = kept
    BY <1>1 DEF UnipoolTypeOK
  <2>2. new[a] = balanceOf'[a] * (r - r) + UNIT * kept
    BY <2>1
  <2>3. balanceOf'[a] \in Nat
    OBVIOUS
  <2> HIDE DEF new, r
  <2>4. r - r = 0 /\ balanceOf'[a] * 0 = 0 /\ UNIT * kept \in Nat
    BY <1>2, <1>3, <2>3
  <2> QED BY <2>2, <2>4
<1>8. \A v \in Providers \ {a} : new[v] = old[v]
  <2> SUFFICES ASSUME NEW v \in Providers \ {a} PROVE new[v] = old[v]
    OBVIOUS
  <2>1. /\ userRewardPerTokenPaid'[v] = userRewardPerTokenPaid[v] /\ rewards'[v] = rewards[v]
        /\ balanceOf'[v] = balanceOf[v]
    BY <1>1 DEF UnipoolTypeOK
  <2> QED BY <2>1 DEF claimsAt
<1> HIDE DEF r, old
<1>9. UNIT * kept \in Int
  BY <1>3
<1>10. new \in [Providers -> Int] /\ old \in [Providers -> Int]
  <2>1. DOMAIN new = Providers /\ new = [v \in Providers |-> new[v]]
    OBVIOUS
  <2>2. \A v \in Providers : new[v] \in Int
    <3> HIDE DEF new
    <3> QED BY <1>4, <1>7, <1>8, <1>9
  <2> HIDE DEF new
  <2> QED BY <1>4, <2>1, <2>2
<1> HIDE DEF new
<1>11. sn = so - old[a] + new[a]
  BY <1>3, <1>8, <1>10, SumUpdate
<1> HIDE DEF so, sn
<1>12. paid \in Int /\ kept + paid = e
  BY <1>3 DEF e
<1>13. UNIT * e = UNIT * kept + UNIT * paid /\ UNIT * paid \in Int
  BY <1>3, <1>12
<1>14. ClaimsHeld'
  <2>1. claimed + pending <= UNIT * deftBalance
    BY DEF UnipoolInv, ClaimsHeld
  <2>2. UNIT * deftBalance' = UNIT * deftBalance - UNIT * paid /\ UNIT * deftBalance \in Int
    BY <1>3
  <2>3. sn + rest <= UNIT * deftBalance'
    <3> HIDE DEF paid
    <3> QED BY <1>2, <1>4, <1>5, <1>7, <1>9, <1>11, <1>13, <2>1, <2>2
  <2> QED BY <1>6, <2>3 DEF ClaimsHeld
<1>15. NothingElseHeld'
  <2> DEFINE z == PoolDEFT - rewardRate * duration
  <2>1. z \in Int
    BY <1>3
  <2>2. UNIT * (deftBalance - z) <= claimed + pending + ops * opLoss
    BY DEF UnipoolInv, NothingElseHeld
  <2> HIDE DEF z
  <2>3. UNIT * (deftBalance' - z) = UNIT * (deftBalance - z) - UNIT * paid
        /\ UNIT * (deftBalance - z) \in Int
    BY <1>3, <2>1
  <2>4. N \in Nat /\ N > 0
    <3>1. Providers # {}
      OBVIOUS
    <3> QED BY <1>3, <3>1, FS_EmptySet, FS_CardinalityType
  <2>5. allTokens \in Nat /\ UNIT * N \in Nat /\ UNIT <= UNIT * N
    <3>1. allTokens \in Nat
      BY <1>1, SupplyBounded
    <3> HIDE DEF N
    <3> QED BY <1>3, <2>4, <3>1
  <2>6. opLoss \in Nat /\ opLoss >= allTokens + UNIT
    BY <1>3, <2>5 DEF opLoss
  <2> DEFINE k == ops * opLoss
  <2>7. k \in Nat /\ (ops + 1) * opLoss = k + opLoss
    BY <1>1, <2>6
  <2> HIDE DEF k
  <2>8. UNIT * (deftBalance' - z) <= sn + rest + (k + opLoss)
    <3> HIDE DEF paid
    <3> QED BY <1>2, <1>3, <1>4, <1>5, <1>7, <1>9, <1>11, <1>13, <2>2, <2>3, <2>5, <2>6, <2>7 DEF k
  <2>9. UNIT * (deftBalance' - (PoolDEFT - rewardRate' * duration')) <= sn + rest + ops' * opLoss
    BY <2>7, <2>8 DEF z
  <2>10. opLoss' = opLoss
    BY DEF opLoss, allTokens
  <2> QED BY <1>6, <2>9, <2>10 DEF NothingElseHeld
<1> QED BY <1>14, <1>15

\* What the four operations of a provider have in common: all rewards are
\* brought up to date, the provider's are kept or paid, and the provider's
\* balance changes.
SettlesProvider(a, kept, balance) ==
    /\ rewardPerTokenStored' = perToken(extendedPeriod)
    /\ userRewardPerTokenPaid'
           = [userRewardPerTokenPaid EXCEPT ![a] = perToken(extendedPeriod)]
    /\ periodFinish' \in Nat /\ periodFinish' > 0
    /\ lastUpdateTime' \in 0..periodFinish' /\ lastUpdateTime' <= now
    /\ periodFinish' - lastUpdateTime' = extendedPeriod - applicable(extendedPeriod)
    /\ UNCHANGED <<now, rewardRate, duration>>
    /\ kept \in Nat
    /\ rewards' = [rewards EXCEPT ![a] = kept]
    /\ deftBalance' \in Nat
    /\ kept + (deftBalance - deftBalance') = earnedBy(a, extendedPeriod)
    /\ balance \in 0..UniBalance
    /\ balanceOf' = [balanceOf EXCEPT ![a] = balance]
    /\ totalSupply' = totalSupply - balanceOf[a] + balance
    /\ ops' = ops + 1

\* Such an operation keeps the invariant.
LEMMA SettledKeepsInv ==
    ASSUME UnipoolInv, periodFinish > 0, NEW a \in Providers, NEW kept, NEW balance,
           SettlesProvider(a, kept, balance)
    PROVE  UnipoolInv'
<1>1. UnipoolTypeOK /\ totalSupply = SumFunction(balanceOf) /\ now \in Nat /\ ops \in Nat
  BY DEF UnipoolInv
<1>2. IsFiniteSet(Providers) /\ UniBalance \in Nat
  BY UnipoolAssumption
<1>3. /\ balanceOf \in [Providers -> Int] /\ balanceOf' \in [Providers -> Int]
      /\ balanceOf' \in [Providers -> 0..UniBalance] /\ balanceOf' \in [Providers -> Nat]
      /\ \A v \in Providers \ {a} : balanceOf'[v] = balanceOf[v]
      /\ balanceOf'[a] = balance
  BY <1>1, <1>2 DEF UnipoolTypeOK, SettlesProvider
<1>4. ClaimsHeld' /\ NothingElseHeld'
  <2>1. deftBalance' \in Int
    BY DEF SettlesProvider
  <2> QED BY <1>3, <2>1, SettlementKeeps DEF SettlesProvider
<1>5. totalSupply' = SumFunction(balanceOf')
  <2>1. SumFunction(balanceOf') = SumFunction(balanceOf) - balanceOf[a] + balanceOf'[a]
    BY <1>2, <1>3, SumUpdate
  <2> QED BY <1>1, <1>3, <2>1 DEF SettlesProvider
<1>6. totalSupply' \in Nat
  BY <1>2, <1>3, <1>5, SumNat
<1>7. rewardPerTokenStored' \in Nat /\ rewardPerTokenStored <= rewardPerTokenStored'
  BY UpdateAccrues DEF SettlesProvider
<1>8. userRewardPerTokenPaid' \in [Providers -> 0..rewardPerTokenStored']
  <2>1. userRewardPerTokenPaid \in [Providers -> 0..rewardPerTokenStored]
        /\ rewardPerTokenStored \in Nat
    BY <1>1 DEF UnipoolTypeOK
  <2>2. userRewardPerTokenPaid \in [Providers -> 0..rewardPerTokenStored']
    BY <1>7, <2>1
  <2>3. rewardPerTokenStored' \in 0..rewardPerTokenStored'
    BY <1>7
  <2> QED BY <2>2, <2>3 DEF SettlesProvider
<1>9. UnipoolTypeOK'
  BY <1>1, <1>3, <1>6, <1>7, <1>8 DEF UnipoolTypeOK, SettlesProvider
<1>10. UntouchedUntilStart'
  BY DEF UntouchedUntilStart, SettlesProvider
<1>11. now' \in Nat /\ ops' \in Nat
  BY <1>1 DEF SettlesProvider
<1> QED BY <1>4, <1>5, <1>9, <1>10, <1>11 DEF UnipoolInv

\* The operations of a provider are of this kind.
LEMMA ProvidersSettle ==
    ASSUME UnipoolInv, provide
    PROVE  /\ periodFinish > 0
           /\ \E a \in Providers : \E kept, balance : SettlesProvider(a, kept, balance)
<1> DEFINE F == extendedPeriod
           u == applicable(F)
<1>1. UnipoolTypeOK /\ totalSupply = SumFunction(balanceOf) /\ now \in Nat
  BY DEF UnipoolInv
<1>2. /\ perToken(F) \in Nat /\ rewardPerTokenStored <= perToken(F)
      /\ F \in Nat /\ periodFinish <= F /\ u \in 0..F /\ u <= now
  BY UpdateAccrues
<1>3. now' = now /\ ops' = ops + 1
  BY DEF provide, transaction
<1>4. /\ periodFinish \in Nat /\ deftBalance \in Nat /\ UniBalance \in Nat /\ totalSupply \in Nat
      /\ balanceOf \in [Providers -> 0..UniBalance] /\ rewards \in [Providers -> Nat]
      /\ \A a \in Providers : balanceOf[a] \in Nat /\ balanceOf[a] <= totalSupply
  BY <1>1, SupplyBounded, UnipoolAssumption DEF UnipoolTypeOK
<1>5. ASSUME NEW a \in Providers, periodFinish > 0 PROVE earnedBy(a, F) \in Nat
  BY <1>1, <1>2, <1>5, EarnedIsClaim
<1>6. totalSupply # 0 => F = periodFinish
  BY DEF extendedPeriod
<1>7. ASSUME NEW a \in Providers, NEW amount \in UniAmounts, stakeUni(a, amount)
      PROVE  periodFinish > 0 /\ SettlesProvider(a, earnedBy(a, F), balanceOf[a] + amount)
  <2>1. amount \in Nat
    BY RewardsAssumption
  <2>2. /\ periodFinish > 0 /\ amount > 0 /\ balanceOf[a] + amount <= UniBalance
        /\ periodFinish' = F /\ updateAccountReward(a, F)
        /\ rewards' = [rewards EXCEPT ![a] = earnedBy(a, F)]
        /\ totalSupply' = totalSupply + amount
        /\ balanceOf' = [balanceOf EXCEPT ![a] = balanceOf[a] + amount]
        /\ UNCHANGED <<duration, rewardRate, deftBalance>>
    BY <1>7 DEF stakeUni
  <2>3. earnedBy(a, F) \in Nat
    BY <1>5, <2>2
  <2>4. /\ rewardPerTokenStored' = perToken(F) /\ lastUpdateTime' = u
        /\ userRewardPerTokenPaid' = [userRewardPerTokenPaid EXCEPT ![a] = perToken(F)]
    BY <2>2 DEF updateAccountReward
  <2>5. /\ balanceOf[a] + amount \in 0..UniBalance
        /\ totalSupply' = totalSupply - balanceOf[a] + (balanceOf[a] + amount)
    BY <1>4, <2>1, <2>2
  <2>6. F > 0
    BY <1>2, <1>4, <2>2
  <2> HIDE DEF F, u
  <2> QED BY <1>2, <1>3, <1>4, <2>2, <2>3, <2>4, <2>5, <2>6 DEF SettlesProvider, F, u
<1>8. ASSUME NEW a \in Providers, NEW amount \in UniAmounts, withdraw(a, amount)
      PROVE  periodFinish > 0 /\ SettlesProvider(a, earnedBy(a, F), balanceOf[a] - amount)
  <2>1. amount \in Nat
    BY RewardsAssumption
  <2>2. /\ periodFinish > 0 /\ amount > 0 /\ balanceOf[a] >= amount
        /\ updateAccountReward(a, periodFinish)
        /\ rewards' = [rewards EXCEPT ![a] = earned(a)]
        /\ totalSupply' = totalSupply - amount
        /\ balanceOf' = [balanceOf EXCEPT ![a] = balanceOf[a] - amount]
        /\ UNCHANGED <<duration, periodFinish, rewardRate, deftBalance>>
    BY <1>8 DEF withdraw
  <2>3. F = periodFinish
    BY <1>4, <1>6, <2>1, <2>2
  <2>4. earnedBy(a, F) \in Nat /\ earned(a) = earnedBy(a, F)
    BY <1>5, <2>2, <2>3 DEF earned
  <2>5. /\ rewardPerTokenStored' = perToken(F) /\ lastUpdateTime' = u
        /\ userRewardPerTokenPaid' = [userRewardPerTokenPaid EXCEPT ![a] = perToken(F)]
    BY <2>2, <2>3 DEF updateAccountReward
  <2>6. /\ balanceOf[a] - amount \in 0..UniBalance
        /\ totalSupply' = totalSupply - balanceOf[a] + (balanceOf[a] - amount)
    BY <1>4, <2>1, <2>2
  <2>7. F > 0 /\ periodFinish' = F
    BY <2>2, <2>3
  <2> HIDE DEF F, u
  <2> QED BY <1>2, <1>3, <1>4, <2>2, <2>4, <2>5, <2>6, <2>7 DEF SettlesProvider, F, u
<1>9. ASSUME NEW a \in Providers, claimReward(a)
      PROVE  periodFinish > 0 /\ SettlesProvider(a, 0, balanceOf[a])
  <2> DEFINE e == earnedBy(a, F)
  <2>1. /\ periodFinish > 0 /\ periodFinish' = F /\ updateAccountReward(a, F)
        /\ rewards' = [rewards EXCEPT ![a] = 0]
        /\ deftBalance >= e /\ deftBalance' = deftBalance - e
        /\ UNCHANGED <<duration, rewardRate, totalSupply, balanceOf>>
    BY <1>9 DEF claimReward
  <2>2. e \in Nat
    BY <1>5, <2>1
  <2>3. /\ rewardPerTokenStored' = perToken(F) /\ lastUpdateTime' = u
        /\ userRewardPerTokenPaid' = [userRewardPerTokenPaid EXCEPT ![a] = perToken(F)]
    BY <2>1 DEF updateAccountReward
  <2>4. balanceOf' = [balanceOf EXCEPT ![a] = balanceOf[a]] /\ balanceOf[a] \in 0..UniBalance
    BY <1>4, <2>1
  <2>5. totalSupply' = totalSupply - balanceOf[a] + balanceOf[a]
    BY <1>4, <2>1
  <2> HIDE DEF e
  <2>6. deftBalance' \in Nat /\ 0 + (deftBalance - deftBalance') = e
    BY <1>4, <2>1, <2>2
  <2>7. F > 0
    BY <1>2, <1>4, <2>1
  <2> HIDE DEF F, u
  <2> QED BY <1>2, <1>3, <1>4, <2>1, <2>3, <2>4, <2>5, <2>6, <2>7 DEF SettlesProvider, F, u, e
<1>10. ASSUME NEW a \in Providers, withdrawAndClaim(a)
       PROVE  periodFinish > 0 /\ SettlesProvider(a, 0, 0)
  <2> DEFINE left == totalSupply - balanceOf[a]
             updated == applicable(periodFinish)
             finish == IF left = 0 THEN periodFinish + (now - updated) ELSE periodFinish
             e == earnedBy(a, F)
  <2>1. /\ periodFinish > 0 /\ balanceOf[a] > 0 /\ deftBalance >= earned(a)
        /\ rewardPerTokenStored' = rewardPerToken
        /\ userRewardPerTokenPaid' = [userRewardPerTokenPaid EXCEPT ![a] = rewardPerToken]
        /\ lastUpdateTime' = applicable(finish) /\ periodFinish' = finish
        /\ rewards' = [rewards EXCEPT ![a] = 0]
        /\ deftBalance' = deftBalance - earned(a)
        /\ totalSupply' = left /\ balanceOf' = [balanceOf EXCEPT ![a] = 0]
        /\ UNCHANGED <<duration, rewardRate>>
    BY <1>10 DEF withdrawAndClaim
  <2>2. F = periodFinish
    BY <1>4, <1>6, <2>1
  <2>3. e \in Nat /\ earned(a) = e /\ rewardPerToken = perToken(F) /\ updated = u
    BY <1>5, <2>1, <2>2 DEF earned, rewardPerToken
  <2>4. totalSupply' = totalSupply - balanceOf[a] + 0 /\ 0 \in 0..UniBalance
    BY <1>4, <2>1
  <2>5. /\ finish \in Nat /\ finish > 0
        /\ applicable(finish) \in 0..finish /\ applicable(finish) <= now
        /\ finish - applicable(finish) = F - u
    <3>1. updated \in Nat /\ updated <= now /\ updated <= periodFinish /\ periodFinish \in Nat
      BY <1>1, <1>4 DEF applicable
    <3>2. finish \in Nat /\ finish > 0
      BY <1>1, <2>1, <3>1
    <3>3. CASE left = 0
      <4>1. finish = periodFinish + (now - updated)
        BY <3>3
      <4>2. applicable(finish) = now
        <5> HIDE DEF finish, updated
        <5> QED BY <1>1, <3>1, <4>1 DEF applicable
      <4> HIDE DEF finish, updated
      <4> QED BY <1>1, <2>2, <2>3, <3>1, <3>2, <4>1, <4>2
    <3>4. CASE left # 0
      <4>1. finish = F
        BY <2>2, <3>4
      <4> HIDE DEF finish, F
      <4> QED BY <1>2, <3>2, <4>1
    <3> QED BY <3>3, <3>4
  <2> HIDE DEF e, finish, left
  <2>6. deftBalance' \in Nat /\ 0 + (deftBalance - deftBalance') = e
    BY <1>4, <2>1, <2>3
  <2> HIDE DEF F, u
  <2> QED BY <1>3, <2>1, <2>3, <2>4, <2>5, <2>6 DEF SettlesProvider, F, u, e
<1>11. PICK a \in Providers :
          \/ \E amount \in UniAmounts : stakeUni(a, amount) \/ withdraw(a, amount)
          \/ claimReward(a)
          \/ withdrawAndClaim(a)
  BY DEF provide
<1> HIDE DEF F
<1> QED BY <1>7, <1>8, <1>9, <1>10, <1>11

\* Without a stake and a reward there is no claim.
LEMMA NoClaims ==
    ASSUME NEW b, NEW p, NEW w, NEW r,
           \A a \in Providers : b[a] = 0 /\ w[a] = 0 /\ r - p[a] \in Int
    PROVE  SumFunction([a \in Providers |-> b[a] * (r - p[a]) + UNIT * w[a]]) = 0
<1> DEFINE c == [a \in Providers |-> b[a] * (r - p[a]) + UNIT * w[a]]
<1>1. IsFiniteSet(Providers) /\ UNIT \in Nat
  BY UnipoolAssumption
<1>2. \A k \in Int : 0 * k + UNIT * 0 = 0
  BY <1>1
<1>3. \A a \in Providers : c[a] = 0
  BY <1>2
<1>4. c = [a \in Providers |-> c[a]]
  OBVIOUS
<1> HIDE DEF c
<1>5. c \in [Providers -> Int]
  BY <1>3, <1>4
<1>6. SumFunction(c) = 0
  BY <1>1, <1>3, <1>5, SumZero
<1> QED BY <1>6 DEF c

\* Where the pool does not change, nothing is lost, however much time passes.
LEMMA UnipoolUnchanged ==
    ASSUME UnipoolInv, UNCHANGED poolVars, now' \in {now, now + 1}, ops' \in {ops, ops + 1}
    PROVE  UnipoolInv'
<1>1. /\ UNCHANGED <<duration, periodFinish, rewardRate, lastUpdateTime, rewardPerTokenStored>>
      /\ UNCHANGED <<userRewardPerTokenPaid, rewards, totalSupply, balanceOf, deftBalance>>
  BY DEF poolVars
<1>2. now \in Nat /\ ops \in Nat /\ UnipoolTypeOK /\ totalSupply = SumFunction(balanceOf)
  BY DEF UnipoolInv
<1>3. now' \in Nat /\ now <= now' /\ ops' \in Nat /\ ops <= ops'
  BY <1>2
<1>4. claimed' = claimed /\ pending' = pending /\ opLoss' = opLoss
  BY <1>1 DEF claimed, claimsAt, pending, opLoss, allTokens
<1>5. UnipoolTypeOK'
  BY <1>1, <1>2, <1>3 DEF UnipoolTypeOK
<1>6. NothingElseHeld'
  <2> SUFFICES ASSUME periodFinish > 0
               PROVE  UNIT * (deftBalance - (PoolDEFT - rewardRate * duration))
                          <= claimed + pending + ops' * opLoss
    BY <1>1, <1>4 DEF NothingElseHeld
  <2> DEFINE x == UNIT * (deftBalance - (PoolDEFT - rewardRate * duration))
  <2>1. x <= claimed + pending + ops * opLoss
    BY DEF UnipoolInv, NothingElseHeld
  <2>2. x \in Int
    <3>1. UNIT \in Nat /\ deftBalance \in Nat /\ PoolDEFT \in Nat /\ rewardRate \in Nat
          /\ duration \in Nat
      BY <1>2, UnipoolAssumption, RewardsAssumption DEF UnipoolTypeOK
    <3>2. deftBalance - (PoolDEFT - rewardRate * duration) \in Int
      BY <3>1
    <3> QED BY <3>1, <3>2
  <2>3. opLoss \in Nat
    <3>1. allTokens \in Nat /\ Cardinality(Providers) \in Nat /\ UNIT \in Nat
      BY <1>2, SupplyBounded, UnipoolAssumption
    <3> QED BY <3>1 DEF opLoss
  <2>4. ops * opLoss \in Nat /\ ops' * opLoss \in Nat /\ ops * opLoss <= ops' * opLoss
    <3>1. ops * opLoss \in Nat /\ (ops + 1) * opLoss = ops * opLoss + opLoss
      BY <1>2, <2>3
    <3>2. CASE ops' = ops
      BY <3>1, <3>2
    <3>3. CASE ops' = ops + 1
      BY <2>3, <3>1, <3>3
    <3> QED BY <3>2, <3>3
  <2>5. claimed \in Int /\ pending \in Int
    <3>1. pending \in Nat
      BY UpdateAccrues
    <3>2. rewardPerTokenStored \in Nat /\ rewardPerTokenStored <= rewardPerTokenStored
      BY <1>2 DEF UnipoolTypeOK
    <3> QED BY <1>2, <3>1, <3>2, ClaimsAtGrow
  <2> HIDE DEF x
  <2>6. x <= claimed + pending + ops' * opLoss
    BY <2>1, <2>2, <2>4, <2>5
  <2> QED BY <2>6 DEF x
<1>7. ClaimsHeld' /\ UntouchedUntilStart' /\ totalSupply' = SumFunction(balanceOf')
  BY <1>1, <1>2, <1>4 DEF UnipoolInv, ClaimsHeld, UntouchedUntilStart
<1> QED BY <1>3, <1>5, <1>6, <1>7 DEF UnipoolInv

\* The start promises at most the reward, which the contract owns.
LEMMA StartKeepsInv ==
    ASSUME UnipoolInv, startPool
    PROVE  UnipoolInv'
<1>1. PICK reward \in Rewards, length \in Durations :
          start(reward, length) /\ UNCHANGED <<now, ops>>
  BY DEF startPool
<1>2. /\ reward > 0 /\ reward <= deftBalance /\ periodFinish = 0
      /\ duration' = length /\ rewardRate' = reward \div length /\ lastUpdateTime' = now
      /\ periodFinish' = now + length /\ rewardPerTokenStored' = rewardPerToken
      /\ UNCHANGED <<userRewardPerTokenPaid, rewards, totalSupply, balanceOf, deftBalance>>
  BY <1>1 DEF start
<1>3. /\ now \in Nat /\ ops \in Nat /\ UnipoolTypeOK /\ totalSupply = SumFunction(balanceOf)
      /\ deftBalance = PoolDEFT /\ totalSupply = 0 /\ rewardPerTokenStored = 0
      /\ \A a \in Providers : balanceOf[a] = 0 /\ rewards[a] = 0
  BY <1>2 DEF UnipoolInv, UntouchedUntilStart
<1>4. reward \in Nat /\ length \in Nat /\ length > 0 /\ UNIT \in Nat /\ PoolDEFT \in Nat
  BY RewardsAssumption, UnipoolAssumption
<1>5. rewardPerTokenStored' = rewardPerTokenStored
  BY <1>2, <1>3 DEF rewardPerToken, perToken
<1> DEFINE q == reward \div length
<1>6. q \in Nat /\ length * q <= reward
  <2>1. reward \in Int
    BY <1>4
  <2>2. q \in Nat
    BY <1>4
  <2> QED BY <1>4, <2>1, <2>2, QuotientBounds
<1>7. UnipoolTypeOK' /\ UntouchedUntilStart' /\ totalSupply' = SumFunction(balanceOf')
  <2>1. now + length \in Nat /\ now \in 0..(now + length) /\ now + length > 0
    BY <1>3, <1>4
  <2>2. rewardRate' \in Nat /\ duration' \in Nat
    BY <1>2, <1>4, <1>6
  <2>3. periodFinish' # 0
    BY <1>2, <2>1
  <2>4. now' = now
    BY <1>1
  <2> QED BY <1>2, <1>3, <1>5, <2>1, <2>2, <2>3, <2>4 DEF UnipoolTypeOK, UntouchedUntilStart
<1>8. claimed' = 0
  <2>1. \A a \in Providers : balanceOf'[a] = 0 /\ rewards'[a] = 0
                             /\ rewardPerTokenStored' - userRewardPerTokenPaid'[a] \in Int
    BY <1>2, <1>3, <1>5 DEF UnipoolTypeOK
  <2>2. claimed' = SumFunction([a \in Providers |->
                       balanceOf'[a] * (rewardPerTokenStored' - userRewardPerTokenPaid'[a])
                           + UNIT * rewards'[a]])
    BY DEF claimed, claimsAt
  <2> QED BY <2>1, <2>2, NoClaims
<1>9. pending' = UNIT * (q * length)
  <2>1. periodFinish' - lastUpdateTime' = length
    BY <1>2, <1>3, <1>4
  <2> QED BY <1>2, <2>1 DEF pending
<1> HIDE DEF q
<1>10. q * length \in Nat /\ q * length <= deftBalance
  <2>1. q * length = length * q /\ q * length \in Nat
    BY <1>4, <1>6
  <2> QED BY <1>2, <1>3, <1>4, <1>6, <2>1
<1> DEFINE z == q * length
<1>11. UNIT * z <= UNIT * deftBalance /\ UNIT * z \in Nat
  <2> HIDE DEF z
  <2> QED BY <1>3, <1>4, <1>10 DEF z
<1>12. ClaimsHeld'
  <2>1. 0 + UNIT * z <= UNIT * deftBalance
    BY <1>11
  <2> QED BY <1>2, <1>8, <1>9, <2>1 DEF ClaimsHeld
<1>13. NothingElseHeld'
  <2>1. deftBalance' - (PoolDEFT - rewardRate' * duration') = z
    <3>1. rewardRate' * duration' = z
      BY <1>2 DEF q
    <3> HIDE DEF z
    <3> QED BY <1>2, <1>3, <1>4, <1>10, <3>1 DEF z
  <2>2. ops' * opLoss' \in Nat
    <3>1. allTokens \in Nat /\ Cardinality(Providers) \in Nat
      BY <1>3, SupplyBounded
    <3>2. opLoss \in Nat /\ opLoss' = opLoss
      BY <1>4, <3>1 DEF opLoss, allTokens
    <3> QED BY <1>1, <1>3, <3>2
  <2>3. UNIT * z <= 0 + UNIT * z + ops' * opLoss'
    BY <1>11, <2>2
  <2> QED BY <1>8, <1>9, <2>1, <2>3 DEF NothingElseHeld
<1> QED BY <1>1, <1>3, <1>7, <1>12, <1>13 DEF UnipoolInv

\* At first nothing is claimed.
LEMMA InitUnipool == RewardsInit => UnipoolInv
<1> SUFFICES ASSUME RewardsInit PROVE UnipoolInv
  OBVIOUS
<1>1. IsFiniteSet(Providers) /\ UNIT \in Nat /\ UniBalance \in Nat /\ PoolDEFT \in Nat
  BY UnipoolAssumption, RewardsAssumption
<1>2. /\ now = 1 /\ ops = 0 /\ duration = 0 /\ periodFinish = 0 /\ rewardRate = 0
      /\ lastUpdateTime = 0 /\ rewardPerTokenStored = 0 /\ totalSupply = 0
      /\ userRewardPerTokenPaid = [a \in Providers |-> 0]
      /\ rewards = [a \in Providers |-> 0] /\ balanceOf = [a \in Providers |-> 0]
      /\ deftBalance = PoolDEFT
  BY DEF RewardsInit, UnipoolInit
<1>3. UnipoolTypeOK /\ UntouchedUntilStart
  BY <1>1, <1>2 DEF UnipoolTypeOK, UntouchedUntilStart
<1>4. SumFunction(balanceOf) = 0
  <2>1. balanceOf \in [Providers -> Int] /\ \A a \in Providers : balanceOf[a] = 0
    BY <1>2
  <2> QED BY <1>1, <2>1, SumZero
<1>5. claimed = 0
  <2> DEFINE c == claimsAt(0)
  <2>1. c = [a \in Providers |-> 0 * (0 - 0) + UNIT * 0]
    BY <1>2 DEF claimsAt
  <2>2. 0 * (0 - 0) + UNIT * 0 = 0
    BY <1>1
  <2>3. c \in [Providers -> Int] /\ \A a \in Providers : c[a] = 0
    BY <2>1, <2>2
  <2> HIDE DEF c
  <2>4. SumFunction(c) = 0
    BY <1>1, <2>3, SumZero
  <2> QED BY <1>2, <2>4 DEF claimed, c
<1>6. pending = 0 /\ UNIT * PoolDEFT \in Nat
  BY <1>1, <1>2 DEF pending
<1> QED BY <1>2, <1>3, <1>4, <1>5, <1>6 DEF UnipoolInv, ClaimsHeld, NothingElseHeld

\* Every step keeps the claims held.
LEMMA NextUnipool == UnipoolInv /\ [RewardsNext]_rewardsVars => UnipoolInv'
<1> SUFFICES ASSUME UnipoolInv, [RewardsNext]_rewardsVars PROVE UnipoolInv'
  OBVIOUS
<1>1. CASE wait
  BY <1>1, UnipoolUnchanged DEF wait, secondPasses
<1>2. CASE startPool
  BY <1>2, StartKeepsInv
<1>3. CASE provide
  BY <1>3, ProvidersSettle, SettledKeepsInv
<1>4. CASE startIssuing
  BY <1>4, UnipoolUnchanged DEF startIssuing
<1>5. CASE issue
  BY <1>5, UnipoolUnchanged DEF issue, transaction
<1>6. CASE UNCHANGED rewardsVars
  BY <1>6, UnipoolUnchanged DEF rewardsVars
<1> QED BY <1>1, <1>2, <1>3, <1>4, <1>5, <1>6 DEF RewardsNext

\* All rewards together are what is claimed now, up to less than a unit for
\* each provider.
LEMMA RewardsSum ==
    ASSUME UnipoolTypeOK, totalSupply = SumFunction(balanceOf), periodFinish > 0,
           rewardPerToken \in Nat, rewardPerTokenStored <= rewardPerToken
    PROVE  LET sum == SumFunction(claimsAt(rewardPerToken))
           IN  /\ allEarned \in Int /\ sum \in Int
               /\ UNIT * allEarned <= sum
               /\ sum <= UNIT * allEarned + UNIT * Cardinality(Providers)
<1> DEFINE c == claimsAt(rewardPerToken)
           e == [a \in Providers |-> earned(a)]
           zero == [a \in Providers |-> 0]
           one == [a \in Providers |-> 1]
           low == [a \in Providers |-> UNIT * e[a]]
           high == [a \in Providers |-> UNIT * e[a] + UNIT]
<1>1. IsFiniteSet(Providers) /\ UNIT \in Nat /\ UNIT \in Int
  BY UnipoolAssumption
<1>2. \A a \in Providers : /\ e[a] \in Nat /\ c[a] \in Nat
                           /\ UNIT * e[a] <= c[a] /\ c[a] <= UNIT * e[a] + UNIT
  <2> SUFFICES ASSUME NEW a \in Providers
               PROVE  /\ e[a] \in Nat /\ c[a] \in Nat
                      /\ UNIT * e[a] <= c[a] /\ c[a] <= UNIT * e[a] + UNIT
    OBVIOUS
  <2> DEFINE ea == earnedBy(a, periodFinish)
             ca == claimsAt(perToken(periodFinish))[a]
  <2>1. ea \in Nat /\ ca \in Nat /\ UNIT * ea <= ca /\ ca < UNIT * ea + UNIT
    BY EarnedIsClaim DEF rewardPerToken
  <2>2. e[a] = ea /\ c[a] = ca
    BY DEF earned, rewardPerToken
  <2> HIDE DEF ea, ca, e, c
  <2>3. ca <= UNIT * ea + UNIT
    BY <1>1, <2>1
  <2> QED BY <2>1, <2>2, <2>3
<1>3. c \in [Providers -> Int] /\ e \in [Providers -> Int]
  <2>1. c = [a \in Providers |-> c[a]] /\ e = [a \in Providers |-> e[a]]
    BY DEF claimsAt
  <2> HIDE DEF c, e
  <2> QED BY <1>2, <2>1
<1> HIDE DEF c, e
<1>4. /\ zero \in [Providers -> Int] /\ \A a \in Providers : zero[a] = 0
      /\ one \in [Providers -> Int] /\ \A a \in Providers : one[a] = 1
  OBVIOUS
<1>5. /\ low \in [Providers -> Int] /\ high \in [Providers -> Int]
      /\ \A a \in Providers : low[a] <= c[a] /\ c[a] <= high[a]
  BY <1>1, <1>2
<1>6. Combines(low, zero, UNIT, e, Providers)
  BY <1>1, <1>2 DEF Combines
<1>7. Combines(high, low, UNIT, one, Providers)
  BY <1>1, <1>2 DEF Combines
<1> HIDE DEF zero, one, low, high
<1>8. SumFunction(zero) = 0 /\ SumFunction(one) = Cardinality(Providers)
  BY <1>1, <1>4, SumZero, SumOnes
<1>9. SumFunction(low) = SumFunction(zero) + UNIT * SumFunction(e)
  BY <1>1, <1>3, <1>4, <1>5, <1>6, SumLinear
<1>10. SumFunction(high) = SumFunction(low) + UNIT * SumFunction(one)
  BY <1>1, <1>4, <1>5, <1>7, SumLinear
<1>11. SumFunction(low) <= SumFunction(c)
  BY <1>1, <1>3, <1>5, SumMonotone
<1>12. SumFunction(c) <= SumFunction(high)
  BY <1>1, <1>3, <1>5, SumMonotone
<1>13. SumFunction(c) \in Int /\ SumFunction(e) \in Int /\ SumFunction(low) \in Int
  BY <1>1, <1>3, <1>5, SumType
<1>14. allEarned = SumFunction(e)
  BY DEF allEarned, e
<1>15. UNIT * SumFunction(e) \in Int
  BY <1>1, <1>13
<1>16. SumFunction(low) = UNIT * SumFunction(e)
  BY <1>8, <1>9, <1>15
<1> QED BY <1>8, <1>10, <1>11, <1>12, <1>13, <1>14, <1>16 DEF c

\* What can be claimed now and what the page shows as remaining is what was
\* claimed and pending at the last update, but for the rounding of the reward
\* per token.
LEMMA RemainingIsPending ==
    ASSUME UnipoolInv, periodFinish > 0
    PROVE  LET sum == SumFunction(claimsAt(rewardPerToken))
           IN  /\ rewardPerToken \in Nat /\ rewardPerTokenStored <= rewardPerToken
               /\ remainingReward \in Nat /\ sum \in Int
               /\ claimed \in Int /\ pending \in Int
               /\ sum + UNIT * remainingReward <= claimed + pending
               /\ claimed + pending <= sum + UNIT * remainingReward + allTokens
<1> DEFINE r == rewardPerToken
           s == rewardPerTokenStored
           S == SumFunction(claimsAt(r))
<1>1. UnipoolTypeOK /\ totalSupply = SumFunction(balanceOf) /\ now \in Nat
  BY DEF UnipoolInv
<1>2. /\ lastUpdateTime \in Nat /\ lastUpdateTime <= periodFinish /\ periodFinish \in Nat
      /\ s \in Nat /\ rewardRate \in Nat /\ UNIT \in Nat
  BY <1>1, UnipoolAssumption DEF UnipoolTypeOK
<1>3. allTokens \in Nat
  BY <1>1, SupplyBounded
<1>4. s <= s
  BY <1>2
<1>5. claimed \in Int /\ pending \in Nat
  <2>1. pending \in Nat
    BY UpdateAccrues
  <2>2. claimed \in Int
    BY <1>1, <1>2, <1>4, ClaimsAtGrow
  <2> QED BY <2>1, <2>2
<1>6. CASE totalSupply = 0
  <2>1. r = s
    BY <1>6 DEF rewardPerToken, perToken
  <2>2. S = claimed
    BY <2>1 DEF claimed
  <2> DEFINE m == periodFinish - lastUpdateTime
  <2>3. m \in Nat
    BY <1>2
  <2>4. remainingReward = rewardRate * m
    <3>1. CASE periodFinish > lastUpdateTime
      BY <1>6, <3>1 DEF remainingReward
    <3>2. CASE periodFinish = lastUpdateTime
      <4>1. m = 0 /\ rewardRate * m = 0 /\ ~(periodFinish > lastUpdateTime)
        BY <1>2, <3>2
      <4> QED BY <1>6, <4>1 DEF remainingReward
    <3> QED BY <1>2, <3>1, <3>2
  <2>5. pending = UNIT * remainingReward
    BY <2>4 DEF pending
  <2> HIDE DEF m, S
  <2>6. remainingReward \in Nat
    BY <1>2, <2>3, <2>4
  <2> QED BY <1>2, <1>3, <1>4, <1>5, <2>1, <2>2, <2>5, <2>6 DEF S
<1>7. CASE totalSupply # 0
  <2> DEFINE F == extendedPeriod
             u == applicable(F)
             m == F - u
             rest == UNIT * (rewardRate * m)
  <2>1. F = periodFinish
    BY <1>7 DEF extendedPeriod
  <2>2. /\ perToken(F) \in Nat /\ s <= perToken(F)
        /\ F \in Nat /\ u \in 0..F /\ u <= now /\ rest \in Nat
        /\ SumFunction(claimsAt(perToken(F))) + rest <= claimed + pending
        /\ claimed + pending <= SumFunction(claimsAt(perToken(F))) + rest + allTokens
    BY UpdateAccrues
  <2>3. r = perToken(F)
    BY <2>1 DEF rewardPerToken
  <2>4. S \in Int
    BY <1>1, <2>2, <2>3, ClaimsAtGrow
  <2>5. m \in Nat
    BY <2>2
  <2>6. remainingReward = rewardRate * m
    <3>1. CASE F > now
      <4>1. u = now
        <5> HIDE DEF F
        <5> QED BY <1>1, <2>2, <3>1 DEF applicable
      <4> HIDE DEF F, u
      <4> QED BY <1>7, <2>1, <3>1, <4>1 DEF remainingReward
    <3>2. CASE ~(F > now)
      <4>1. u = F
        <5> HIDE DEF F
        <5> QED BY <1>1, <2>2, <3>2 DEF applicable
      <4> HIDE DEF F, u
      <4>2. m = 0 /\ rewardRate * m = 0
        BY <1>2, <2>2, <4>1
      <4> QED BY <1>7, <2>1, <3>2, <4>2 DEF remainingReward
    <3> QED BY <3>1, <3>2
  <2> HIDE DEF m, S
  <2>7. remainingReward \in Nat /\ rest = UNIT * remainingReward
    BY <1>2, <2>5, <2>6
  <2> HIDE DEF rest, F
  <2>8. S + rest <= claimed + pending /\ claimed + pending <= S + rest + allTokens
    BY <2>2, <2>3 DEF S
  <2> QED BY <1>5, <2>2, <2>3, <2>4, <2>7, <2>8 DEF S
<1> QED BY <1>6, <1>7

\* The inductive invariant gives the statement about rounded amounts.
LEMMA HeldIsBacked == UnipoolInv => RewardsBacked /\ NothingLocked
<1> SUFFICES ASSUME UnipoolInv PROVE RewardsBacked /\ NothingLocked
  OBVIOUS
<1>1. UnipoolTypeOK /\ totalSupply = SumFunction(balanceOf) /\ ops \in Nat /\ now \in Nat
  BY DEF UnipoolInv
<1>2. /\ IsFiniteSet(Providers) /\ UNIT \in Nat /\ UNIT > 0 /\ deftBalance \in Nat
      /\ PoolDEFT \in Nat /\ rewardRate \in Nat /\ duration \in Nat /\ periodFinish \in Nat
  BY <1>1, UnipoolAssumption, RewardsAssumption DEF UnipoolTypeOK
<1>3. CASE periodFinish = 0
  <2> DEFINE e == [a \in Providers |-> earned(a)]
  <2>1. \A a \in Providers : e[a] = 0
    BY <1>3 DEF earned, earnedBy
  <2>2. e = [a \in Providers |-> e[a]]
    OBVIOUS
  <2> HIDE DEF e
  <2>3. e \in [Providers -> Int]
    BY <2>1, <2>2
  <2>4. SumFunction(e) = 0
    BY <1>2, <2>1, <2>3, SumZero
  <2>5. allEarned = 0
    BY <2>4 DEF allEarned, e
  <2>6. remainingReward = 0
    <3>1. lastUpdateTime \in Nat /\ ~(periodFinish > lastUpdateTime) /\ ~(periodFinish > now)
      BY <1>1, <1>3 DEF UnipoolTypeOK
    <3> QED BY <3>1 DEF remainingReward
  <2>7. RewardsBacked
    BY <1>2, <2>5, <2>6 DEF RewardsBacked
  <2>8. NothingLocked
    BY <1>3 DEF NothingLocked
  <2> QED BY <2>7, <2>8
<1>4. CASE periodFinish > 0
  <2> DEFINE S == SumFunction(claimsAt(rewardPerToken))
             E == allEarned
             R == remainingReward
             N == Cardinality(Providers)
             T == allTokens
             both == E + R
  <2>1. /\ rewardPerToken \in Nat /\ rewardPerTokenStored <= rewardPerToken
        /\ R \in Nat /\ S \in Int /\ claimed \in Int /\ pending \in Int
        /\ S + UNIT * R <= claimed + pending
        /\ claimed + pending <= S + UNIT * R + T
    BY <1>4, RemainingIsPending
  <2>2. E \in Int /\ UNIT * E <= S /\ S <= UNIT * E + UNIT * N
    BY <1>1, <1>4, <2>1, RewardsSum
  <2>3. N \in Nat /\ T \in Nat /\ T = UniBalance * N
    BY <1>1, SupplyBounded DEF allTokens
  <2> HIDE DEF S, E, R, N, T
  <2>4. both \in Int /\ UNIT * both = UNIT * E + UNIT * R
    BY <1>2, <2>1, <2>2
  <2>5. UNIT * E \in Int /\ UNIT * R \in Int /\ UNIT * N \in Int
    BY <1>2, <2>1, <2>2, <2>3
  <2> HIDE DEF both
  <2>6. RewardsBacked
    <3>1. claimed + pending <= UNIT * deftBalance /\ UNIT * deftBalance \in Int
      BY <1>2 DEF UnipoolInv, ClaimsHeld
    <3>2. UNIT * both <= UNIT * deftBalance
      BY <2>1, <2>2, <2>4, <2>5, <3>1
    <3>3. both <= deftBalance
      <4>1. deftBalance \in Int
        BY <1>2
      <4> QED BY <1>2, <2>4, <3>2, <4>1, CancelFactor
    <3> QED BY <3>3 DEF RewardsBacked, both, E, R
  <2>7. NothingLocked
    <3> DEFINE unused == PoolDEFT - rewardRate * duration
               x == deftBalance - unused
               q == T \div UNIT
               k == N + 1 + q
               rounding == (ops + 1) * k
    <3>1. x \in Int
      BY <1>2
    <3>2. UNIT * x <= claimed + pending + ops * (T + UNIT * N)
      BY <1>4, <2>3 DEF UnipoolInv, NothingElseHeld, opLoss, T, N
    <3>3. q \in Nat
      BY <1>2, <2>3
    <3>4. T < UNIT * q + UNIT
      <4>1. T \in Int
        BY <2>3
      <4> QED BY <1>2, <4>1, QuotientBounds
    <3> HIDE DEF x, q
    <3>5. k \in Nat
      BY <2>3, <3>3
    <3>6. UNIT * k = UNIT * N + UNIT + UNIT * q /\ UNIT * q \in Nat
      BY <1>2, <2>3, <3>3
    <3> HIDE DEF k
    <3>7. T + UNIT * N \in Nat /\ UNIT * k \in Nat /\ T + UNIT * N <= UNIT * k
      BY <1>2, <2>3, <2>5, <3>4, <3>5, <3>6
    <3> DEFINE p == T + UNIT * N
               g == UNIT * k
    <3>8. ops * p \in Nat /\ ops * g \in Nat /\ ops * p <= ops * g
      <4>1. p \in Nat /\ g \in Nat /\ p <= g
        BY <3>7
      <4> HIDE DEF p, g
      <4> QED BY <1>1, <4>1
    <3>9. UNIT * rounding = ops * g + g /\ rounding \in Int
      <4>1. rounding \in Int
        BY <1>1, <3>5
      <4>2. UNIT * ((ops + 1) * k) = ops * (UNIT * k) + UNIT * k
        BY <1>1, <1>2, <3>5
      <4> QED BY <4>1, <4>2
    <3> HIDE DEF rounding
    <3>10. UNIT * (both + rounding) = UNIT * both + UNIT * rounding
           /\ UNIT * both \in Int /\ UNIT * rounding \in Int /\ UNIT * x \in Int
      BY <1>2, <2>4, <3>1, <3>9
    <3>11. UNIT * x <= UNIT * (both + rounding)
      <4>1. UNIT * x <= claimed + pending + ops * p
        BY <3>2
      <4>2. claimed + pending <= UNIT * both + p
        BY <2>1, <2>2, <2>3, <2>4, <2>5
      <4>3. p \in Nat /\ g \in Nat /\ p <= g
        BY <3>7
      <4> HIDE DEF p, g
      <4> QED BY <2>1, <3>8, <3>9, <3>10, <4>1, <4>2, <4>3
    <3>12. x <= both + rounding
      <4>1. both + rounding \in Int
        BY <2>4, <3>9
      <4> QED BY <1>2, <3>1, <3>11, <4>1, CancelFactor
    <3>13. x - rounding <= both
      BY <2>4, <3>1, <3>9, <3>12
    <3> QED BY <2>3, <3>13 DEF NothingLocked, x, both, E, R, rounding, k, q, N, T
  <2> QED BY <2>6, <2>7
<1> QED BY <1>2, <1>3, <1>4

\* Unipool owns what its providers have earned and what the rest of the period
\* pays, and nothing is locked in it but the remainder of the division by the
\* duration and roundings, whenever it was empty, for any number of providers.
THEOREM RewardsAreBacked == RewardsSpec => []RewardsInv
<1>1. RewardsSpec => []UnipoolInv
  BY InitUnipool, NextUnipool, PTL DEF RewardsSpec
<1>2. RewardsSpec => []IssuanceInv
  BY InitIssuance, NextIssuance, PTL DEF RewardsSpec
<1>3. UnipoolInv /\ IssuanceInv => RewardsInv
  BY HeldIsBacked DEF UnipoolInv, IssuanceInv, RewardsInv, RewardsTypeOK
<1> QED BY <1>1, <1>2, <1>3, PTL

\* After an operation the reward per token is the one it stored, which was
\* the current one before it: the clock of the rewards is at the present or at
\* the end of the period.
LEMMA OperationKeepsPerToken ==
    ASSUME UnipoolInv, provide
    PROVE  /\ rewardPerToken' = rewardPerToken
           /\ periodFinish > 0 /\ periodFinish' > 0
<1>0. PICK a \in Providers :
          \E kept, balance : periodFinish > 0 /\ SettlesProvider(a, kept, balance)
  BY ProvidersSettle
<1>1. PICK kept, balance : periodFinish > 0 /\ SettlesProvider(a, kept, balance)
  BY <1>0
<1>2. periodFinish' > 0 /\ rewardPerTokenStored' = perToken(extendedPeriod)
  BY <1>1 DEF SettlesProvider
<1>3. perToken(extendedPeriod) = rewardPerToken
  BY DEF rewardPerToken, perToken, extendedPeriod
<1>4. lastUpdateTime' = applicable(periodFinish)'
  BY DEF provide, stakeUni, withdraw, claimReward, withdrawAndClaim, updateAccountReward,
         applicable
<1>5. UnipoolInv'
  BY NextUnipool DEF RewardsNext
<1>6. /\ rewardPerTokenStored' \in Nat /\ rewardRate' \in Nat /\ UNIT \in Nat
      /\ totalSupply' \in Nat /\ lastUpdateTime' \in Nat
  BY <1>5, UnipoolAssumption DEF UnipoolInv, UnipoolTypeOK
<1>7. perToken(periodFinish)' = rewardPerTokenStored'
  <2>1. CASE totalSupply' = 0
    BY <2>1 DEF perToken
  <2>2. CASE totalSupply' # 0
    <3> DEFINE x == (applicable(periodFinish)' - lastUpdateTime') * rewardRate' * UNIT
    <3>1. perToken(periodFinish)' = rewardPerTokenStored' + x \div totalSupply'
      BY <2>2 DEF perToken
    <3>2. x = 0
      <4>1. applicable(periodFinish)' - lastUpdateTime' = 0
        BY <1>4, <1>6
      <4>2. \A i \in Nat, j \in Nat : 0 * i * j = 0
        OBVIOUS
      <4> QED BY <1>6, <4>1, <4>2
    <3> HIDE DEF x
    <3>3. x \div totalSupply' = 0
      <4>1. \A n \in Nat : n # 0 => 0 \div n = 0
        OBVIOUS
      <4> QED BY <1>6, <2>2, <3>2, <4>1
    <3> QED BY <1>6, <3>1, <3>3
  <2> QED BY <2>1, <2>2
<1> QED BY <1>1, <1>2, <1>3, <1>7 DEF rewardPerToken

\* What OthersKeepRewards says of a step
OtherKeeps(a) ==
    <<balanceOf[a], rewards[a], userRewardPerTokenPaid[a]>>'
        = <<balanceOf[a], rewards[a], userRewardPerTokenPaid[a]>>
    => earned(a)' = earned(a)

\* Steps of this second leave the others' rewards alone.
LEMMA StepKeepsOthers ==
    ASSUME UnipoolInv, [RewardsNext]_rewardsVars, now' = now, NEW a \in Providers
    PROVE  OtherKeeps(a)
<1> SUFFICES ASSUME /\ balanceOf[a]' = balanceOf[a] /\ rewards[a]' = rewards[a]
                    /\ userRewardPerTokenPaid[a]' = userRewardPerTokenPaid[a]
             PROVE  earned(a)' = earned(a)
  BY DEF OtherKeeps
<1>1. ASSUME UNCHANGED poolVars PROVE earned(a)' = earned(a)
  BY <1>1 DEF poolVars, earned, earnedBy, perToken, applicable
<1>2. CASE wait
  <2>1. now' = now + 1 /\ now \in Nat
    BY <1>2 DEF wait, secondPasses, UnipoolInv
  <2> QED BY <2>1
<1>3. CASE startPool
  <2>1. earned(a) = 0
    BY <1>3 DEF startPool, start, earned, earnedBy
  <2>2. balanceOf[a] = 0 /\ rewards[a] = 0
    BY <1>3 DEF startPool, start, UnipoolInv, UntouchedUntilStart
  <2> DEFINE m == perToken(periodFinish)' - userRewardPerTokenPaid'[a]
  <2>3. m \in Int
    <3>1. totalSupply' = 0 /\ UnipoolTypeOK /\ rewardPerTokenStored' = rewardPerTokenStored
      BY <1>3 DEF startPool, start, UnipoolInv, UntouchedUntilStart, rewardPerToken, perToken
    <3>2. perToken(periodFinish)' = rewardPerTokenStored
      BY <3>1 DEF perToken
    <3>3. userRewardPerTokenPaid'[a] = userRewardPerTokenPaid[a]
      OBVIOUS
    <3>4. rewardPerTokenStored \in Int /\ userRewardPerTokenPaid[a] \in Int
      BY <3>1 DEF UnipoolTypeOK
    <3> QED BY <3>2, <3>3, <3>4
  <2>4. earned(a)' = IF periodFinish' = 0 THEN 0 ELSE (0 * m) \div UNIT + 0
    BY <2>2 DEF earned, earnedBy
  <2> HIDE DEF m
  <2>5. (0 * m) \div UNIT + 0 = 0
    <3>1. 0 * m = 0 /\ UNIT \in Nat /\ UNIT > 0
      BY <2>3, UnipoolAssumption
    <3> QED BY <3>1
  <2> QED BY <2>1, <2>4, <2>5
<1>4. CASE provide
  <2>1. rewardPerToken' = rewardPerToken /\ periodFinish > 0 /\ periodFinish' > 0
    BY <1>4, OperationKeepsPerToken
  <2>2. periodFinish # 0 /\ periodFinish' # 0
    BY <2>1
  <2>3. earned(a) = (balanceOf[a] * (rewardPerToken - userRewardPerTokenPaid[a])) \div UNIT
                        + rewards[a]
    BY <2>2 DEF earned, earnedBy, rewardPerToken
  <2>4. earned(a)' = (balanceOf'[a] * (rewardPerToken' - userRewardPerTokenPaid'[a])) \div UNIT
                         + rewards'[a]
    BY <2>2 DEF earned, earnedBy, rewardPerToken
  <2> QED BY <2>1, <2>3, <2>4
<1>5. CASE startIssuing
  BY <1>1, <1>5 DEF startIssuing
<1>6. CASE issue
  BY <1>1, <1>6 DEF issue
<1>7. CASE UNCHANGED rewardsVars
  BY <1>1, <1>7 DEF rewardsVars
<1> QED BY <1>2, <1>3, <1>4, <1>5, <1>6, <1>7 DEF RewardsNext

\* Nobody's operation changes by a single unit what another provider has
\* earned, whether or not it moves the end of the period.
THEOREM ProvidersKeepRewards == RewardsSpec => OthersKeepRewards
<1>1. RewardsSpec => []UnipoolInv
  BY InitUnipool, NextUnipool, PTL DEF RewardsSpec
<1>2. UnipoolInv /\ [RewardsNext]_rewardsVars
          => [now' = now => \A a \in Providers : OtherKeeps(a)]_rewardsVars
  BY StepKeepsOthers
<1>3. RewardsSpec => [][now' = now => \A a \in Providers : OtherKeeps(a)]_rewardsVars
  BY <1>1, <1>2, PTL DEF RewardsSpec
<1> QED BY <1>3 DEF OthersKeepRewards, OtherKeeps
=============================================================================
