---------------------------- MODULE PriceFeedProofs ----------------------------
(***************************************************************************)
(* For all oracle answers, decimals, timeouts and deviations: what         *)
(* fetchPrice stores, from which oracle, and when it trusts Chainlink.     *)
(***************************************************************************)
EXTENDS PriceFeed, DataTheorems

(* Scaling *)

\* The first m powers of ten.
Powers(f, m) ==
    /\ f \in [0..m -> Nat]
    /\ f[0] = 1
    /\ \A k \in 1..m : f[k] = 10 * f[k - 1]

\* They exist.
LEMMA PowersExist == \A m \in Nat : \E f : Powers(f, m)
<1> DEFINE T == {m \in Nat : ~ \E f : Powers(f, m)}
<1> SUFFICES ASSUME T # {} PROVE FALSE
  OBVIOUS
<1>1. PICK m \in T : \A y \in T : m <= y
  <2> HIDE DEF T
  <2>1. T \in SUBSET Nat
    BY DEF T
  <2> QED BY <2>1, MinimumExists
<1>2. CASE m = 0
  <2>1. Powers([k \in 0..0 |-> 1], 0)
    BY DEF Powers
  <2> QED BY <1>1, <1>2, <2>1
<1>3. CASE m # 0
  <2>1. m - 1 \in Nat /\ m - 1 \notin T
    BY <1>1, <1>3
  <2>2. PICK f : Powers(f, m - 1)
    BY <2>1
  <2> DEFINE g == [k \in 0..m |-> IF k = m THEN 10 * f[m - 1] ELSE f[k]]
  <2>3. m \in Nat /\ f \in [0..(m - 1) -> Nat] /\ m - 1 \in 0..(m - 1)
    BY <2>1, <2>2 DEF Powers
  <2>4. g \in [0..m -> Nat]
    <3>1. ASSUME NEW k \in 0..m PROVE (IF k = m THEN 10 * f[m - 1] ELSE f[k]) \in Nat
      BY <2>3
    <3> QED BY <3>1
  <2>5. g[0] = 1
    BY <2>2, <2>3, <1>3 DEF Powers
  <2>6. ASSUME NEW k \in 1..m PROVE g[k] = 10 * g[k - 1]
    BY <2>2, <2>3 DEF Powers
  <2> HIDE DEF g
  <2>7. Powers(g, m)
    BY <2>4, <2>5, <2>6 DEF Powers
  <2> QED BY <1>1, <2>7
<1> QED BY <1>2, <1>3

\* They are determined.
LEMMA PowersAgree ==
    ASSUME NEW m \in Nat, NEW n \in Nat, NEW f, NEW g, Powers(f, m), Powers(g, n),
           m <= n
    PROVE  \A k \in 0..m : f[k] = g[k]
<1> DEFINE T == {k \in 0..m : f[k] # g[k]}
<1> SUFFICES ASSUME T # {} PROVE FALSE
  OBVIOUS
<1>1. PICK k \in T : \A y \in T : k <= y
  <2> HIDE DEF T
  <2>1. T \in SUBSET Nat
    BY DEF T
  <2> QED BY <2>1, MinimumExists
<1>2. k # 0
  BY <1>1 DEF Powers
<1>3. k - 1 \in 0..m /\ k - 1 \notin T
  BY <1>1, <1>2
<1>4. f[k - 1] = g[k - 1]
  BY <1>3
<1> QED BY <1>1, <1>2, <1>4 DEF Powers

\* The recursive definition of TenTo has the values it describes, and they
\* are positive.
LEMMA TenToDef ==
    /\ TenTo \in [Nat -> Nat \ {0}]
    /\ TenTo = [n \in Nat |-> IF n = 0 THEN 1 ELSE 10 * TenTo[n - 1]]
<1> DEFINE F == [m \in Nat |-> CHOOSE f : Powers(f, m)]
           G == [m \in Nat |-> F[m][m]]
<1>1. \A m \in Nat : Powers(F[m], m)
  BY PowersExist
<1> HIDE DEF F
<1>2. G \in [Nat -> Nat]
  BY <1>1 DEF Powers
<1>3. G = [n \in Nat |-> IF n = 0 THEN 1 ELSE 10 * G[n - 1]]
  <2>1. ASSUME NEW n \in Nat
        PROVE  G[n] = IF n = 0 THEN 1 ELSE 10 * G[n - 1]
    <3>1. CASE n = 0
      BY <1>1, <3>1 DEF Powers
    <3>2. CASE n # 0
      <4>1. n - 1 \in Nat
        BY <3>2
      <4>2. F[n - 1][n - 1] = F[n][n - 1]
        <5>1. Powers(F[n - 1], n - 1) /\ Powers(F[n], n)
          BY <1>1, <4>1
        <5>2. n - 1 <= n /\ n - 1 \in 0..(n - 1)
          BY <4>1
        <5> HIDE DEF Powers
        <5>3. \A k \in 0..(n - 1) : F[n - 1][k] = F[n][k]
          BY <4>1, <5>1, <5>2, PowersAgree
        <5> QED BY <5>2, <5>3
      <4>3. F[n][n] = 10 * F[n][n - 1]
        BY <1>1, <3>2 DEF Powers
      <4> QED BY <3>2, <4>1, <4>2, <4>3
    <3> QED BY <3>1, <3>2
  <2> HIDE DEF G
  <2> QED BY <1>2, <2>1
<1> HIDE DEF G
<1>4. TenTo = [n \in Nat |-> IF n = 0 THEN 1 ELSE 10 * TenTo[n - 1]]
  BY <1>3 DEF TenTo
<1>5. TenTo \in [Nat -> Nat \ {0}]
  <2> DEFINE T == {n \in Nat : TenTo[n] \notin Nat \ {0}}
  <2> SUFFICES ASSUME T # {} PROVE FALSE
    BY <1>4
  <2>1. PICK n \in T : \A y \in T : n <= y
    <3> HIDE DEF T
    <3>1. T \in SUBSET Nat
      BY DEF T
    <3> QED BY <3>1, MinimumExists
  <2>2. CASE n = 0
    BY <1>4, <2>2, <2>1
  <2>3. CASE n # 0
    <3>1. n - 1 \in Nat /\ n - 1 \notin T
      BY <2>1, <2>3
    <3>2. TenTo[n] = 10 * TenTo[n - 1]
      BY <1>4, <2>3
    <3> QED BY <3>1, <3>2
  <2> QED BY <2>2, <2>3
<1> QED BY <1>4, <1>5

\* A product of positive numbers is positive.
LEMMA ProductPositive ==
    ASSUME NEW x \in Nat, NEW y \in Nat, x > 0, y > 0
    PROVE  x * y \in Nat /\ x * y > 0
  OBVIOUS

\* Scaling keeps a positive answer positive.
LEMMA ScaledPositive ==
    ASSUME decimals \in Decimals, NEW answer \in Nat, answer > 0
    PROVE  scaleChainlinkPrice(answer) \in Nat /\ scaleChainlinkPrice(answer) > 0
<1>1. decimals \in Nat /\ decimals <= TARGET_DIGITS /\ TARGET_DIGITS \in Nat
  BY FeedAssumption
<1>2. CASE decimals >= TARGET_DIGITS
  <2>1. decimals - TARGET_DIGITS = 0 /\ TenTo[0] = 1
    BY <1>1, <1>2, TenToDef
  <2> QED BY <1>2, <2>1 DEF scaleChainlinkPrice
<1>3. CASE ~(decimals >= TARGET_DIGITS)
  <2> DEFINE k == TenTo[TARGET_DIGITS - decimals]
  <2>1. k \in Nat /\ k > 0
    <3>1. TARGET_DIGITS - decimals \in Nat
      BY <1>1, <1>3
    <3> QED BY <3>1, TenToDef
  <2>2. scaleChainlinkPrice(answer) = answer * k
    BY <1>3 DEF scaleChainlinkPrice
  <2> HIDE DEF k
  <2>3. answer * k \in Nat /\ answer * k > 0
    BY <2>1, ProductPositive
  <2> QED BY <2>2, <2>3
<1> QED BY <1>2, <1>3

\* Scaling keeps the price of a working Tellor positive.
LEMMA ScaledTellorPositive ==
    ASSUME NEW value \in Nat, value > 0
    PROVE  scaleTellorPrice(value) \in Nat /\ scaleTellorPrice(value) > 0
<1> DEFINE k == TenTo[TARGET_DIGITS - TELLOR_DIGITS]
<1>1. k \in Nat /\ k > 0
  BY FeedAssumption, TenToDef
<1>2. scaleTellorPrice(value) = value * k
  BY DEF scaleTellorPrice
<1> HIDE DEF k
<1>3. value * k \in Nat /\ value * k > 0
  BY <1>1, ProductPositive
<1> QED BY <1>2, <1>3

\* The price of an oracle that is live is a positive number: a negative or
\* zero answer makes its oracle broken (_badChainlinkResponse).
LEMMA LivePrices ==
    ASSUME TypeOK
    PROVE  /\ chainlinkIsLive => chainlinkPrice \in Nat /\ chainlinkPrice > 0
           /\ tellorIsLive => tellorPrice \in Nat /\ tellorPrice > 0
<1>1. chainlinkIsLive => round.price \in Nat /\ round.price > 0
  BY DEF TypeOK, ResponseSet, chainlinkIsLive, chainlinkIsBroken, badResponse
<1>2. tellorIsLive => tellor.price \in Nat /\ tellor.price > 0
  BY DEF TypeOK, ResponseSet, tellorIsLive, tellorIsBroken, badResponse
<1>3. decimals \in Decimals
  BY DEF TypeOK
<1> QED BY <1>1, <1>2, <1>3, ScaledPositive, ScaledTellorPositive
        DEF chainlinkPrice, tellorPrice

-----------------------------------------------------------------------------
(* fetchPrice *)

\* What a verdict of fetchPrice may be: the price comes from an oracle that
\* is live and that the new status names, or it is the last good one; and a
\* feed that did not trust Chainlink trusts it only if both oracles agree.
SoundVerdict(v) ==
    /\ v.status \in StatusSet
    /\ v.source \in {"chainlink", "tellor", "last"}
    /\ v.source = "chainlink" =>
           /\ chainlinkIsLive
           /\ v.status \in {"chainlinkWorking", "usingChainlinkTellorUntrusted"}
    /\ v.source = "tellor" =>
           /\ tellorIsLive
           /\ v.status \in {"usingTellorChainlinkUntrusted", "usingTellorChainlinkFrozen"}
    /\ v.status = "chainlinkWorking" =>
           bothLiveAndSimilar \/ status = "chainlinkWorking"
    /\ v.source = "chainlink" /\ chainlinkPriceChangeAboveMax =>
           \/ tellorIsLive /\ bothOraclesSimilarPrice
           \/ status = "usingTellorChainlinkFrozen" /\ tellorIsBroken

\* Every branch of the five cases of fetchPrice is sound.
LEMMA VerdictSound ==
    ASSUME status \in StatusSet
    PROVE  SoundVerdict(verdict)
<1> USE DEF SoundVerdict, StatusSet, Verdict, currentTellor, chainlinkIsLive, tellorIsLive,
            bothLiveAndSimilar
<1>1. CASE status = "chainlinkWorking"
  BY <1>1 DEF verdict, whenChainlinkWorking
<1>2. CASE status = "usingTellorChainlinkUntrusted"
  BY <1>2 DEF verdict, whenChainlinkUntrusted
<1>3. CASE status = "bothOraclesUntrusted"
  BY <1>3 DEF verdict, whenBothUntrusted
<1>4. CASE status = "usingTellorChainlinkFrozen"
  BY <1>4 DEF verdict, whenChainlinkFrozen
<1>5. CASE status = "usingChainlinkTellorUntrusted"
  BY <1>5 DEF verdict, whenTellorUntrusted
<1> QED BY <1>1, <1>2, <1>3, <1>4, <1>5

\* What fetchPrice does, by the source of the price.
LEMMA FetchPriceSound ==
    ASSUME FeedInv, fetchPrice
    PROVE  /\ SoundVerdict(verdict)
           /\ status' = verdict.status
           /\ verdict.source = "chainlink" => lastGoodPrice' = chainlinkPrice
           /\ verdict.source = "tellor" => lastGoodPrice' = tellorPrice
           /\ verdict.source = "last" => lastGoodPrice' = lastGoodPrice
<1>1. status \in StatusSet
  BY DEF FeedInv, TypeOK, fetchPrice
<1>2. SoundVerdict(verdict)
  BY <1>1, VerdictSound
<1> QED BY <1>2 DEF fetchPrice, priceFrom

-----------------------------------------------------------------------------
(* The invariant *)

\* The feed before its addresses are set.
LEMMA InitFeed == Init => FeedInv
  BY FeedAssumption
     DEF Init, FeedInv, TypeOK, PositivePrice, Response, ResponseSet, Ages

\* The oracles' steps keep their responses well formed.
LEMMA OraclesFeed ==
    ASSUME FeedInv, Oracles
    PROVE  FeedInv'
<1> USE FeedAssumption DEF FeedInv, TypeOK, PositivePrice, feedVars
<1>1. CASE newRound
  BY <1>1 DEF newRound, Response, ResponseSet, Ages
<1>2. CASE chainlinkToggles
  BY <1>2 DEF chainlinkToggles, ResponseSet
<1>3. CASE changeDecimals
  BY <1>3 DEF changeDecimals
<1>4. CASE tellorReports
  BY <1>4 DEF tellorReports, Response, ResponseSet, Ages
<1>5. CASE tellorFails
  BY <1>5 DEF tellorFails, Response, ResponseSet, Ages
<1>6. CASE tick
  <2>1. ASSUME NEW P, NEW r \in ResponseSet(P) PROVE older(r) \in ResponseSet(P)
    BY DEF older, ResponseSet, Ages
  <2> QED BY <1>6, <2>1 DEF tick
<1> QED BY <1>1, <1>2, <1>3, <1>4, <1>5, <1>6 DEF Oracles

\* Every step of the feed and of the oracles keeps the invariant.
LEMMA NextFeed == FeedInv /\ [Next]_vars => FeedInv'
<1> SUFFICES ASSUME FeedInv, [Next]_vars PROVE FeedInv'
  OBVIOUS
<1>1. CASE setAddresses
  BY <1>1, LivePrices
     DEF setAddresses, FeedInv, TypeOK, PositivePrice, oracleVars, StatusSet
<1>2. CASE fetchPrice
  <2>1. status # "unset" /\ UNCHANGED oracleVars
    BY <1>2 DEF fetchPrice
  <2>2. status' \in StatusSet /\ lastGoodPrice' \in Nat /\ lastGoodPrice' > 0
    BY <1>2, <2>1, FetchPriceSound, LivePrices
       DEF SoundVerdict, FeedInv, TypeOK, PositivePrice
  <2> QED BY <2>1, <2>2 DEF FeedInv, TypeOK, PositivePrice, oracleVars
<1>3. CASE Oracles
  BY <1>3, OraclesFeed
<1>4. CASE UNCHANGED vars
  BY <1>4 DEF vars, feedVars, oracleVars, FeedInv, TypeOK, PositivePrice
<1> QED BY <1>1, <1>2, <1>3, <1>4 DEF Next

\* Whatever the oracles answer, and in whatever order they fail, freeze,
\* change their decimals and recover, the feed that setAddresses has set up
\* has one of the five statuses and a positive price.
THEOREM FeedInvariance == Spec => []FeedInv
<1> QED BY InitFeed, NextFeed, PTL DEF Spec

\* The steps of fetchPrice among those of the system, for the properties
\* of steps.
LEMMA StatusSteps ==
    ASSUME FeedInv, [Next]_vars, status # "unset", status' # status
    PROVE  fetchPrice
  BY DEF Next, Oracles, setAddresses, newRound, chainlinkToggles, changeDecimals,
         tellorReports, tellorFails, tick, vars, feedVars

\* Every price that fetchPrice stores anew is the present report of an
\* oracle that is neither broken nor frozen and that the status names.
THEOREM PricesCurrent == Spec => PricesAreCurrent
<1>1. FeedInv /\ [Next]_vars =>
          [fetchPrice /\ lastGoodPrice' # lastGoodPrice =>
               \/ /\ chainlinkIsLive /\ lastGoodPrice' = chainlinkPrice
                  /\ status' \in {"chainlinkWorking", "usingChainlinkTellorUntrusted"}
               \/ /\ tellorIsLive /\ lastGoodPrice' = tellorPrice
                  /\ status' \in {"usingTellorChainlinkUntrusted",
                                  "usingTellorChainlinkFrozen"}]_vars
  BY FetchPriceSound DEF SoundVerdict
<1> QED BY <1>1, FeedInvariance, PTL DEF Spec, PricesAreCurrent

\* A jump of Chainlink's price is confirmed by Tellor before fetchPrice uses
\* it, except by a feed that leaves Tellor because it has broken.
THEOREM JumpsConfirmed == Spec => JumpsAreConfirmed
<1>1. FeedInv /\ [Next]_vars =>
          [/\ fetchPrice /\ lastGoodPrice' # lastGoodPrice
           /\ lastGoodPrice' = chainlinkPrice /\ chainlinkPriceChangeAboveMax
           => \/ tellorIsLive /\ (bothOraclesSimilarPrice
                                    \/ tellorPrice = lastGoodPrice')
              \/ status = "usingTellorChainlinkFrozen" /\ tellorIsBroken]_vars
  BY FetchPriceSound DEF SoundVerdict
<1> QED BY <1>1, FeedInvariance, PTL DEF Spec, JumpsAreConfirmed

\* No path through the five cases of fetchPrice, of any length, trusts
\* Chainlink again without both oracles live and in agreement.
THEOREM TrustEarned == Spec => TrustIsEarned
<1>1. FeedInv /\ [Next]_vars =>
          [/\ status \in StatusSet \ {"chainlinkWorking"}
           /\ status' = "chainlinkWorking"
           => bothLiveAndSimilar]_vars
  <2> SUFFICES ASSUME FeedInv, [Next]_vars, status \in StatusSet \ {"chainlinkWorking"},
                      status' = "chainlinkWorking"
               PROVE  bothLiveAndSimilar
    OBVIOUS
  <2>1. fetchPrice
    BY StatusSteps DEF StatusSet
  <2> QED BY <2>1, FetchPriceSound DEF SoundVerdict
<1> QED BY <1>1, FeedInvariance, PTL DEF Spec, TrustIsEarned
=============================================================================
