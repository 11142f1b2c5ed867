------------------------------ MODULE PriceFeed ------------------------------
(***************************************************************************)
(* PriceFeed.sol for one collateral token: the price comes from Chainlink, *)
(* from Tellor when Chainlink cannot be trusted, or is the last good one.  *)
(*                                                                         *)
(* The oracles are the environment.  They report, stall, fail, change      *)
(* their decimals and recover at any time; `age' is block.timestamp minus  *)
(* the timestamp of a response, negative for one in the future and EPOCH   *)
(* for the timestamp zero.  `ok' says that the call did not revert and, for*)
(* Chainlink, that the roundId is not zero.                                *)
(***************************************************************************)
EXTENDS Integers

CONSTANTS
    DECIMAL_PRECISION,                          \* one, as a fixed-point number
    TIMEOUT,                                    \* oldest current response
    MAX_PRICE_DEVIATION_FROM_PREVIOUS_ROUND,    \* 50%
    MAX_PRICE_DIFFERENCE_BETWEEN_ORACLES,       \* 5%
    TARGET_DIGITS,                              \* digits of a stored price
    TELLOR_DIGITS,                              \* digits of a Tellor value
    EPOCH,                                      \* age of the timestamp zero
    ChainlinkAnswers,                           \* what the oracles report
    TellorValues,
    Decimals                                    \* Chainlink's decimals()

ASSUME FeedAssumption ==
    /\ DECIMAL_PRECISION \in Nat \ {0}
    /\ TIMEOUT \in Nat
    /\ MAX_PRICE_DEVIATION_FROM_PREVIOUS_ROUND \in Nat
    /\ MAX_PRICE_DIFFERENCE_BETWEEN_ORACLES \in Nat
    /\ TARGET_DIGITS \in Nat
    /\ TELLOR_DIGITS \in 0..TARGET_DIGITS
    /\ EPOCH \in Nat /\ EPOCH > TIMEOUT + 1
    /\ ChainlinkAnswers \subseteq Int
    /\ TellorValues \subseteq Nat
    \* No more digits than a stored price has: the feeds have 8 of 18.  With
    \* more, scaling down could round a price to zero.
    /\ Decimals \subseteq 0..TARGET_DIGITS

VARIABLES
    status,         \* priceFeeds[collToken].status, or "unset"
    lastGoodPrice,  \* priceFeeds[collToken].lastGoodPrice
    round,          \* Chainlink's latestRoundData
    prevRound,      \* Chainlink's getRoundData of the round before
    decimals,       \* Chainlink's decimals
    tellor          \* TellorCaller.getTellorCurrentValue

feedVars == <<status, lastGoodPrice>>
oracleVars == <<round, prevRound, decimals, tellor>>
vars == <<feedVars, oracleVars>>

StatusSet == {"chainlinkWorking", "usingTellorChainlinkUntrusted",
              "bothOraclesUntrusted", "usingTellorChainlinkFrozen",
              "usingChainlinkTellorUntrusted"}

\* Ages are counted up to the first one that is too old.
Ages == (-1)..(TIMEOUT + 1) \cup {EPOCH}
Response(ok, price, age) == [ok |-> ok, price |-> price, age |-> age]
ResponseSet(prices) == [ok: BOOLEAN, price: prices, age: Ages]

-----------------------------------------------------------------------------
(* The oracles' responses *)

\* Mutant: any answer will do.
badTimeOnly(r) == ~r.ok \/ r.age = EPOCH \/ r.age < 0

badResponse(r) == ~r.ok \/ r.age = EPOCH \/ r.age < 0 \/ r.price <= 0
chainlinkIsBroken == badResponse(round) \/ badResponse(prevRound)
tellorIsBroken == badResponse(tellor)

isFrozen(r) == r.age > TIMEOUT

TenTo[n \in Nat] == IF n = 0 THEN 1 ELSE 10 * TenTo[n - 1]

scaleChainlinkPrice(answer) ==
    IF decimals >= TARGET_DIGITS
    THEN answer \div TenTo[decimals - TARGET_DIGITS]
    ELSE answer * TenTo[TARGET_DIGITS - decimals]
scaleTellorPrice(value) == value * TenTo[TARGET_DIGITS - TELLOR_DIGITS]

chainlinkPrice == scaleChainlinkPrice(round.price)
tellorPrice == scaleTellorPrice(tellor.price)

lower(a, b) == IF a < b THEN a ELSE b
higher(a, b) == IF a < b THEN b ELSE a
difference(a, b, reference) ==
    ((higher(a, b) - lower(a, b)) * DECIMAL_PRECISION) \div reference

\* More than halved or doubled: relative to the larger price
chainlinkPriceChangeAboveMax ==
    LET prev == scaleChainlinkPrice(prevRound.price)
    IN difference(chainlinkPrice, prev, higher(chainlinkPrice, prev))
           > MAX_PRICE_DEVIATION_FROM_PREVIOUS_ROUND

\* Relative to the lower price
bothOraclesSimilarPrice ==
    difference(chainlinkPrice, tellorPrice, lower(chainlinkPrice, tellorPrice))
        <= MAX_PRICE_DIFFERENCE_BETWEEN_ORACLES

chainlinkIsLive == ~chainlinkIsBroken /\ ~isFrozen(round)
tellorIsLive == ~tellorIsBroken /\ ~isFrozen(tellor)

bothLiveAndSimilar ==
    tellorIsLive /\ chainlinkIsLive /\ bothOraclesSimilarPrice

-----------------------------------------------------------------------------
(* fetchPrice: the next status and the source of the price, "chainlink",   *)
(* "tellor" or "last" for the last good price                              *)

Verdict(newStatus, source) == [status |-> newStatus, source |-> source]

\* Mutant: uses Tellor's price although it is old.
tellorHoweverOld == "tellor"

currentTellor == IF isFrozen(tellor) THEN "last" ELSE "tellor"

\* CASE 1 of fetchPrice
whenChainlinkWorking ==
    CASE chainlinkIsBroken /\ tellorIsBroken ->
            Verdict("bothOraclesUntrusted", "last")
      [] chainlinkIsBroken /\ ~tellorIsBroken ->
            Verdict("usingTellorChainlinkUntrusted", currentTellor)
      [] ~chainlinkIsBroken /\ isFrozen(round) /\ tellorIsBroken ->
            Verdict("usingChainlinkTellorUntrusted", "last")
      [] ~chainlinkIsBroken /\ isFrozen(round) /\ ~tellorIsBroken ->
            Verdict("usingTellorChainlinkFrozen", currentTellor)
      [] chainlinkIsLive /\ chainlinkPriceChangeAboveMax /\ tellorIsBroken ->
            Verdict("bothOraclesUntrusted", "last")
      [] chainlinkIsLive /\ chainlinkPriceChangeAboveMax /\ ~tellorIsBroken ->
            IF tellorIsLive /\ bothOraclesSimilarPrice
            THEN Verdict("chainlinkWorking", "chainlink")
            ELSE Verdict("usingTellorChainlinkUntrusted", currentTellor)
      [] OTHER ->
            Verdict(IF tellorIsBroken THEN "usingChainlinkTellorUntrusted"
                                      ELSE "chainlinkWorking", "chainlink")

\* CASE 2
whenChainlinkUntrusted ==
    CASE bothLiveAndSimilar -> Verdict("chainlinkWorking", "chainlink")
      [] ~bothLiveAndSimilar /\ tellorIsBroken ->
            Verdict("bothOraclesUntrusted", "last")
      [] OTHER -> Verdict("usingTellorChainlinkUntrusted", currentTellor)

\* CASE 3
whenBothUntrusted ==
    IF bothLiveAndSimilar THEN Verdict("chainlinkWorking", "chainlink")
                          ELSE Verdict("bothOraclesUntrusted", "last")

\* Mutant: leaves the frozen status as soon as Chainlink is live.
chainlinkThawed ==
    CASE chainlinkIsBroken -> Verdict("usingTellorChainlinkUntrusted", "last")
      [] ~chainlinkIsBroken /\ isFrozen(round) ->
            Verdict("usingTellorChainlinkFrozen", "last")
      [] OTHER -> Verdict("chainlinkWorking", "chainlink")

\* CASE 4
whenChainlinkFrozen ==
    CASE chainlinkIsBroken /\ tellorIsBroken ->
            Verdict("bothOraclesUntrusted", "last")
      [] chainlinkIsBroken /\ ~tellorIsBroken ->
            Verdict("usingTellorChainlinkUntrusted", currentTellor)
      [] ~chainlinkIsBroken /\ isFrozen(round) /\ tellorIsBroken ->
            Verdict("usingChainlinkTellorUntrusted", "last")
      [] ~chainlinkIsBroken /\ isFrozen(round) /\ ~tellorIsBroken ->
            Verdict("usingTellorChainlinkFrozen", currentTellor)
      [] chainlinkIsLive /\ tellorIsBroken ->
            Verdict("usingChainlinkTellorUntrusted", "chainlink")
      [] chainlinkIsLive /\ ~tellorIsBroken /\ isFrozen(tellor) ->
            Verdict("usingTellorChainlinkFrozen", "last")
      [] OTHER ->
            IF bothOraclesSimilarPrice
            THEN Verdict("chainlinkWorking", "chainlink")
            ELSE Verdict("usingTellorChainlinkUntrusted", "tellor")

\* Mutant: does not compare with the previous round.
jumpsUnnoticed ==
    CASE chainlinkIsBroken -> Verdict("bothOraclesUntrusted", "last")
      [] ~chainlinkIsBroken /\ isFrozen(round) ->
            Verdict("usingChainlinkTellorUntrusted", "last")
      [] bothLiveAndSimilar -> Verdict("chainlinkWorking", "chainlink")
      [] OTHER -> Verdict("usingChainlinkTellorUntrusted", "chainlink")

\* Mutant: does not return to Chainlink while Tellor is live.
staysUntrusted ==
    CASE chainlinkIsBroken -> Verdict("bothOraclesUntrusted", "last")
      [] ~chainlinkIsBroken /\ isFrozen(round) ->
            Verdict("usingChainlinkTellorUntrusted", "last")
      [] chainlinkIsLive /\ chainlinkPriceChangeAboveMax ->
            Verdict("bothOraclesUntrusted", "last")
      [] OTHER -> Verdict("usingChainlinkTellorUntrusted", "chainlink")

\* CASE 5
whenTellorUntrusted ==
    CASE chainlinkIsBroken -> Verdict("bothOraclesUntrusted", "last")
      [] ~chainlinkIsBroken /\ isFrozen(round) ->
            Verdict("usingChainlinkTellorUntrusted", "last")
      [] bothLiveAndSimilar -> Verdict("chainlinkWorking", "chainlink")
      [] chainlinkIsLive /\ ~bothLiveAndSimilar
             /\ chainlinkPriceChangeAboveMax ->
            Verdict("bothOraclesUntrusted", "last")
      [] OTHER -> Verdict("usingChainlinkTellorUntrusted", "chainlink")

verdict ==
    CASE status = "chainlinkWorking" -> whenChainlinkWorking
      [] status = "usingTellorChainlinkUntrusted" -> whenChainlinkUntrusted
      [] status = "bothOraclesUntrusted" -> whenBothUntrusted
      [] status = "usingTellorChainlinkFrozen" -> whenChainlinkFrozen
      [] OTHER -> whenTellorUntrusted

priceFrom(source) ==
    CASE source = "chainlink" -> chainlinkPrice
      [] source = "tellor" -> tellorPrice
      [] OTHER -> lastGoodPrice

\* Anyone may call it; it stores the status and the price it returns.
fetchPrice ==
    /\ status # "unset"
    /\ status' = verdict.status
    /\ lastGoodPrice' = priceFrom(verdict.source)
    /\ UNCHANGED oracleVars

\* Once, by the owner: Chainlink must be working and current.
setAddresses ==
    /\ status = "unset"
    /\ chainlinkIsLive
    /\ status' = "chainlinkWorking"
    /\ lastGoodPrice' = chainlinkPrice
    /\ UNCHANGED oracleVars

-----------------------------------------------------------------------------
(* The oracles *)

newRound ==
    /\ \E answer \in ChainlinkAnswers, age \in {-1, 0, EPOCH} :
           round' = Response(TRUE, answer, age)
    /\ prevRound' = round
    /\ UNCHANGED <<feedVars, decimals, tellor>>

\* A call to Chainlink starts or ceases to revert.
chainlinkToggles ==
    /\ \/ round' = [round EXCEPT !.ok = ~@] /\ UNCHANGED prevRound
       \/ prevRound' = [prevRound EXCEPT !.ok = ~@] /\ UNCHANGED round
    /\ UNCHANGED <<feedVars, decimals, tellor>>

changeDecimals ==
    /\ decimals' \in Decimals
    /\ UNCHANGED <<feedVars, round, prevRound, tellor>>

tellorReports ==
    /\ \E value \in TellorValues, age \in {-1, 0, EPOCH} :
           tellor' = Response(TRUE, value, age)
    /\ UNCHANGED <<feedVars, round, prevRound, decimals>>

\* A call to Tellor reverts: the response is empty.
tellorFails ==
    /\ tellor' = Response(FALSE, 0, EPOCH)
    /\ UNCHANGED <<feedVars, round, prevRound, decimals>>

older(r) == IF r.age > TIMEOUT THEN r ELSE [r EXCEPT !.age = @ + 1]

\* Time passes.
tick ==
    /\ round' = older(round)
    /\ prevRound' = older(prevRound)
    /\ tellor' = older(tellor)
    /\ UNCHANGED <<feedVars, decimals>>

Init ==
    /\ status = "unset"
    /\ lastGoodPrice = 0
    /\ round = Response(FALSE, 0, EPOCH)
    /\ prevRound = Response(FALSE, 0, EPOCH)
    /\ decimals \in Decimals
    /\ tellor = Response(FALSE, 0, EPOCH)

Oracles ==
    newRound \/ chainlinkToggles \/ changeDecimals \/ tellorReports \/ tellorFails
        \/ tick

Next == setAddresses \/ fetchPrice \/ Oracles

Spec == Init /\ [][Next]_vars

\* Every operation that needs a price fetches one, and anyone may.
FairSpec == Spec /\ WF_vars(fetchPrice)

-----------------------------------------------------------------------------
(* Properties *)

\* The status is one of the five of PriceFeed.sol once it is set up, and
\* the price is unsigned although Chainlink's answers are not.
TypeOK ==
    /\ status \in StatusSet \cup {"unset"}
    /\ lastGoodPrice \in Nat
    /\ round \in ResponseSet(Int)
    /\ prevRound \in ResponseSet(Int)
    /\ decimals \in Decimals
    /\ tellor \in ResponseSet(Nat)

\* From the moment it is set up the feed has a positive price to return: no
\* failed call, zero answer or negative int256 turned into a huge uint256
\* is ever stored.
PositivePrice == status # "unset" => lastGoodPrice > 0

\* Whatever the oracles answer, the feed has a status and a price to return.
FeedInv == TypeOK /\ PositivePrice

\* A new price is the current report of an oracle that is neither broken
\* nor frozen, and the status names the oracle it came from.
PricesAreCurrent ==
    [][fetchPrice /\ lastGoodPrice' # lastGoodPrice =>
           \/ /\ chainlinkIsLive /\ lastGoodPrice' = chainlinkPrice
              /\ status' \in {"chainlinkWorking",
                              "usingChainlinkTellorUntrusted"}
           \/ /\ tellorIsLive /\ lastGoodPrice' = tellorPrice
              /\ status' \in {"usingTellorChainlinkUntrusted",
                              "usingTellorChainlinkFrozen"}]_vars

\* A Chainlink price that has more than halved or doubled since the round
\* before is used only if Tellor confirms it; the one exception is a feed
\* that had switched to Tellor while Chainlink was frozen, which takes
\* Chainlink's price unchecked when it finds Tellor broken.
JumpsAreConfirmed ==
    [][/\ fetchPrice /\ lastGoodPrice' # lastGoodPrice
       /\ lastGoodPrice' = chainlinkPrice /\ chainlinkPriceChangeAboveMax
       => \/ tellorIsLive /\ (bothOraclesSimilarPrice
                                \/ tellorPrice = lastGoodPrice')
          \/ status = "usingTellorChainlinkFrozen" /\ tellorIsBroken]_vars

\* Chainlink is trusted again only when both oracles are live and agree.
TrustIsEarned ==
    [][/\ status \in StatusSet \ {"chainlinkWorking"}
       /\ status' = "chainlinkWorking"
       => bothLiveAndSimilar]_vars

\* Whatever has happened before, a feed whose oracles are both live and in
\* agreement from some moment on returns to Chainlink.
FeedRecovers ==
    <>[](status # "unset" /\ bothLiveAndSimilar)
        => <>[](status = "chainlinkWorking")
=============================================================================
