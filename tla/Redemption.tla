------------------------------ MODULE Redemption ------------------------------
(***************************************************************************)
(* TroveManager.redeemCollateral: USDD is exchanged at face value for the  *)
(* collateral of the troves with the lowest collateral ratio of at least   *)
(* MCR, one trove per step, walking up the sorted list.                    *)
(*                                                                         *)
(* The redemption rate is any member of RedemptionRates.  The hint for a   *)
(* partially redeemed trove is fresh or stale; the bootstrap period is     *)
(* over.                                                                   *)
(***************************************************************************)
EXTENDS ProtocolState

CONSTANTS
    RedemptionRates,    \* values of getRedemptionRate() after the update
    RedeemAmounts,      \* _USDDamount
    IterationLimits     \* _maxIterations, zero for no limit

ASSUME RedemptionAssumption ==
    /\ RedemptionRates \subseteq Nat
    /\ RedeemAmounts \subseteq Nat
    /\ IterationLimits \subseteq Nat

VARIABLES
    redArgs,    \* price and redeemer
    redeeming   \* currentBorrower, remainingUSDD, iterations left, the
                \* totals redeemed and drawn, and cancelledPartial

redVars == <<redArgs, redeeming>>

Progress(user, remaining, iterations, redeemed, drawn, cancelled) ==
    [user |-> user, remaining |-> remaining, iterations |-> iterations,
     redeemed |-> redeemed, drawn |-> drawn, cancelled |-> cancelled]

noRedemption ==
    /\ redArgs' = [price |-> 0, redeemer |-> NoOne]
    /\ redeeming' = Progress(NoOne, 0, 0, 0, 0, FALSE)

-----------------------------------------------------------------------------
(* Where to start *)

isValidFirstRedemptionHint(hint, price) ==
    /\ contains(hint)
    /\ getCurrentICR(hint, price) >= MCR
    /\ LET i == ListPosition(sortedTroves, hint)
       IN i = Len(sortedTroves)
          \/ getCurrentICR(sortedTroves[i + 1], price) < MCR

\* Mutant: starts at the tail, whatever its ratio.
tailOfList(price) == getLast

\* The first trove with ICR >= MCR, going up from the tail
lowestRedeemable(price) ==
    LET redeemable == {i \in 1..Len(sortedTroves) :
                           getCurrentICR(sortedTroves[i], price) >= MCR}
    IN IF redeemable = {} THEN NoOne
       ELSE sortedTroves[CHOOSE i \in redeemable :
                             \A j \in redeemable : j <= i]

redeemCollateral(k, price, amount, hint, maxIterations) ==
    /\ BeginTx("redeeming")
    /\ getTCR(price) >= MCR
    /\ amount > 0
    /\ balances[k] >= amount
    /\ balances[k] <= getEntireSystemDebt
    /\ redArgs' = [price |-> price, redeemer |-> k]
    /\ redeeming' = Progress(
           IF isValidFirstRedemptionHint(hint, price)
               THEN hint ELSE lowestRedeemable(price),
           amount,
           IF maxIterations = 0 THEN MAX_UINT ELSE maxIterations,
           0, 0, FALSE)
    /\ UNCHANGED <<troveVars, snapshotVars, rewardVars, poolVars, usddVars>>

-----------------------------------------------------------------------------
(* One trove: _applyPendingRewards, then _redeemCollateralFromTrove *)

RedemptionOver ==
    \/ redeeming.user = NoOne
    \/ redeeming.remaining = 0
    \/ redeeming.iterations = 0
    \/ redeeming.cancelled

USDDLot(b) == min(redeeming.remaining, debtApplied(b) - USDD_GAS_COMPENSATION)
CollLot(b) == (USDDLot(b) * DECIMAL_PRECISION) \div redArgs.price
debtAfterLot(b) == debtApplied(b) - USDDLot(b)
collAfterLot(b) == collApplied(b) - CollLot(b)
closesTrove(b) == debtAfterLot(b) = USDD_GAS_COMPENSATION

\* The checks of an iteration, apart from the require of _closeTrove
RedeemChecks(b) ==
    /\ SnapshotsCovered(b)
    /\ Covers(defaultPool, appliedColl(b), appliedDebt(b))
    /\ debtApplied(b) >= USDD_GAS_COMPENSATION
    /\ CollLot(b) <= collApplied(b)
    /\ Troves[b].stake <= totalStakes
    /\ contains(b)
    /\ IF closesTrove(b)
       THEN /\ USDD_GAS_COMPENSATION <= gasPoolUSDD
            /\ Covers(PoolPlus(activePool, appliedColl(b), appliedDebt(b)),
                      collAfterLot(b), USDD_GAS_COMPENSATION)
            /\ arrayIndex[b] < Len(TroveOwners)
       ELSE StakeComputable

\* Everything the trove owes is redeemed: it is closed, its reserve burned,
\* and what is left of its collateral becomes claimable.
redeemWhole ==
    /\ pc = "redeeming"
    /\ ~RedemptionOver
    /\ LET b == redeeming.user
           left == collAfterLot(b)
       IN /\ RedeemChecks(b)
          /\ closesTrove(b)
          /\ closeTrove(b, "closedByRedemption")
          /\ defaultPool' =
                 PoolMinus(defaultPool, appliedColl(b), appliedDebt(b))
          /\ activePool' = [
                 coll |-> activePool.coll + appliedColl(b) - left,
                 debt |-> activePool.debt + appliedDebt(b)
                              - USDD_GAS_COMPENSATION]
          /\ gasPoolUSDD' = gasPoolUSDD - USDD_GAS_COMPENSATION
          /\ totalSupply' = totalSupply - USDD_GAS_COMPENSATION
          /\ surplusOf' = [surplusOf EXCEPT ![b] = @ + left]
          /\ COLLS' = COLLS + left
          /\ redeeming' = Progress(getPrev(b),
                 redeeming.remaining - USDDLot(b), redeeming.iterations - 1,
                 redeeming.redeemed + USDDLot(b),
                 redeeming.drawn + CollLot(b), FALSE)
    /\ UNCHANGED <<redArgs, controlVars, snapshotVars, rewardVars,
                   stabilityPool, stakingColl, wethHeld, balances,
                   stabilityPoolUSDD, stakingUSDD>>

\* The rest of the amount is redeemed from part of the trove's debt.
redeemPartly ==
    /\ pc = "redeeming"
    /\ ~RedemptionOver
    /\ LET b == redeeming.user
           newStake == computeNewStake(collAfterLot(b))
       IN /\ RedeemChecks(b)
          /\ ~closesTrove(b)
          /\ getNetDebt(debtAfterLot(b)) >= MIN_NET_DEBT
          /\ Troves' = [Troves EXCEPT ![b] =
                 TroveOf("active", collAfterLot(b), debtAfterLot(b), newStake)]
          /\ rewardSnapshots' =
                 [rewardSnapshots EXCEPT ![b] = appliedSnapshot(b)]
          /\ totalStakes' = removeStake(b) + newStake
          /\ InsertInto(Without(sortedTroves, b), b,
                        computeNominalCR(collAfterLot(b), debtAfterLot(b)))
          /\ defaultPool' =
                 PoolMinus(defaultPool, appliedColl(b), appliedDebt(b))
          /\ activePool' =
                 PoolPlus(activePool, appliedColl(b), appliedDebt(b))
          /\ redeeming' = Progress(getPrev(b),
                 redeeming.remaining - USDDLot(b), redeeming.iterations - 1,
                 redeeming.redeemed + USDDLot(b),
                 redeeming.drawn + CollLot(b), FALSE)
    /\ UNCHANGED <<redArgs, controlVars, TroveOwners, arrayIndex,
                   snapshotVars, rewardVars, COLLS, surplusOf, stabilityPool,
                   stakingColl, wethHeld, usddVars>>

\* A partial redemption with a stale hint, or one that would leave less
\* than the minimum debt, stops the loop; the rewards stay applied.
cancelPartial ==
    /\ pc = "redeeming"
    /\ ~RedemptionOver
    /\ LET b == redeeming.user
       IN /\ RedeemChecks(b)
          /\ ~closesTrove(b)
          /\ Troves' = [Troves EXCEPT ![b] =
                 TroveOf("active", collApplied(b), debtApplied(b), Troves[b].stake)]
          /\ rewardSnapshots' =
                 [rewardSnapshots EXCEPT ![b] = appliedSnapshot(b)]
          /\ defaultPool' =
                 PoolMinus(defaultPool, appliedColl(b), appliedDebt(b))
          /\ activePool' =
                 PoolPlus(activePool, appliedColl(b), appliedDebt(b))
          /\ redeeming' = Progress(b, redeeming.remaining,
                 redeeming.iterations - 1, redeeming.redeemed,
                 redeeming.drawn, TRUE)
    /\ UNCHANGED <<redArgs, controlVars, TroveOwners, arrayIndex,
                   sortedTroves, totalStakes, snapshotVars, rewardVars, COLLS,
                   surplusOf, stabilityPool, stakingColl, wethHeld, usddVars>>

-----------------------------------------------------------------------------
(* The end of the transaction *)

RedemptionEndChecks ==
    /\ redeeming.redeemed <= balances[redArgs.redeemer]
    /\ Covers(activePool, redeeming.drawn, redeeming.redeemed)

\* The fee goes to DEFTStaking, the rest of the collateral to the redeemer.
finishRedemption(rate) ==
    LET fee == feeOf(rate, redeeming.drawn)
    IN /\ pc = "redeeming"
       /\ RedemptionOver
       /\ redeeming.drawn > 0
       /\ fee < redeeming.drawn
       /\ RedemptionEndChecks
       /\ activePool' =
              PoolMinus(activePool, redeeming.drawn, redeeming.redeemed)
       /\ stakingColl' = stakingColl + fee
       /\ wethHeld' = wethHeld - (redeeming.drawn - fee)
       /\ totalSupply' = totalSupply - redeeming.redeemed
       /\ balances' = [balances EXCEPT ![redArgs.redeemer] =
                           @ - redeeming.redeemed]
       /\ noRedemption
       /\ CommitTx
       /\ UNCHANGED <<troveVars, snapshotVars, rewardVars, defaultPool, COLLS,
                      surplusOf, stabilityPool, gasPoolUSDD,
                      stabilityPoolUSDD, stakingUSDD>>

RedemptionFails ==
    IF RedemptionOver
    THEN \/ redeeming.drawn = 0
         \/ ~RedemptionEndChecks
         \/ \E rate \in RedemptionRates :
                feeOf(rate, redeeming.drawn) >= redeeming.drawn
    ELSE LET b == redeeming.user
         IN ~RedeemChecks(b) \/ (closesTrove(b) /\ ~MoreThanOneTrove)

\* The transaction reverts: nothing could be redeemed, the fee takes all of
\* it, the last trove would be closed, or (panicked) a check fails.
revertRedemption ==
    /\ pc = "redeeming"
    /\ RedemptionFails
    /\ RevertTx
    /\ noRedemption
    /\ panicked' = (panicked \/ IF RedemptionOver
                                THEN redeeming.drawn > 0
                                     /\ ~RedemptionEndChecks
                                ELSE ~RedeemChecks(redeeming.user))
=============================================================================
