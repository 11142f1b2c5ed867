------------------------------- MODULE Protocol -------------------------------
(***************************************************************************)
(* The USDD protocol: borrowers, depositors, liquidators and redeemers     *)
(* submit transactions in any order and at any price the feed may report.  *)
(***************************************************************************)
EXTENDS BorrowerOperations, Liquidation, Redemption

vars == <<troveVars, snapshotVars, rewardVars, poolVars, usddVars,
          controlVars, liqVars, redVars>>

Init ==
    /\ Troves = [b \in Borrowers |-> TroveOf("nonExistent", 0, 0, 0)]
    /\ rewardSnapshots = [b \in Borrowers |-> [COLL |-> 0, USDDDebt |-> 0]]
    /\ TroveOwners = <<>>
    /\ arrayIndex = [b \in Borrowers |-> 0]
    /\ sortedTroves = <<>>
    /\ totalStakes = 0
    /\ totalStakesSnapshot = 0
    /\ totalCollateralSnapshot = 0
    /\ L_COLL = 0
    /\ L_USDDDebt = 0
    /\ lastETHError = 0
    /\ lastUSDDDebtError = 0
    /\ activePool = [coll |-> 0, debt |-> 0]
    /\ defaultPool = [coll |-> 0, debt |-> 0]
    /\ COLLS = 0
    /\ surplusOf = [b \in Borrowers |-> 0]
    /\ stabilityPool = [deposits |-> 0, coll |-> 0]
    /\ stakingColl = 0
    /\ wethHeld = 0
    /\ totalSupply = 0
    /\ balances = [u \in Users |-> 0]
    /\ gasPoolUSDD = 0
    /\ stabilityPoolUSDD = 0
    /\ stakingUSDD = 0
    /\ pc = "idle"
    /\ saved = NothingSaved
    /\ txCount = 0
    /\ panicked = FALSE
    /\ liqArgs = [price |-> 0, liquidator |-> NoOne, loop |-> "none",
                  recovery |-> FALSE, firstUser |-> NoOne]
    /\ cursor = [n |-> 0, user |-> NoOne, todo |-> <<>>]
    /\ running = [inPool |-> 0, sysDebt |-> 0, sysColl |-> 0,
                  backToNormalMode |-> FALSE]
    /\ totals = zeroVals
    /\ redArgs = [price |-> 0, redeemer |-> NoOne]
    /\ redeeming = Progress(NoOne, 0, 0, 0, 0, FALSE)

-----------------------------------------------------------------------------
(* Who may do what *)

BorrowerStep(b, price) ==
    \/ \E c \in OpenColl, a \in OpenUSDD, rate \in BorrowingRates :
           openTrove(b, price, c, a, rate)
    \/ \E adj \in Adjustments, rate \in BorrowingRates :
           adjustTrove(b, price, adj, rate)
    \/ withdrawCollGainToTrove(b, price)
    \/ closeTroveByOwner(b, price)

DepositorStep(u, price) ==
    \E a \in DepositAmounts, gain \in collGains :
        provideToSP(u, a, gain) \/ withdrawFromSP(u, a, gain, price)

BeginLoop(k, price) ==
    \/ \E n \in LiquidateCounts : liquidateTroves(k, price, n)
    \/ \E batch \in Batches : batchLiquidateTroves(k, price, batch)

LiquidationStep ==
    skipTrove \/ liquidateTrove \/ finishLiquidation \/ revertLiquidation

BeginRedemption(k, price) ==
    \E a \in RedeemAmounts, hint \in Borrowers \cup {NoOne},
       limit \in IterationLimits :
        redeemCollateral(k, price, a, hint, limit)

RedemptionStep ==
    \/ redeemWhole \/ redeemPartly \/ cancelPartial \/ revertRedemption
    \/ \E rate \in RedemptionRates : finishRedemption(rate)

\* Nobody submits a transaction.  The deadlock check then says that every
\* transaction in flight can be completed or reverted.
Quiet == pc = "idle" /\ UNCHANGED vars

Next ==
    \/ \E b \in Borrowers, price \in Prices :
           BorrowerStep(b, price) /\ UNCHANGED <<liqVars, redVars>>
    \/ \E b \in Borrowers : claimCollateral(b) /\ UNCHANGED <<liqVars, redVars>>
    \/ \E u \in Users, price \in Prices :
           DepositorStep(u, price) /\ UNCHANGED <<liqVars, redVars>>
    \/ \E u, v \in Users, a \in TransferAmounts :
           transferUSDD(u, v, a) /\ UNCHANGED <<liqVars, redVars>>
    \/ \E k \in Keepers, price \in Prices :
           BeginLoop(k, price) /\ UNCHANGED redVars
    \/ LiquidationStep /\ UNCHANGED redVars
    \/ \E k \in Keepers, price \in Prices :
           BeginRedemption(k, price) /\ UNCHANGED liqVars
    \/ RedemptionStep /\ UNCHANGED liqVars
    \/ Quiet

Spec == Init /\ [][Next]_vars

\* The EVM runs a transaction that it has begun to its end.
FairSpec ==
    Spec /\ WF_vars(LiquidationStep /\ UNCHANGED redVars)
         /\ WF_vars(RedemptionStep /\ UNCHANGED liqVars)

-----------------------------------------------------------------------------
(* Types *)

SavedSet ==
    [Troves: [Borrowers -> TroveSet],
     rewardSnapshots: [Borrowers -> RewardSnapshotSet],
     TroveOwners: Seq(Borrowers), arrayIndex: [Borrowers -> Nat],
     sortedTroves: Seq(Borrowers), totalStakes: Nat,
     totalStakesSnapshot: Nat, totalCollateralSnapshot: Nat,
     L_COLL: Nat, L_USDDDebt: Nat, lastETHError: Nat, lastUSDDDebtError: Nat,
     activePool: PoolSet, defaultPool: PoolSet, COLLS: Nat,
     surplusOf: [Borrowers -> Nat], stabilityPool: StabilityPoolSet,
     stakingColl: Nat, wethHeld: Nat, totalSupply: Nat,
     balances: [Users -> Nat], gasPoolUSDD: Nat, stabilityPoolUSDD: Nat,
     stakingUSDD: Nat]

LiqArgsSet == [price: Nat, liquidator: Users \cup {NoOne},
               loop: {"none", "sequence", "batch"}, recovery: BOOLEAN,
               firstUser: Borrowers \cup {NoOne}]
CursorSet == [n: Nat, user: Borrowers \cup {NoOne}, todo: Seq(Borrowers)]
RunningSet == [inPool: Nat, sysDebt: Nat, sysColl: Nat,
               backToNormalMode: BOOLEAN]
RedArgsSet == [price: Nat, redeemer: Users \cup {NoOne}]
ProgressSet == [user: Borrowers \cup {NoOne}, remaining: Nat,
                iterations: Nat, redeemed: Nat, drawn: Nat,
                cancelled: BOOLEAN]

TroveTypes ==
    /\ Troves \in [Borrowers -> TroveSet]
    /\ rewardSnapshots \in [Borrowers -> RewardSnapshotSet]
    /\ TroveOwners \in Seq(Borrowers)
    /\ arrayIndex \in [Borrowers -> Nat]
    /\ sortedTroves \in Seq(Borrowers)
    /\ totalStakes \in Nat

RewardTypes ==
    /\ totalStakesSnapshot \in Nat
    /\ totalCollateralSnapshot \in Nat
    /\ L_COLL \in Nat
    /\ L_USDDDebt \in Nat
    /\ lastETHError \in Nat
    /\ lastUSDDDebtError \in Nat

PoolTypes ==
    /\ activePool \in PoolSet
    /\ defaultPool \in PoolSet
    /\ COLLS \in Nat
    /\ surplusOf \in [Borrowers -> Nat]
    /\ stabilityPool \in StabilityPoolSet
    /\ stakingColl \in Nat
    /\ wethHeld \in Nat

TokenTypes ==
    /\ totalSupply \in Nat
    /\ balances \in [Users -> Nat]
    /\ gasPoolUSDD \in Nat
    /\ stabilityPoolUSDD \in Nat
    /\ stakingUSDD \in Nat

ControlTypes ==
    /\ pc \in {"idle", "liquidating", "redeeming"}
    /\ pc # "idle" => saved \in SavedSet
    /\ txCount \in Nat
    /\ panicked \in BOOLEAN

LoopTypes ==
    /\ liqArgs \in LiqArgsSet
    /\ cursor \in CursorSet
    /\ running \in RunningSet
    /\ totals \in ValuesSet
    /\ redArgs \in RedArgsSet
    /\ redeeming \in ProgressSet
    /\ pc = "liquidating" => liqArgs.price \in Prices /\ liqArgs.liquidator # NoOne
    /\ pc = "redeeming" => redArgs.price \in Prices /\ redArgs.redeemer # NoOne

\* Every amount recorded by a contract is a natural number, also inside a
\* transaction and in the storage to which it may roll back.  SafeMath
\* checks most subtractions; the burns and WETH transfers rely on the books.
TypeOK ==
    /\ TroveTypes
    /\ RewardTypes
    /\ PoolTypes
    /\ TokenTypes
    /\ ControlTypes
    /\ LoopTypes

-----------------------------------------------------------------------------
(* What the books must show.  The invariants hold between the steps of a   *)
(* transaction too, where amounts are in flight: `totals' of a liquidation *)
(* and `redeeming' of a redemption.                                        *)

SumOver(S, f(_)) == SumFunction([x \in S |-> f(x)])

\* Every USDD in existence is owed by some trove: the token's supply is the
\* debt recorded by the active and the default pool.  (Mints and burns of
\* BorrowerOperations, TroveManager and StabilityPool against the pools'
\* increaseUSDDDebt and decreaseUSDDDebt, which are separate calls.)
SupplyMatchesDebt == totalSupply = getEntireSystemDebt

\* Every USDD is held by a user or by one of the three contracts that may
\* hold it, and the stability pool holds exactly the deposits it records.
USDDAccountedFor ==
    /\ totalSupply = SumFunction(balances) + gasPoolUSDD + stabilityPoolUSDD
                         + stakingUSDD
    /\ stabilityPoolUSDD = stabilityPool.deposits

\* The gas pool holds the liquidation reserve of every open trove, and of
\* those the liquidation in flight has closed and not yet paid for.
GasPoolReserved ==
    gasPoolUSDD = USDD_GAS_COMPENSATION * Cardinality(ActiveTroves)
                      + totals.gasUSDD

\* The collateral the contracts own is the collateral they have recorded:
\* no transfer between pools loses or double counts any.
CollateralAccountedFor ==
    wethHeld = activePool.coll + defaultPool.coll + COLLS
                   + stabilityPool.coll + stakingColl

\* What a reverted transaction restores is balanced too.
SavedBalanced ==
    pc # "idle" =>
        /\ saved.totalSupply = saved.activePool.debt + saved.defaultPool.debt
        /\ saved.wethHeld = saved.activePool.coll + saved.defaultPool.coll
                               + saved.COLLS + saved.stabilityPool.coll
                               + saved.stakingColl

\* The two books and the types together are inductive: an amount burned or
\* sent stays non-negative only because the books are balanced.
LedgerInv ==
    /\ TypeOK
    /\ SupplyMatchesDebt
    /\ CollateralAccountedFor
    /\ SavedBalanced

\* The active pool holds the collateral and owes the debt of the open
\* troves, rewards they have not applied excluded, and what is in flight.
ActivePoolMatchesTroves ==
    /\ activePool.coll = SumOver(Borrowers, LAMBDA b : Troves[b].coll)
                             + totals.coll + redeeming.drawn
    /\ activePool.debt = SumOver(Borrowers, LAMBDA b : Troves[b].debt)
                             + totals.debt + redeeming.redeemed

\* The default pool can pay the pending collateral rewards of all troves
\* together, so that no rounding of L_COLL or the stakes makes the last
\* trove's _movePendingTroveRewardsToActivePool revert.
CollRewardsCovered ==
    SumOver(Borrowers, getPendingCollReward) <= defaultPool.coll

\* The same for the pending debt.  hasPendingRewards does not look at the
\* debt, so this rests on a redistribution never raising L_USDDDebt alone:
\* on no stake being so large that its share of the collateral is zero.
DebtRewardsCovered ==
    SumOver(Borrowers, getPendingUSDDDebtReward) <= defaultPool.debt

\* totalStakes is the sum of the stakes, the divisor of a redistribution.
StakesAddUp == totalStakes = SumOver(Borrowers, LAMBDA b : Troves[b].stake)

\* CollSurplusPool can pay every claim: the surpluses that liquidations and
\* redemptions credit arrive in the pool, at the latest with the commit.
SurplusBacked ==
    SumFunction(surplusOf) = COLLS + totals.collSurplus

\* The array of owners, the sorted list and the troves' status agree, and
\* each owner is found at its arrayIndex after any swap-and-pop.
OwnersListed ==
    /\ ToSet(TroveOwners) = ActiveTroves
    /\ ToSet(sortedTroves) = ActiveTroves
    /\ Len(TroveOwners) = Cardinality(ActiveTroves)
    /\ Len(sortedTroves) = Cardinality(ActiveTroves)
    /\ \A b \in ActiveTroves :
           /\ arrayIndex[b] < Len(TroveOwners)
           /\ TroveOwners[arrayIndex[b] + 1] = b

\* No assert and no SafeMath check fails inside a liquidation or redemption
\* loop: one bad trove cannot block the liquidation of all others.
NoPanic == ~panicked

\* The comment and assert of _computeNewStake: while the snapshot of the
\* collateral is positive, so is the snapshot of the stakes.
StakeAlwaysComputable == StakeComputable

\* A trove keeps at least the minimum debt and some collateral, whatever is
\* repaid, withdrawn or redeemed, as long as it is open.
TrovesAreWhole(troves) ==
    \A b \in Borrowers :
        troves[b].status = "active" =>
            /\ troves[b].debt >= MIN_NET_DEBT + USDD_GAS_COMPENSATION
            /\ troves[b].coll > 0
OpenTrovesAreWhole == TrovesAreWhole(Troves)

\* An open trove has a positive stake, so that it shares in redistributions.
OpenTrovesShare == \A b \in ActiveTroves : Troves[b].stake > 0

\* hasPendingRewards compares the collateral only, and yet sees every trove
\* with a pending debt: a redistribution never raises L_USDDDebt alone.
RewardsSeen ==
    \A b \in ActiveTroves :
        rewardSnapshots[b].COLL = L_COLL => rewardSnapshots[b].USDDDebt = L_USDDDebt

\* The books of all contracts agree with the troves, also between the steps
\* of a loop: whoever is owed USDD, collateral, a reward of collateral, a
\* reserve or a surplus can be paid, and whoever has a trove is listed.
BooksInv ==
    /\ USDDAccountedFor
    /\ GasPoolReserved
    /\ SurplusBacked
    /\ ActivePoolMatchesTroves
    /\ CollRewardsCovered
    /\ OwnersListed

\* Every open trove is whole and has its part of a redistribution, the
\* default pool holds the debt of all parts, and of the next trove that is
\* opened or changed the stake can be computed.
StakesSound ==
    /\ StakesAddUp
    /\ DebtRewardsCovered
    /\ StakeAlwaysComputable
    /\ OpenTrovesAreWhole
    /\ OpenTrovesShare
    /\ RewardsSeen

-----------------------------------------------------------------------------
(* What a step may never do *)

\* A step that brings the system from Normal into Recovery Mode at a price,
\* or lowers the total collateral ratio in Recovery Mode
EndangersSystem(price) ==
    IF checkRecoveryMode(price)
    THEN getTCR(price)' < getTCR(price)
    ELSE checkRecoveryMode(price)'

\* Such a step is never a borrower's at that price, whatever fee the
\* operation added to the debt after its checks of the new total ratio.
BorrowersKeepSystemSafe ==
    [][\A price \in Prices :
           EndangersSystem(price) =>
               ~ \E b \in Borrowers : BorrowerStep(b, price)]_vars

\* A trove at or above MCR is only liquidated out of Recovery Mode's loop,
\* by a full offset against the stability pool; its owner loses collateral
\* worth MCR times the debt and may claim the rest.
CappedLiquidation ==
    [][\A b \in Borrowers :
           /\ liquidateTrove
           /\ Active(b) /\ ~Active(b)'
           /\ getCurrentICR(b, liqArgs.price) >= MCR
           => /\ liqArgs.recovery
              /\ totals'.debtToRedistribute = totals.debtToRedistribute
              /\ (surplusOf'[b] - surplusOf[b]) * liqArgs.price
                     >= entireColl(b) * liqArgs.price - entireDebt(b) * MCR
      ]_vars

\* A trove at or above MCR is only liquidated while its ratio is below the
\* total ratio that the preceding liquidations of the same transaction have
\* left (the comment on the last branch of _liquidateRecoveryMode).
CappedOnlyBelowTCR ==
    [][\A b \in Borrowers :
           /\ liquidateTrove
           /\ Active(b) /\ ~Active(b)'
           /\ getCurrentICR(b, liqArgs.price) >= MCR
           => getCurrentICR(b, liqArgs.price) <
                  computeCR(getEntireSystemColl - totals.collToSendToSP
                                - totals.collSurplus,
                            getEntireSystemDebt - totals.debtToOffset,
                            liqArgs.price)]_vars

\* The walk up the list, which reads the next trove before it closes or moves
\* the current one, never comes to a trove that is not worth its debt.
RedeemedAreSolvent ==
    pc = "redeeming" /\ ~RedemptionOver
        => getCurrentICR(redeeming.user, redArgs.price) >= _100pct

\* A redemption takes collateral from a trove only at face value, so that
\* no redemption lowers the collateral ratio of a trove it leaves open nor
\* takes from a trove below MCR; it only ever comes to troves that are solvent.
RedemptionAtFaceValue ==
    [][/\ RedeemedAreSolvent
       /\ \A b \in Borrowers :
              b = redeeming.user /\ (redeemWhole \/ redeemPartly) =>
                  /\ getCurrentICR(b, redArgs.price) >= MCR
                  /\ Active(b)' => getCurrentICR(b, redArgs.price)'
                                       >= getCurrentICR(b, redArgs.price)
                  /\ (redeeming'.drawn - redeeming.drawn) * redArgs.price
                         <= (redeeming'.redeemed - redeeming.redeemed)
                                * DECIMAL_PRECISION]_vars

-----------------------------------------------------------------------------
(* What must happen *)

\* A liquidation or a redemption that has begun ends: its loop does not go
\* round for ever, whatever it closes, skips or re-inserts on its way.
TransactionsEnd == pc # "idle" ~> pc = "idle"
=============================================================================
