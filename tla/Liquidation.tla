----------------------------- MODULE Liquidation -----------------------------
(***************************************************************************)
(* The liquidation functions of TroveManager.sol.                          *)
(*                                                                         *)
(* liquidateTroves walks the sorted list from its tail, batchLiquidate-    *)
(* Troves a list given by the caller; each has a loop for a system in      *)
(* Normal Mode and one for a system that is in Recovery Mode when the      *)
(* transaction begins.  One step handles one trove; the transaction then   *)
(* offsets, redistributes and pays what the loop has totalled.             *)
(***************************************************************************)
EXTENDS ProtocolState

CONSTANTS
    LiquidateCounts,    \* _n of liquidateTroves
    Batches             \* _troveArray of batchLiquidateTroves

ASSUME LiquidationAssumption ==
    /\ LiquidateCounts \subseteq Nat
    /\ Batches \subseteq Seq(Borrowers)

VARIABLES
    liqArgs,    \* price, liquidator, loop ("sequence" or "batch"),
                \* recoveryModeAtStart and firstUser
    cursor,     \* troves still to visit: n and user, or todo
    running,    \* remainingUSDDInStabPool, backToNormalMode and the entire
                \* system collateral and debt as the loop tracks them
    totals      \* LiquidationTotals

liqVars == <<liqArgs, cursor, running, totals>>

-----------------------------------------------------------------------------
(* LiquidationValues: what liquidating one trove amounts to.  `gasUSDD' is *)
(* the trove's share of the gas pool, `gasColl' 0.5% of its collateral.    *)

Values(debt, coll, gasColl, gasUSDD, offset, toSP, surplus) ==
    [debt |-> debt, coll |-> coll, gasColl |-> gasColl, gasUSDD |-> gasUSDD,
     debtToOffset |-> offset, collToSendToSP |-> toSP,
     debtToRedistribute |-> debt - offset,
     collToRedistribute |-> coll - gasColl - toSP - surplus,
     collSurplus |-> surplus]

ValuesSet == [debt: Nat, coll: Nat, gasColl: Nat, gasUSDD: Nat,
              debtToOffset: Nat, collToSendToSP: Nat,
              debtToRedistribute: Nat, collToRedistribute: Nat,
              collSurplus: Nat]

zeroVals == Values(0, 0, 0, 0, 0, 0, 0)

\* Mutant: addToTotals forgets the reserves.
addWithoutGas(t, v) ==
    [f \in DOMAIN t |-> IF f = "gasUSDD" THEN t[f] ELSE t[f] + v[f]]

\* _addLiquidationValuesToTotals
addToTotals(t, v) ==
    [debt |-> t.debt + v.debt, coll |-> t.coll + v.coll,
     gasColl |-> t.gasColl + v.gasColl, gasUSDD |-> t.gasUSDD + v.gasUSDD,
     debtToOffset |-> t.debtToOffset + v.debtToOffset,
     collToSendToSP |-> t.collToSendToSP + v.collToSendToSP,
     debtToRedistribute |-> t.debtToRedistribute + v.debtToRedistribute,
     collToRedistribute |-> t.collToRedistribute + v.collToRedistribute,
     collSurplus |-> t.collSurplus + v.collSurplus]

\* Offset against the stability pool's `inPool' USDD as far as they reach,
\* redistribute the rest: _getOffsetAndRedistributionVals
offsetAndRedistributionVals(b, inPool) ==
    LET debt == entireDebt(b)
        coll == entireColl(b)
        gasColl == getCollGasCompensation(coll)
        offset == min(debt, inPool)
        toSP == ((coll - gasColl) * offset) \div debt
    IN Values(debt, coll, gasColl, USDD_GAS_COMPENSATION, offset, toSP, 0)

\* Mutant: the pool takes all of the collateral.
uncappedOffsetVals(b, price) == offsetAndRedistributionVals(b, entireDebt(b))

\* _getCappedOffsetVals: the pool gets collateral worth MCR times the debt,
\* the owner may claim the rest.
cappedOffsetVals(b, price) ==
    LET debt == entireDebt(b)
        coll == entireColl(b)
        collToOffset == (debt * MCR) \div price
        gasColl == getCollGasCompensation(collToOffset)
    IN Values(debt, coll, gasColl, USDD_GAS_COMPENSATION, debt,
              collToOffset - gasColl, coll - collToOffset)

\* _liquidateRecoveryMode
recoveryVals(b, ICR, inPool, TCR, price) ==
    CASE Len(TroveOwners) <= 1 -> zeroVals
      [] Len(TroveOwners) > 1 /\ ICR <= _100pct ->
            offsetAndRedistributionVals(b, 0)
      [] Len(TroveOwners) > 1 /\ ICR > _100pct /\ ICR < MCR ->
            offsetAndRedistributionVals(b, inPool)
      [] /\ Len(TroveOwners) > 1
         /\ ICR >= MCR /\ ICR < TCR /\ entireDebt(b) <= inPool ->
            cappedOffsetVals(b, price)
      [] OTHER -> zeroVals

-----------------------------------------------------------------------------
(* The loops *)

InRecoveryPhase == liqArgs.recovery /\ ~running.backToNormalMode

currentUser ==
    CASE liqArgs.loop = "batch" -> Head(cursor.todo)
      [] liqArgs.loop = "sequence" /\ liqArgs.recovery -> cursor.user
      [] OTHER -> getLast

\* A trove with ICR >= MCR can only be liquidated by a full offset.
hopeless(b) ==
    LET ICR == getCurrentICR(b, liqArgs.price)
    IN ICR >= MCR /\ (InRecoveryPhase => running.inPool = 0)

\* The loop condition is false, or the loop breaks at the current trove.
LoopOver ==
    IF liqArgs.loop = "batch"
    THEN cursor.todo = <<>>
    ELSE \/ cursor.n = 0
         \/ liqArgs.recovery /\ cursor.user = liqArgs.firstUser
         \/ currentUser # NoOne => hopeless(currentUser)

\* The values of one iteration: zero for a trove that is left alone
stepVals(b) ==
    LET ICR == getCurrentICR(b, liqArgs.price)
        TCR == computeCR(running.sysColl, running.sysDebt, liqArgs.price)
    IN IF ~Active(b) \/ hopeless(b) THEN zeroVals
       ELSE IF InRecoveryPhase
            THEN recoveryVals(b, ICR, running.inPool, TCR, liqArgs.price)
            ELSE offsetAndRedistributionVals(b, running.inPool)

\* Mutant: remainingUSDDInStabPool is not updated.
inPoolStale(v) == running.inPool

inPoolAfter(v) == running.inPool - v.debtToOffset

\* The aggregate trackers.  Only the sequence loop takes a surplus off the
\* system collateral.
runningAfter(v) ==
    LET inPool == inPoolAfter(v)
        sysDebt == running.sysDebt - v.debtToOffset
        sysColl == running.sysColl - v.collToSendToSP
                     - (IF liqArgs.loop = "sequence" THEN v.collSurplus
                                                     ELSE 0)
    IN IF InRecoveryPhase
       THEN [inPool |-> inPool, sysDebt |-> sysDebt, sysColl |-> sysColl,
             backToNormalMode |->
                 computeCR(sysColl, sysDebt, liqArgs.price) >= CCR]
       ELSE [inPool |-> inPool, sysDebt |-> running.sysDebt,
             sysColl |-> running.sysColl,
             backToNormalMode |-> running.backToNormalMode]

\* Mutant: the loop does not advance.
cursorStuck == cursor

cursorAfter ==
    [n |-> IF liqArgs.loop = "batch" THEN 0 ELSE cursor.n - 1,
     user |-> IF liqArgs.loop = "sequence" /\ liqArgs.recovery
              THEN getPrev(cursor.user) ELSE NoOne,
     todo |-> IF liqArgs.loop = "batch" THEN Tail(cursor.todo) ELSE <<>>]

noLiquidation ==
    /\ liqArgs' = [price |-> 0, liquidator |-> NoOne, loop |-> "none",
                   recovery |-> FALSE, firstUser |-> NoOne]
    /\ cursor' = [n |-> 0, user |-> NoOne, todo |-> <<>>]
    /\ running' = [inPool |-> 0, sysDebt |-> 0, sysColl |-> 0,
                   backToNormalMode |-> FALSE]
    /\ totals' = zeroVals

-----------------------------------------------------------------------------
(* The transactions *)

beginLiquidation(loop, liquidator, price, n, todo) ==
    /\ BeginTx("liquidating")
    /\ liqArgs' = [price |-> price, liquidator |-> liquidator,
                   loop |-> loop, recovery |-> checkRecoveryMode(price),
                   firstUser |-> getFirst]
    /\ cursor' = [n |-> n,
                  user |-> IF loop = "sequence" /\ checkRecoveryMode(price)
                           THEN getLast ELSE NoOne,
                  todo |-> todo]
    /\ running' = [inPool |-> stabilityPool.deposits,
                   sysDebt |-> getEntireSystemDebt,
                   sysColl |-> getEntireSystemColl,
                   backToNormalMode |-> FALSE]
    /\ totals' = zeroVals
    /\ UNCHANGED <<troveVars, snapshotVars, rewardVars, poolVars, usddVars>>

liquidateTroves(k, price, n) == beginLiquidation("sequence", k, price, n, <<>>)

\* liquidate(b) is the batch <<b>>, if b's trove is active
batchLiquidateTroves(k, price, troveArray) ==
    /\ troveArray # <<>>
    /\ beginLiquidation("batch", k, price, 0, troveArray)

\* The checks the code makes in an iteration that closes the trove of b
StepChecks(b, v) ==
    /\ SnapshotsCovered(b)
    /\ Covers(defaultPool, getPendingCollReward(b),
              getPendingUSDDDebtReward(b))
    /\ Troves[b].stake <= totalStakes
    /\ arrayIndex[b] < Len(TroveOwners)
    /\ contains(b)
    /\ v.debt > 0
    /\ v.gasColl <= v.coll
    /\ v.collToSendToSP >= 0
    /\ v.collSurplus >= 0
    /\ v.coll >= v.gasColl + v.collToSendToSP + v.collSurplus
    /\ v.debtToOffset <= running.inPool
    /\ InRecoveryPhase =>
           /\ v.debtToOffset <= running.sysDebt
           /\ v.collToSendToSP + v.collSurplus <= running.sysColl

\* An iteration that leaves its trove alone
skipTrove ==
    /\ pc = "liquidating"
    /\ ~LoopOver
    /\ stepVals(currentUser) = zeroVals
    /\ running' = runningAfter(zeroVals)
    /\ cursor' = cursorAfter
    /\ UNCHANGED <<liqArgs, totals, controlVars, troveVars, snapshotVars,
                   rewardVars, poolVars, usddVars>>

\* _liquidateNormalMode, or a branch of _liquidateRecoveryMode that closes
liquidateTrove ==
    /\ pc = "liquidating"
    /\ ~LoopOver
    /\ LET b == currentUser
           v == stepVals(b)
       IN /\ v # zeroVals
          /\ StepChecks(b, v)
          /\ closeTrove(b, "closedByLiquidation")
          /\ defaultPool' = PoolMinus(defaultPool, getPendingCollReward(b),
                                      getPendingUSDDDebtReward(b))
          /\ activePool' = PoolPlus(activePool, getPendingCollReward(b),
                                    getPendingUSDDDebtReward(b))
          /\ surplusOf' = [surplusOf EXCEPT ![b] = @ + v.collSurplus]
          /\ running' = runningAfter(v)
          /\ totals' = addToTotals(totals, v)
    /\ cursor' = cursorAfter
    /\ UNCHANGED <<liqArgs, controlVars, snapshotVars, rewardVars, COLLS,
                   stabilityPool, stakingColl, wethHeld, usddVars>>

\* _redistributeDebtAndColl: the sums and the carried division errors.  It
\* returns early, moving nothing, when there is no debt to redistribute.
collToMove ==
    IF totals.debtToRedistribute = 0 THEN 0 ELSE totals.collToRedistribute

redistributed ==
    LET ETHNumerator ==
            totals.collToRedistribute * DECIMAL_PRECISION + lastETHError
        DebtNumerator ==
            totals.debtToRedistribute * DECIMAL_PRECISION + lastUSDDDebtError
    IN IF totals.debtToRedistribute = 0
       THEN UNCHANGED rewardVars
       ELSE /\ L_COLL' = L_COLL + (ETHNumerator \div totalStakes)
            /\ L_USDDDebt' = L_USDDDebt + (DebtNumerator \div totalStakes)
            /\ lastETHError' = ETHNumerator
                   - (ETHNumerator \div totalStakes) * totalStakes
            /\ lastUSDDDebtError' = DebtNumerator
                   - (DebtNumerator \div totalStakes) * totalStakes

\* Mutant: the snapshot of the stakes is not taken.
snapshotOfCollOnly(coll) ==
    /\ totalCollateralSnapshot' = coll
    /\ UNCHANGED totalStakesSnapshot

\* _updateSystemSnapshots_excludeCollRemainder
updateSystemSnapshots(coll) ==
    /\ totalStakesSnapshot' = totalStakes
    /\ totalCollateralSnapshot' = coll

\* The checks made while the totals are moved: of the pools, the division
\* by totalStakes, the gas pool's balance and the pool's deposits
FinishChecks ==
    LET t == totals
    IN /\ t.debtToRedistribute # 0 => totalStakes > 0
       /\ Covers(activePool, t.collToSendToSP + collToMove
                     + t.collSurplus + t.gasColl,
                 t.debtToOffset + t.debtToRedistribute)
       /\ t.debtToOffset <= stabilityPool.deposits
       /\ t.debtToOffset <= stabilityPoolUSDD
       /\ t.gasUSDD <= gasPoolUSDD

\* The rest of _liquidateTroves and _batchLiquidateTroves
finishLiquidation ==
    /\ pc = "liquidating"
    /\ LoopOver
    /\ totals.debt > 0
    /\ FinishChecks
    /\ LET t == totals
           k == liqArgs.liquidator
       IN /\ redistributed
          /\ activePool' = PoolMinus(activePool,
                 t.collToSendToSP + collToMove + t.collSurplus
                     + t.gasColl,
                 t.debtToOffset + t.debtToRedistribute)
          /\ defaultPool' = PoolPlus(defaultPool, collToMove,
                                     t.debtToRedistribute)
          /\ stabilityPool' = [
                 deposits |-> stabilityPool.deposits - t.debtToOffset,
                 coll |-> stabilityPool.coll + t.collToSendToSP]
          /\ stabilityPoolUSDD' = stabilityPoolUSDD - t.debtToOffset
          /\ totalSupply' = totalSupply - t.debtToOffset
          /\ COLLS' = COLLS + t.collSurplus
          /\ updateSystemSnapshots(
                 getEntireSystemColl - t.collToSendToSP - t.collSurplus
                     - t.gasColl)
          /\ gasPoolUSDD' = gasPoolUSDD - t.gasUSDD
          /\ balances' = [balances EXCEPT ![k] = @ + t.gasUSDD]
          /\ wethHeld' = wethHeld - t.gasColl
    /\ noLiquidation
    /\ CommitTx
    /\ UNCHANGED <<troveVars, surplusOf, stakingColl, stakingUSDD>>

\* The next iteration, or the end of the transaction, cannot succeed.
LiquidationFails ==
    IF LoopOver
    THEN totals.debt = 0 \/ ~FinishChecks
    ELSE LET v == stepVals(currentUser)
         IN v # zeroVals /\ ~(MoreThanOneTrove /\ StepChecks(currentUser, v))

\* The transaction reverts: "nothing to liquidate", the last trove would be
\* closed, or (panicked) an assert or a SafeMath check fails.
revertLiquidation ==
    /\ pc = "liquidating"
    /\ LiquidationFails
    /\ RevertTx
    /\ noLiquidation
    /\ panicked' = (panicked \/ IF LoopOver THEN totals.debt > 0
                                           ELSE MoreThanOneTrove)
=============================================================================
