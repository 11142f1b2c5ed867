-------------------------- MODULE BorrowerOperations --------------------------
(***************************************************************************)
(* BorrowerOperations.sol: opening, adjusting and closing a trove, and     *)
(* claiming a collateral surplus; and the stability pool's and the USDD    *)
(* token's operations that touch the same storage.                         *)
(*                                                                         *)
(* The borrowing rate is any member of BorrowingRates: the base rate that  *)
(* determines it is not part of this module.  A caller whose maximum fee   *)
(* is exceeded is a transaction that never happened.                       *)
(***************************************************************************)
EXTENDS ProtocolState

CONSTANTS
    BorrowingRates,     \* values of getBorrowingRate()
    OpenColl,           \* _collAmount of openTrove
    OpenUSDD,           \* _USDDAmount of openTrove
    Adjustments,        \* arguments of adjustTrove and its special cases
    DepositAmounts,     \* _amount of provideToSP and withdrawFromSP
    TransferAmounts     \* amounts of USDD token transfers

AdjustmentSet == [collIn: Nat, collOut: Nat, usdd: Nat, increase: BOOLEAN]

ASSUME BorrowerAssumption ==
    /\ BorrowingRates \subseteq Nat
    /\ OpenColl \subseteq Nat
    /\ OpenUSDD \subseteq Nat
    /\ Adjustments \subseteq AdjustmentSet
    /\ DepositAmounts \subseteq Nat
    /\ TransferAmounts \subseteq Nat

-----------------------------------------------------------------------------
(* openTrove *)

\* Mutant: the collateral taken out is counted as put in.
newTCRWrongSign(collIn, collOut, debtUp, debtDown, price) ==
    computeCR(getEntireSystemColl + collIn + collOut,
              getEntireSystemDebt + debtUp - debtDown, price)

\* The total ratio after a change of one trove, computed beforehand
newTCRFromTroveChange(collIn, collOut, debtUp, debtDown, price) ==
    computeCR(getEntireSystemColl + collIn - collOut,
              getEntireSystemDebt + debtUp - debtDown, price)

openTrove(b, price, collAmount, USDDAmount, rate) ==
    LET isRecoveryMode == checkRecoveryMode(price)
        USDDFee == IF isRecoveryMode THEN 0 ELSE feeOf(rate, USDDAmount)
        netDebt == USDDAmount + USDDFee
        compositeDebt == getCompositeDebt(netDebt)
        ICR == computeCR(collAmount, compositeDebt, price)
        NICR == computeNominalCR(collAmount, compositeDebt)
        newTCR == newTCRFromTroveChange(collAmount, 0, compositeDebt, 0, price)
        newColl == Troves[b].coll + collAmount
        newStake == computeNewStake(newColl)
    IN /\ Transact
       /\ ~Active(b)
       /\ netDebt >= MIN_NET_DEBT
       /\ IF isRecoveryMode THEN ICR >= CCR ELSE ICR >= MCR /\ newTCR >= CCR
       /\ StakeComputable
       /\ Troves[b].stake <= totalStakes
       /\ Troves' = [Troves EXCEPT ![b] =
              TroveOf("active", newColl, Troves[b].debt + compositeDebt,
                      newStake)]
       /\ rewardSnapshots' = [rewardSnapshots EXCEPT ![b] =
              [COLL |-> L_COLL, USDDDebt |-> L_USDDDebt]]
       /\ totalStakes' = removeStake(b) + newStake
       /\ ~contains(b)
       /\ InsertInto(sortedTroves, b, NICR)
       /\ addTroveOwnerToArray(b)
       /\ activePool' = PoolPlus(activePool, collAmount, compositeDebt)
       /\ wethHeld' = wethHeld + collAmount
       /\ totalSupply' = totalSupply + USDDFee + USDDAmount
                             + USDD_GAS_COMPENSATION
       /\ balances' = [balances EXCEPT ![b] = @ + USDDAmount]
       /\ gasPoolUSDD' = gasPoolUSDD + USDD_GAS_COMPENSATION
       /\ stakingUSDD' = stakingUSDD + USDDFee
       /\ UNCHANGED <<snapshotVars, rewardVars, defaultPool, COLLS, surplusOf,
                      stabilityPool, stakingColl, stabilityPoolUSDD>>

-----------------------------------------------------------------------------
(* _adjustTrove, with its requires split off.  Everything is computed from *)
(* the trove as it stands after its pending rewards have been applied.     *)

\* The borrowing fee: none in Recovery Mode or without a debt increase
adjustmentFee(price, adj, rate) ==
    IF adj.increase /\ ~checkRecoveryMode(price)
    THEN feeOf(rate, adj.usdd) ELSE 0

newTroveColl(b, adj) == collApplied(b) + adj.collIn - adj.collOut
newTroveDebt(b, adj, fee) ==
    IF adj.increase THEN debtApplied(b) + adj.usdd + fee
                    ELSE debtApplied(b) - adj.usdd

\* _requireValidAdjustmentInCurrentMode
validAdjustmentInCurrentMode(b, price, adj, fee) ==
    LET oldICR == computeCR(collApplied(b), debtApplied(b), price)
        newICR == computeCR(newTroveColl(b, adj), newTroveDebt(b, adj, fee),
                            price)
        newTCR == IF adj.increase
                  THEN newTCRFromTroveChange(adj.collIn, adj.collOut,
                                             adj.usdd + fee, 0, price)
                  ELSE newTCRFromTroveChange(adj.collIn, adj.collOut,
                                             0, adj.usdd, price)
    IN IF checkRecoveryMode(price)
       THEN /\ adj.collOut = 0
            /\ adj.increase => newICR >= CCR /\ newICR >= oldICR
       ELSE newICR >= MCR /\ newTCR >= CCR

adjustRequires(b, price, adj, fee) ==
    /\ adj.increase => adj.usdd > 0
    /\ adj.collIn = 0 \/ adj.collOut = 0
    /\ adj.collIn # 0 \/ adj.collOut # 0 \/ adj.usdd # 0
    /\ Active(b)
    /\ adj.collOut <= collApplied(b)
    /\ ~adj.increase => adj.usdd <= debtApplied(b)
    /\ validAdjustmentInCurrentMode(b, price, adj, fee)
    /\ ~adj.increase /\ adj.usdd > 0 =>
           /\ debtApplied(b) >= USDD_GAS_COMPENSATION + adj.usdd
           /\ getNetDebt(debtApplied(b)) - adj.usdd >= MIN_NET_DEBT
           /\ balances[b] >= adj.usdd

\* The trove, the list and the pools; the callers move the tokens.
updateTroveFromAdjustment(b, price, adj, rate) ==
    LET fee == adjustmentFee(price, adj, rate)
        newColl == newTroveColl(b, adj)
        newDebt == newTroveDebt(b, adj, fee)
        newStake == computeNewStake(newColl)
    IN /\ adjustRequires(b, price, adj, fee)
       /\ SnapshotsCovered(b)
       /\ Covers(defaultPool, appliedColl(b), appliedDebt(b))
       /\ StakeComputable
       /\ Troves[b].stake <= totalStakes
       /\ Troves' = [Troves EXCEPT ![b] =
              TroveOf("active", newColl, newDebt, newStake)]
       /\ rewardSnapshots' =
              [rewardSnapshots EXCEPT ![b] = appliedSnapshot(b)]
       /\ totalStakes' = removeStake(b) + newStake
       /\ contains(b)
       /\ InsertInto(Without(sortedTroves, b), b,
                     computeNominalCR(newColl, newDebt))
       /\ defaultPool' =
              PoolMinus(defaultPool, appliedColl(b), appliedDebt(b))
       /\ adj.collOut <= activePool.coll + appliedColl(b)
       /\ ~adj.increase => adj.usdd <= activePool.debt + appliedDebt(b)
       /\ activePool' = [
              coll |-> activePool.coll + appliedColl(b) + adj.collIn
                           - adj.collOut,
              debt |-> activePool.debt + appliedDebt(b)
                           + (IF adj.increase THEN adj.usdd + fee
                                              ELSE 0 - adj.usdd)]
       /\ UNCHANGED <<TroveOwners, arrayIndex>>

adjustTrove(b, price, adj, rate) ==
    LET fee == adjustmentFee(price, adj, rate)
    IN /\ Transact
       /\ updateTroveFromAdjustment(b, price, adj, rate)
       /\ adj.increase \/ adj.usdd <= balances[b]
       /\ wethHeld' = wethHeld + adj.collIn - adj.collOut
       /\ IF adj.increase
          THEN /\ totalSupply' = totalSupply + adj.usdd + fee
               /\ balances' = [balances EXCEPT ![b] = @ + adj.usdd]
               /\ stakingUSDD' = stakingUSDD + fee
          ELSE /\ totalSupply' = totalSupply - adj.usdd
               /\ balances' = [balances EXCEPT ![b] = @ - adj.usdd]
               /\ UNCHANGED stakingUSDD
       /\ UNCHANGED <<snapshotVars, rewardVars, COLLS, surplusOf,
                      stabilityPool, stakingColl, gasPoolUSDD,
                      stabilityPoolUSDD>>

\* StabilityPool.withdrawCollGainToTrove, which calls moveCollGainToTrove.
\* The caller's gain is taken to be the pool's whole collateral.
withdrawCollGainToTrove(b, price) ==
    LET gain == stabilityPool.coll
        adj == [collIn |-> gain, collOut |-> 0, usdd |-> 0,
                increase |-> FALSE]
    IN /\ Transact
       /\ gain > 0
       /\ updateTroveFromAdjustment(b, price, adj, 0)
       /\ stabilityPool' =
              [deposits |-> stabilityPool.deposits, coll |-> 0]
       /\ UNCHANGED <<snapshotVars, rewardVars, COLLS, surplusOf, stakingColl,
                      wethHeld, usddVars>>

-----------------------------------------------------------------------------
(* closeTrove and claimCollateral *)

closeTroveByOwner(b, price) ==
    LET coll == collApplied(b)
        debt == debtApplied(b)
        newTCR == newTCRFromTroveChange(0, coll, 0, debt, price)
    IN /\ Transact
       /\ Active(b)
       /\ ~checkRecoveryMode(price)
       /\ SnapshotsCovered(b)
       /\ Covers(defaultPool, appliedColl(b), appliedDebt(b))
       /\ debt >= USDD_GAS_COMPENSATION
       /\ balances[b] >= getNetDebt(debt)
       /\ coll <= activePool.coll + appliedColl(b)
       /\ debt <= activePool.debt + appliedDebt(b)
       /\ newTCR >= CCR
       /\ closeTrove(b, "closedByOwner")
       /\ defaultPool' =
              PoolMinus(defaultPool, appliedColl(b), appliedDebt(b))
       /\ activePool' = [coll |-> activePool.coll + appliedColl(b) - coll,
                         debt |-> activePool.debt + appliedDebt(b) - debt]
       /\ wethHeld' = wethHeld - coll
       /\ USDD_GAS_COMPENSATION <= gasPoolUSDD
       /\ totalSupply' = totalSupply - debt
       /\ balances' = [balances EXCEPT ![b] = @ - getNetDebt(debt)]
       /\ gasPoolUSDD' = gasPoolUSDD - USDD_GAS_COMPENSATION
       /\ UNCHANGED <<snapshotVars, rewardVars, COLLS, surplusOf,
                      stabilityPool, stakingColl, stabilityPoolUSDD,
                      stakingUSDD>>

claimCollateral(b) ==
    /\ Transact
    /\ surplusOf[b] > 0
    /\ surplusOf[b] <= COLLS
    /\ surplusOf' = [surplusOf EXCEPT ![b] = 0]
    /\ COLLS' = COLLS - surplusOf[b]
    /\ wethHeld' = wethHeld - surplusOf[b]
    /\ UNCHANGED <<troveVars, snapshotVars, rewardVars, activePool,
                   defaultPool, stabilityPool, stakingColl, usddVars>>

-----------------------------------------------------------------------------
(* The stability pool seen from the troves: its total deposits and its     *)
(* collateral.  Which depositor owns how much is StabilityPool.sol's own   *)
(* business; here an operation pays out no gain, or all there is.          *)

collGains == {0, stabilityPool.coll}

provideToSP(u, amount, gain) ==
    /\ Transact
    /\ amount > 0
    /\ amount <= balances[u]
    /\ balances' = [balances EXCEPT ![u] = @ - amount]
    /\ stabilityPoolUSDD' = stabilityPoolUSDD + amount
    /\ stabilityPool' = [deposits |-> stabilityPool.deposits + amount,
                         coll |-> stabilityPool.coll - gain]
    /\ wethHeld' = wethHeld - gain
    /\ UNCHANGED <<troveVars, snapshotVars, rewardVars, activePool,
                   defaultPool, COLLS, surplusOf, stakingColl, totalSupply,
                   gasPoolUSDD, stakingUSDD>>

noUnderCollateralizedTroves(price) ==
    getLast # NoOne => getCurrentICR(getLast, price) >= MCR

withdrawFromSP(u, amount, gain, price) ==
    LET withdrawn == min(amount, stabilityPool.deposits)
    IN /\ Transact
       /\ amount # 0 => noUnderCollateralizedTroves(price)
       /\ stabilityPool.deposits > 0 \/ stabilityPool.coll > 0
       /\ withdrawn <= stabilityPoolUSDD
       /\ stabilityPoolUSDD' = stabilityPoolUSDD - withdrawn
       /\ balances' = [balances EXCEPT ![u] = @ + withdrawn]
       /\ stabilityPool' = [deposits |-> stabilityPool.deposits - withdrawn,
                            coll |-> stabilityPool.coll - gain]
       /\ wethHeld' = wethHeld - gain
       /\ UNCHANGED <<troveVars, snapshotVars, rewardVars, activePool,
                      defaultPool, COLLS, surplusOf, stakingColl, totalSupply,
                      gasPoolUSDD, stakingUSDD>>

-----------------------------------------------------------------------------
(* USDDToken.transfer between users *)

transferUSDD(from, to, amount) ==
    /\ Transact
    /\ from # to
    /\ amount <= balances[from]
    /\ balances' = [u \in Users |-> CASE u = from -> balances[u] - amount
                                      [] u = to -> balances[u] + amount
                                      [] OTHER -> balances[u]]
    /\ UNCHANGED <<troveVars, snapshotVars, rewardVars, poolVars, totalSupply,
                   gasPoolUSDD, stabilityPoolUSDD, stakingUSDD>>
=============================================================================
