--------------------------- MODULE TroveValidation ---------------------------
(***************************************************************************)
(* The front end's validation of a change of a trove against what the      *)
(* contracts then do with it, in every state that the protocol can be in.  *)
(* The store is up to date and nothing comes between.                      *)
(***************************************************************************)
EXTENDS Protocol, TroveChange

CONSTANTS EditColl, EditDebt    \* collateral and debt that a user may type in

ASSUME ValidationAssumption == EditColl \subseteq Nat /\ EditDebt \subseteq Nat

edits == {Trove(c, d) : c \in EditColl, d \in EditDebt}

\* Mutant: what was redistributed since the trove last changed is left out.
storedTrove(b) == Trove(Troves[b].coll, Troves[b].debt)

\* TroveWithPendingRedistribution.applyRedistribution
applyRedistribution(b) ==
    LET gain(L, snapshot) == (less(L, snapshot) * Troves[b].stake) \div DECIMAL_PRECISION
    IN  Trove(Troves[b].coll + gain(L_COLL, rewardSnapshots[b].COLL),
              Troves[b].debt + gain(L_USDDDebt, rewardSnapshots[b].USDDDebt))

\* getTotal
total == Trove(getEntireSystemColl, getEntireSystemDebt)

\* Fees.borrowingRate
clientRate(rate, price) == IF checkRecoveryMode(price) THEN 0 ELSE rate

\* What TroveManager.tsx and TroveAction.tsx offer to send for an edit
changeTo(b, edited, rate, price) ==
    whatChanged(applyRedistribution(b), edited, clientRate(rate, price))

\* ... for all that a user may type in
changes(b, rate, price) == {changeTo(b, e, rate, price) : e \in edits}

offered(b, change, rate, price) ==
    validChange(applyRedistribution(b), change, clientRate(rate, price), price, total,
                balances[b], Len(TroveOwners))

afterFee(b, change, rate, price) ==
    applyChange(applyRedistribution(b), change, clientRate(rate, price))

\* The transaction that TroveAction sends.
execute(b, change, rate, price) ==
    /\ CASE change.type = "creation" -> openTrove(b, price, change.deposit, change.borrow, rate)
         [] change.type = "closure" -> closeTroveByOwner(b, price)
         [] change.type = "adjustment" ->
                adjustTrove(b, price,
                            [collIn |-> change.deposit, collOut |-> change.withdraw,
                             usdd |-> change.borrow + change.repay,
                             increase |-> change.borrow > 0], rate)
    /\ UNCHANGED <<liqVars, redVars>>

\* A state from which a transaction may be sent
AtRest == pc = "idle" /\ txCount < MaxTx

-----------------------------------------------------------------------------

\* The contracts leave the trove that the front end announced, to the last
\* unit: "the exact state the Trove will end up in" of validateTroveChange,
\* with pending redistributions and the borrowing fee.
PredictedTrove ==
    AtRest => \A b \in Borrowers, rate \in BorrowingRates, price \in Prices :
        \A change \in changes(b, rate, price) :
            offered(b, change, rate, price) =>
                ~ENABLED (/\ execute(b, change, rate, price)
                          /\ Trove(Troves'[b].coll, Troves'[b].debt)
                                 # afterFee(b, change, rate, price))

\* The four kinds of change that the front end offers although the contracts
\* may refuse them: an adjustment that only adds collateral or repays and does
\* not reach MCR; in Recovery Mode any withdrawal, and borrowing below CCR; and
\* a closure that brings the total ratio below CCR.
knownGap(b, change, rate, price) ==
    LET after == afterFee(b, change, rate, price)
        recovery == checkRecoveryMode(price)
    IN  \/ /\ change.type = "adjustment"
           /\ IF recovery
              THEN change.withdraw > 0 \/ (change.borrow > 0 /\ collateralRatioIsBelowCritical(after, price))
              ELSE collateralRatioIsBelowMinimum(after, price)
        \/ /\ change.type = "closure"
           /\ collateralRatioIsBelowCritical(subtract(total, applyRedistribution(b)), price)

\* A change that the front end offers is carried out by the contracts, apart
\* from the known gaps.
OfferedChangeAccepted ==
    AtRest => \A b \in Borrowers, rate \in BorrowingRates, price \in Prices :
        \A change \in changes(b, rate, price) :
            offered(b, change, rate, price) =>
                \/ knownGap(b, change, rate, price)
                \/ ENABLED execute(b, change, rate, price)

\* The front end refuses no change that the contracts would carry out.
NothingRefusedWrongly ==
    AtRest => \A b \in Borrowers, rate \in BorrowingRates, price \in Prices :
        \A change \in changes(b, rate, price) :
            /\ change.type \notin {"none", "invalidCreation"}
            /\ ~offered(b, change, rate, price)
            => ~ENABLED execute(b, change, rate, price)

\* The front end's validation and the contracts' requirements agree, apart
\* from the known gaps.
ValidationAgrees == OfferedChangeAccepted /\ NothingRefusedWrongly
=============================================================================
