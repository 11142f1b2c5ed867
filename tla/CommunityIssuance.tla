-------------------------- MODULE CommunityIssuance --------------------------
(***************************************************************************)
(* DEFT/CommunityIssuance.sol: DEFT is issued to the stability pool along  *)
(* a curve, 1 - f^t of the cap after t minutes.  The stability pool calls  *)
(* issueDEFT with every operation and sendDEFT for every gain it pays.     *)
(***************************************************************************)
EXTENDS DecPow

CONSTANTS
    ISSUANCE_FACTOR,
    ISSUANCE_MINUTE         \* SECONDS_IN_ONE_MINUTE

ASSUME IssuanceAssumption ==
    /\ ISSUANCE_FACTOR \in 0..(DECIMAL_PRECISION - 1)
    /\ ISSUANCE_MINUTE \in Nat \ {0}

VARIABLES
    DEFTSupplyCap, startTime, totalDEFTIssued,
    deftOfIssuance,         \* DEFT that the contract owns
    issuedToPool            \* history: DEFT issued less DEFT sent on

issuanceVars == <<DEFTSupplyCap, startTime, totalDEFTIssued, deftOfIssuance, issuedToPool>>

IssuanceInit(deft) ==
    /\ DEFTSupplyCap = 0
    /\ startTime = 0
    /\ totalDEFTIssued = 0
    /\ deftOfIssuance = deft
    /\ issuedToPool = 0

\* Mutant: issuance can be started again.
restartIssuance(cap, time) ==
    /\ cap > 0
    /\ cap <= deftOfIssuance
    /\ DEFTSupplyCap' = cap
    /\ startTime' = time
    /\ UNCHANGED <<totalDEFTIssued, deftOfIssuance, issuedToPool>>

startIssuance(cap, time) ==
    /\ cap > 0
    /\ cap <= deftOfIssuance
    /\ startTime = 0
    /\ DEFTSupplyCap' = cap
    /\ startTime' = time
    /\ UNCHANGED <<totalDEFTIssued, deftOfIssuance, issuedToPool>>

getCumulativeIssuanceFraction(time) ==
    DECIMAL_PRECISION
        - decPow(ISSUANCE_FACTOR, (time - startTime) \div ISSUANCE_MINUTE)

latestTotalDEFTIssued(time) ==
    (DEFTSupplyCap * getCumulativeIssuanceFraction(time)) \div DECIMAL_PRECISION

\* SafeMath reverts if the total would decrease.
issueDEFT(time) ==
    /\ startTime > 0
    /\ latestTotalDEFTIssued(time) >= totalDEFTIssued
    /\ totalDEFTIssued' = latestTotalDEFTIssued(time)
    /\ issuedToPool' = issuedToPool + (latestTotalDEFTIssued(time) - totalDEFTIssued)
    /\ UNCHANGED <<DEFTSupplyCap, startTime, deftOfIssuance>>

\* The contract sends what the pool asks for, as long as it owns it; that the
\* pool asks for no more than it was issued is a matter of StabilityPool
\* (DEFTGainsNearlyBacked).
sendDEFT(amount) ==
    /\ startTime > 0
    /\ amount <= deftOfIssuance
    /\ issuedToPool' = issuedToPool - amount
    /\ deftOfIssuance' = deftOfIssuance - amount
    /\ UNCHANGED <<DEFTSupplyCap, startTime, totalDEFTIssued>>
=============================================================================
