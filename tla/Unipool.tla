------------------------------- MODULE Unipool -------------------------------
(***************************************************************************)
(* LPRewards/Unipool.sol: a fixed amount of DEFT is paid at a constant     *)
(* rate over a period to those who stake liquidity tokens.  The clock is   *)
(* meant to stop while nobody stakes: the end of the period is moved when  *)
(* the empty pool is next used.                                            *)
(*                                                                         *)
(* A step is one transaction; one whose requirement fails is not a step.   *)
(***************************************************************************)
EXTENDS Integers, FiniteSets, Functions, Clock

CONSTANTS
    Providers,              \* liquidity providers
    UNIT,                   \* the 1e18 that scales the reward per token
    UniBalance              \* liquidity tokens each provider has at first

ASSUME UnipoolAssumption ==
    /\ IsFiniteSet(Providers)
    /\ UNIT \in Nat \ {0}
    /\ UniBalance \in Nat

VARIABLES
    duration, periodFinish, rewardRate, lastUpdateTime, rewardPerTokenStored,
    userRewardPerTokenPaid, rewards,
    totalSupply, balanceOf, \* of staked tokens
    deftBalance             \* DEFT that the contract owns

poolVars == <<duration, periodFinish, rewardRate, lastUpdateTime, rewardPerTokenStored,
              userRewardPerTokenPaid, rewards, totalSupply, balanceOf, deftBalance>>

UnipoolTypeOK ==
    /\ duration \in Nat
    /\ periodFinish \in Nat
    /\ rewardRate \in Nat
    /\ lastUpdateTime \in 0..periodFinish
    /\ lastUpdateTime <= now
    /\ rewardPerTokenStored \in Nat
    /\ userRewardPerTokenPaid \in [Providers -> 0..rewardPerTokenStored]
    /\ rewards \in [Providers -> Nat]
    /\ totalSupply \in Nat
    /\ balanceOf \in [Providers -> 0..UniBalance]
    /\ deftBalance \in Nat

\* Before start: DEFTToken's constructor has sent the contract its DEFT.
UnipoolInit(deft) ==
    /\ duration = 0
    /\ periodFinish = 0
    /\ rewardRate = 0
    /\ lastUpdateTime = 0
    /\ rewardPerTokenStored = 0
    /\ userRewardPerTokenPaid = [a \in Providers |-> 0]
    /\ rewards = [a \in Providers |-> 0]
    /\ totalSupply = 0
    /\ balanceOf = [a \in Providers |-> 0]
    /\ deftBalance = deft

-----------------------------------------------------------------------------
(* Views.  The operations evaluate them with the end of the period they    *)
(* have just moved.                                                        *)

\* lastTimeRewardApplicable
applicable(finish) == IF now < finish THEN now ELSE finish

\* rewardPerToken
perToken(finish) ==
    IF totalSupply = 0 THEN rewardPerTokenStored
    ELSE rewardPerTokenStored
            + ((applicable(finish) - lastUpdateTime) * rewardRate * UNIT) \div totalSupply

earnedBy(a, finish) ==
    IF periodFinish = 0 THEN 0
    ELSE (balanceOf[a] * (perToken(finish) - userRewardPerTokenPaid[a])) \div UNIT + rewards[a]

rewardPerToken == perToken(periodFinish)

earned(a) == earnedBy(a, periodFinish)

-----------------------------------------------------------------------------

\* Mutants: the period is not extended; it is extended by the time since
\* anything was last updated whether or not anybody stakes.
periodNotExtended == periodFinish

periodAlwaysExtended == periodFinish + (now - lastUpdateTime)

\* _updatePeriodFinish
extendedPeriod ==
    IF totalSupply = 0 THEN periodFinish + (now - lastUpdateTime) ELSE periodFinish

start(reward, length) ==
    /\ reward > 0
    /\ reward <= deftBalance
    /\ periodFinish = 0
    /\ duration' = length
    /\ rewardRate' = reward \div length
    /\ lastUpdateTime' = now
    /\ periodFinish' = now + length
    /\ rewardPerTokenStored' = rewardPerToken
    /\ UNCHANGED <<userRewardPerTokenPaid, rewards, totalSupply, balanceOf, deftBalance>>

\* _updateAccountReward, with the end of the period as just moved
updateAccountReward(a, finish) ==
    /\ rewardPerTokenStored' = perToken(finish)
    /\ lastUpdateTime' = applicable(finish)
    /\ userRewardPerTokenPaid' = [userRewardPerTokenPaid EXCEPT ![a] = perToken(finish)]

stakeUni(a, amount) ==
    /\ periodFinish > 0
    /\ amount > 0
    /\ balanceOf[a] + amount <= UniBalance
    /\ periodFinish' = extendedPeriod
    /\ updateAccountReward(a, extendedPeriod)
    /\ rewards' = [rewards EXCEPT ![a] = earnedBy(a, extendedPeriod)]
    /\ totalSupply' = totalSupply + amount
    /\ balanceOf' = [balanceOf EXCEPT ![a] = @ + amount]
    /\ UNCHANGED <<duration, rewardRate, deftBalance>>

\* withdraw does not move the end of the period: the pool is not empty.
withdraw(a, amount) ==
    /\ periodFinish > 0
    /\ amount > 0
    /\ balanceOf[a] >= amount
    /\ updateAccountReward(a, periodFinish)
    /\ rewards' = [rewards EXCEPT ![a] = earned(a)]
    /\ totalSupply' = totalSupply - amount
    /\ balanceOf' = [balanceOf EXCEPT ![a] = @ - amount]
    /\ UNCHANGED <<duration, periodFinish, rewardRate, deftBalance>>

claimReward(a) ==
    LET reward == earnedBy(a, extendedPeriod)
    IN  /\ periodFinish > 0
        /\ periodFinish' = extendedPeriod
        /\ updateAccountReward(a, extendedPeriod)
        /\ reward > 0
        /\ rewards' = [rewards EXCEPT ![a] = 0]
        /\ deftBalance >= reward
        /\ deftBalance' = deftBalance - reward
        /\ UNCHANGED <<duration, rewardRate, totalSupply, balanceOf>>

\* withdraw of the whole balance and claimReward in one transaction.  When
\* the last provider leaves, claimReward finds the pool empty and moves the
\* end of the period by the time since the withdrawal's update.
withdrawAndClaim(a) ==
    LET left == totalSupply - balanceOf[a]
        updated == applicable(periodFinish)
        finish == IF left = 0 THEN periodFinish + (now - updated) ELSE periodFinish
    IN  /\ periodFinish > 0
        /\ balanceOf[a] > 0
        /\ earned(a) > 0
        /\ deftBalance >= earned(a)
        /\ rewardPerTokenStored' = rewardPerToken
        /\ userRewardPerTokenPaid' = [userRewardPerTokenPaid EXCEPT ![a] = rewardPerToken]
        /\ lastUpdateTime' = applicable(finish)
        /\ periodFinish' = finish
        /\ rewards' = [rewards EXCEPT ![a] = 0]
        /\ deftBalance' = deftBalance - earned(a)
        /\ totalSupply' = left
        /\ balanceOf' = [balanceOf EXCEPT ![a] = 0]
        /\ UNCHANGED <<duration, rewardRate>>

-----------------------------------------------------------------------------

(* What remains to be paid, as ReadableEthersLiquity.ts computes it from    *)
(* the contract's state: while nobody stakes the clock stands still.       *)
remainingReward ==
    LET since == IF totalSupply = 0 THEN lastUpdateTime ELSE now
    IN  IF periodFinish > since THEN rewardRate * (periodFinish - since) ELSE 0

allEarned == SumFunction([a \in Providers |-> earned(a)])
=============================================================================
