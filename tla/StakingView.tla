----------------------------- MODULE StakingView -----------------------------
(***************************************************************************)
(* dev-frontend/src/components/Staking/context/StakingViewProvider.tsx:    *)
(* whether a change of the user's stake is pending.  The panel stands on   *)
(* the same page as the trove's, and uses the same transaction state.      *)
(***************************************************************************)
VARIABLE stakePending       \* changePending of the staking panel

\* The effect on the type of the panel's transaction.
stakingEffect(before, after) ==
    stakePending' = CASE before # after /\ after = "waitingForApproval" -> TRUE
                      [] after \in {"failed", "cancelled"} -> FALSE
                      [] OTHER -> stakePending

\* The reducer's updateStore: the change is committed when the stake has
\* changed or its gains have decreased.
stakingUpdate(old, new) == stakePending' = (stakePending /\ old = new)
=============================================================================
