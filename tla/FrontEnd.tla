------------------------------ MODULE FrontEnd ------------------------------
(***************************************************************************)
(* The front end of one user: the store that follows the chain, the shared *)
(* transaction state, and the panels of the trove and of the stake, which  *)
(* hear of a transaction both from its receipt and from the store, in      *)
(* either order.                                                           *)
(*                                                                         *)
(* The wallet, the provider and the chain are external.  A step of the     *)
(* front end is one callback with all renders and effects it causes.       *)
(***************************************************************************)
EXTENDS LiquityStore, Transactions, TroveView, StakingView

CONSTANTS
    FirstBlocks,            \* what the chain shows of the user at first
    MaxInputs               \* bound: transactions sent, changes of the trove by
                            \* others, rejected fetches and receipts

ASSUME FrontEndAssumption == FirstBlocks \subseteq Blocks /\ MaxInputs \in Nat

VARIABLE inputs

vars == <<chain, storeVars, transactionVars, viewVars, stakePending, inputs>>

Init ==
    /\ \E first \in FirstBlocks : StoreInit(first)
    /\ TransactionsInit
    /\ ViewInit
    /\ stakePending = FALSE
    /\ inputs = 0

input ==
    /\ inputs < MaxInputs
    /\ inputs' = inputs + 1

-----------------------------------------------------------------------------
(* The chain.                                                              *)

otherAmount(b) == IF b.trove = 1 THEN 2 ELSE 1

\* What a transaction of the user does to what the chain shows of him.
executed(b, kind) ==
    CASE kind = "open" -> [b EXCEPT !.status = "open", !.trove = 1]
      [] kind = "adjust" -> [b EXCEPT !.trove = otherAmount(b)]
      [] kind = "close" -> [b EXCEPT !.status = "closedByOwner", !.trove = 0]
      [] kind = "claim" -> [b EXCEPT !.surplus = FALSE]
      [] kind = "stake" -> [b EXCEPT !.stake = 1 - b.stake]

canExecute(b, kind) ==
    CASE kind = "open" -> b.status # "open"
      [] kind \in {"adjust", "close"} -> b.status = "open"
      [] kind = "claim" -> b.surplus
      [] OTHER -> TRUE

mine(i) ==
    LET b == chain[height] kind == txs[i].kind
    IN  /\ txs[i].stage = "broadcast"
        /\ \/ /\ canExecute(b, kind)
              /\ chain' = Append(chain, executed(b, kind))
              /\ txs' = [txs EXCEPT ![i].stage = "mined"]
           \/ /\ chain' = chain
              /\ txs' = [txs EXCEPT ![i].stage = "reverted"]
        /\ UNCHANGED <<storeVars, transactionState, viewVars, stakePending,
                       inputs>>

\* Another's transaction liquidates the trove, redeems it or a part of it.
othersAct ==
    LET b == chain[height]
    IN  /\ input
        /\ b.status = "open"
        /\ chain' \in {Append(chain, next) : next \in
               {[b EXCEPT !.trove = otherAmount(b)],
                [b EXCEPT !.status = "closedByRedemption", !.trove = 0, !.surplus = TRUE]}
               \union {[b EXCEPT !.status = "closedByLiquidation", !.trove = 0, !.surplus = s] :
                           s \in {b.surplus, TRUE}}}
        /\ UNCHANGED <<storeVars, transactionVars, viewVars, stakePending>>

-----------------------------------------------------------------------------
(* The store.                                                              *)

storeActs ==
    /\ \/ (blockListener \/ quietBlock) /\ UNCHANGED inputs
       \/ fetchRejected /\ input
    /\ UNCHANGED <<chain, transactionVars, viewVars, stakePending>>

\* onLoaded shows the views; a listener of each panel hears of an update.
fetchResolved(tag) ==
    /\ UNCHANGED <<chain, transactionVars, inputs>>
    /\ \/ /\ fetchIgnored(tag)
          /\ UNCHANGED <<viewVars, stakePending>>
       \/ /\ fetchApplied(tag)
          /\ IF loaded
             THEN /\ troveUpdate(trove, trove', myType(transactionState, "trove"))
                  /\ stakingUpdate(chain[troveAt].stake, chain[troveAt'].stake)
             ELSE /\ view' = getInitialView(trove'.status)
                  /\ UNCHANGED <<edit, changePending, stakePending>>

-----------------------------------------------------------------------------
(* Transactions, with the effects of the panels.                           *)

\* CollateralSurplusAction, when it is shown.
offersSurplus == view \in {"LIQUIDATED", "REDEEMED"} /\ hasSurplusCollateral

claimEffect(after) ==
    IF offersSurplus /\ after = "confirmed"
    THEN dispatchEvent("TROVE_SURPLUS_COLLATERAL_CLAIMED", trove, "idle")
    ELSE UNCHANGED viewVars

panelEffects(id, type) ==
    LET before(me) == myType(transactionState, me)
        after(me) == IF id = me THEN type ELSE "idle"
    IN  /\ IF id = "claim-coll-surplus" THEN claimEffect(type)
           ELSE troveEffect(before("trove"), after("trove"), trove)
        /\ stakingEffect(before("stake"), after("stake"))

\* TroveAction and the actions of the staking panel do not look at the
\* transaction state; the Transaction component does.
send ==
    /\ loaded
    /\ \/ /\ view \in Editors
          /\ ~changePending
          /\ edit # NoChange
          /\ sendTransaction("trove", CASE edit = "creation" -> "open"
                                        [] edit = "closure" -> "close"
                                        [] OTHER -> "adjust")
          /\ panelEffects("trove", "waitingForApproval")
       \/ /\ offersSurplus
          /\ transactionState.type \notin waitTypes
          /\ myType(transactionState, "claim-coll-surplus") # "confirmed"
          /\ sendTransaction("claim-coll-surplus", "claim")
          /\ panelEffects("claim-coll-surplus", "waitingForApproval")
       \/ /\ ~stakePending
          /\ sendTransaction("stake", "stake")
          /\ panelEffects("stake", "waitingForApproval")
    /\ input
    /\ UNCHANGED <<chain, storeVars>>

walletAnswers(i) ==
    /\ \/ \E type \in {"cancelled", "failed"} :
              sendRejected(i, type) /\ panelEffects(txs[i].id, type)
       \/ walletSends(i) /\ UNCHANGED <<viewVars, stakePending>>
    /\ UNCHANGED <<chain, storeVars, inputs>>

sendSettles(i) ==
    /\ sendResolved(i)
    /\ panelEffects(txs[i].id, "waitingForConfirmation")
    /\ UNCHANGED <<chain, storeVars, inputs>>

receipt(i) ==
    /\ \/ receiptSucceeded(i) /\ panelEffects(txs[i].id, "confirmed")
       \/ receiptReverted(i) /\ UNCHANGED <<viewVars, stakePending>>
       \/ revertReason(i) /\ panelEffects(txs[i].id, "failed")
    /\ UNCHANGED <<chain, storeVars, inputs>>

receiptLost(i) ==
    /\ receiptRejected(i)
    /\ input
    /\ panelEffects(txs[i].id, "failed")
    /\ UNCHANGED <<chain, storeVars>>

outcomeHidden ==
    /\ hideOutcome
    /\ UNCHANGED <<chain, storeVars, viewVars, stakePending, inputs>>

-----------------------------------------------------------------------------
(* The user.                                                               *)

\* The buttons of the views, and the editor.
press ==
    LET type == myType(transactionState, "trove")
    IN  /\ loaded
        /\ \/ /\ view \in {"NONE", "LIQUIDATED", "REDEEMED"}
              /\ view # "NONE" => ~hasSurplusCollateral
              /\ dispatchEvent("OPEN_TROVE_PRESSED", trove, type)
           \/ /\ view = "ACTIVE"
              /\ \E event \in {"ADJUST_TROVE_PRESSED", "CLOSE_TROVE_PRESSED"} :
                     dispatchEvent(event, trove, type)
           \/ /\ view \in Editors
              /\ ~changePending
              /\ dispatchEvent("CANCEL_ADJUST_TROVE_PRESSED", trove, type)
           \/ editTrove(trove, type)
        /\ UNCHANGED <<chain, storeVars, transactionVars, stakePending, inputs>>

Next ==
    \/ storeActs \/ press \/ send \/ othersAct \/ outcomeHidden
    \/ \E tag \in fetches : fetchResolved(tag)
    \/ \E i \in DOMAIN txs :
           mine(i) \/ walletAnswers(i) \/ sendSettles(i) \/ receipt(i) \/ receiptLost(i)

(* Fairness: fetches that are not rejected resolve, blocks keep coming and *)
(* are announced, the user answers the wallet, transactions are mined,     *)
(* receipts arrive, and timers fire.  The user need not press anything.    *)
Fairness ==
    /\ WF_vars(storeActs /\ (blockListener \/ quietBlock))
    /\ WF_vars(outcomeHidden)
    /\ \A tag \in 0..(1 + MaxInputs) : WF_vars(tag \in fetches /\ fetchResolved(tag))
    /\ \A i \in 1..MaxInputs :
           WF_vars(i \in DOMAIN txs /\ (mine(i) \/ walletAnswers(i) \/ sendSettles(i) \/ receipt(i)))

Spec == Init /\ [][Next]_vars

FairSpec == Spec /\ Fairness

-----------------------------------------------------------------------------

\* The components' types; an editor is pending only while it is mounted.
TypeOK == StoreTypeOK /\ TransactionsTypeOK /\ ViewTypeOK /\ stakePending \in BOOLEAN

\* A store that says which block it shows shows that block in all its parts,
\* although its first state may be pieced together of several.
TaggedStateConsistent ==
    loaded /\ blockTag # Latest => troveAt = blockTag /\ surplusAt = blockTag

\* The views of an open trove.
OpenViews == {"ACTIVE", "ADJUSTING", "CLOSING"}

\* A trove that the store knows to be closed is not offered for adjustment,
\* whatever order receipts, blocks and clicks come in.
NoGhostTrove ==
    loaded /\ trove.status \notin {"open", "nonExistent"} => view \notin OpenViews

\* Late, lost, repeated and reordered fetches never hide an open trove: only
\* the receipt of a transaction of the trove can.
NetworkNeverHidesTrove ==
    loaded /\ trove.status = "open" /\ view \notin OpenViews
        => \E i \in DOMAIN txs : txs[i].id = "trove" /\ txs[i].monitor = "finished"

\* A success is announced only of the transaction that the page is waiting
\* for, and never replaces the state of another.
SuccessIsCurrent ==
    [][\A i \in DOMAIN txs :
           txs'[i].monitor = "finished" /\ txs[i].monitor # "finished" /\ txs[i].stage = "mined"
               => /\ transactionState.type = "waitingForConfirmation"
                  /\ transactionState.tx = i]_vars

\* The store shows the last block in the end, though fetches are rejected,
\* even the first one, and late ones set it back.
StoreCatchesUp == <>[](loaded /\ troveAt = height /\ surplusAt = height)

\* The transaction state returns to idle, however transactions overlap.
EventuallyIdle == <>[](transactionState = Idle)

\* The staking panel is not locked for ever by its transaction, whether it
\* fails, is denied, or the store hears of it before or after its receipt,
\* or much later.  (A second transaction can lock it: see the README.)
StakingUnlocks == stakePending ~> (~stakePending \/ Len(txs) > 1)

\* The state of the page is well formed and, if it says of which block it is,
\* of that block.
StoreInv == TypeOK /\ TaggedStateConsistent

\* The page shows an open trove as open and a closed one as closed, except
\* that a receipt may run ahead of the store.
TroveShownRight == NoGhostTrove /\ NetworkNeverHidesTrove

\* The page comes to rest: up to date, with no transaction and no panel
\* waiting for ever.
PageSettles == StoreCatchesUp /\ EventuallyIdle /\ StakingUnlocks
=============================================================================
