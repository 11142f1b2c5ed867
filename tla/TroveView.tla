------------------------------ MODULE TroveView ------------------------------
(***************************************************************************)
(* dev-frontend/src/components/Trove: the view that TroveViewProvider      *)
(* keeps, and the state of TroveManager, the editor that three of the      *)
(* views show.  Of the edited trove only the kind of change is kept.       *)
(***************************************************************************)
EXTENDS Naturals

VARIABLES
    view,
    edit,                   \* whatChanged between original and edited
    changePending           \* of the editor

viewVars == <<view, edit, changePending>>

Editors == {"OPENING", "ADJUSTING", "CLOSING"}

Views == Editors \union {"NONE", "LIQUIDATED", "REDEEMED", "ACTIVE"}

Changes == {"creation", "adjustment", "closure"}

NoChange == "none"

\* The store's provider shows no view before the store is loaded.
ViewInit ==
    /\ view = "LOADING"
    /\ edit = NoChange
    /\ changePending = FALSE

ViewTypeOK ==
    /\ view \in Views \union {"LOADING"}
    /\ edit \in Changes \union {NoChange}
    /\ changePending \in BOOLEAN
    /\ view \notin Editors => edit = NoChange /\ ~changePending

-----------------------------------------------------------------------------
(* TroveViewProvider                                                       *)

\* The views that the opening of the trove leaves.
openedFrom == {"NONE", "LIQUIDATED", "REDEEMED", "OPENING"}

\* Mutant: a trove that is being closed is not expected to be closed.
closedFromButClosing == {"ACTIVE", "ADJUSTING"}

\* The views that the end of the trove leaves.
closedFrom == {"ACTIVE", "ADJUSTING", "CLOSING"}

transition(v, event) ==
    CASE event = "TROVE_OPENED" /\ v \in openedFrom -> "ACTIVE"
      [] event = "TROVE_CLOSED" /\ v \in closedFrom -> "NONE"
      [] event = "TROVE_LIQUIDATED" /\ v \in closedFrom -> "LIQUIDATED"
      [] event = "TROVE_REDEEMED" /\ v \in closedFrom -> "REDEEMED"
      [] event = "TROVE_ADJUSTED" /\ v \in {"ADJUSTING", "CLOSING"} -> "ACTIVE"
      [] event = "TROVE_SURPLUS_COLLATERAL_CLAIMED" /\ v \in {"LIQUIDATED", "REDEEMED"} -> "NONE"
      [] event = "OPEN_TROVE_PRESSED" /\ v \in {"NONE", "LIQUIDATED", "REDEEMED"} -> "OPENING"
      [] event = "ADJUST_TROVE_PRESSED" /\ v = "ACTIVE" -> "ADJUSTING"
      [] event = "CLOSE_TROVE_PRESSED" /\ v = "ACTIVE" -> "CLOSING"
      [] event = "CANCEL_ADJUST_TROVE_PRESSED" /\ v = "OPENING" -> "NONE"
      [] event = "CANCEL_ADJUST_TROVE_PRESSED" /\ v \in {"ADJUSTING", "CLOSING"} -> "ACTIVE"
      [] OTHER -> v

\* troveStatusEvents; nonExistent has no event.
statusEvent(status) ==
    CASE status = "open" -> "TROVE_OPENED"
      [] status = "closedByOwner" -> "TROVE_CLOSED"
      [] status = "closedByLiquidation" -> "TROVE_LIQUIDATED"
      [] status = "closedByRedemption" -> "TROVE_REDEEMED"
      [] OTHER -> "none"

getInitialView(status) ==
    CASE status = "closedByLiquidation" -> "LIQUIDATED"
      [] status = "closedByRedemption" -> "REDEEMED"
      [] status = "open" -> "ACTIVE"
      [] OTHER -> "NONE"

-----------------------------------------------------------------------------
(* TroveManager                                                            *)

\* The editor is mounted with the view that shows it.  The view CLOSING
\* sets collateral and debt to zero, a change if the trove is not empty.  The
\* effect on the type of the transaction runs with the first render: an
\* earlier transaction that waits for approval starts a change.
mountEditor(next, trove, type) ==
    /\ edit' = IF next = "CLOSING" /\ trove.amount # 0 THEN "closure" ELSE NoChange
    /\ changePending' = (next \in Editors /\ type = "waitingForApproval")

\* dispatchEvent.  TROVE_* events and CANCEL unmount the editor.
dispatchEvent(event, trove, type) ==
    /\ view' = transition(view, event)
    /\ IF view' = view THEN UNCHANGED <<edit, changePending>>
       ELSE mountEditor(view', trove, type)

\* The effect of the editor runs again when the kind of valid change differs
\* (validity is not modelled), and starts a change if its transaction is
\* then waiting for approval.
restarts(type, before, after) ==
    {b \in {TRUE} : type = "waitingForApproval" /\ before # after}

\* The user edits, or reverts; an overlay hides the editor while a change is
\* pending.
editTrove(trove, type) ==
    /\ view \in Editors
    /\ ~changePending
    /\ edit' \in {NoChange} \union
                 (IF trove.amount = 0 THEN {"creation"} ELSE {"adjustment", "closure"})
    /\ changePending' \in {FALSE} \union restarts(type, edit, edit')
    /\ UNCHANGED view

\* The effect on the type of the editor's transaction.  The change of an
\* outdated edit may have become invalid, and then there is no event.
troveEffect(before, after, trove) ==
    CASE view \in Editors /\ before # after /\ after = "waitingForApproval" ->
             changePending' = TRUE /\ UNCHANGED <<view, edit>>
      [] view \in Editors /\ after \in {"failed", "cancelled"} ->
             changePending' = FALSE /\ UNCHANGED <<view, edit>>
      [] view \in Editors /\ after = "confirmed" ->
             \/ edit = "closure" /\ dispatchEvent("TROVE_CLOSED", trove, after)
             \/ edit \in {"creation", "adjustment"} /\ dispatchEvent("TROVE_ADJUSTED", trove, after)
             \/ UNCHANGED viewVars
      [] OTHER -> UNCHANGED viewVars

\* The reducer's updateStore.  An adjustment of a trove that has gone is a
\* new trove, if it is valid at all.
editAfter(new, committed) ==
    IF \/ changePending /\ committed
       \/ edit = "creation" /\ new.amount # 0
       \/ edit = "closure" /\ new.amount = 0
    THEN {NoChange}
    ELSE IF edit = "adjustment" /\ new.amount = 0 THEN {"creation", NoChange} ELSE {edit}

\* A change of the store: the provider's effect on the status, then the
\* editor's reducer if it is still mounted.  The reducer ends a pending
\* change when the trove has changed.
troveUpdate(old, new, type) ==
    LET next == IF old.status = new.status THEN view ELSE transition(view, statusEvent(new.status))
        ends == changePending /\ old # new
    IN  /\ view' = next
        /\ IF next # view THEN mountEditor(next, new, type)
           ELSE /\ edit' \in editAfter(new, old # new)
                /\ changePending' \in {changePending /\ ~ends} \union restarts(type, edit, edit')
=============================================================================
