---------------------------- MODULE Transactions ----------------------------
(***************************************************************************)
(* dev-frontend/src/components/Transaction.tsx: the one transaction state  *)
(* that all components of a page share, and the monitor that waits for the *)
(* receipt of the transaction in it.                                       *)
(*                                                                         *)
(* A step is one callback together with the renders and effects it causes: *)
(* effects of a render run before the next one.                            *)
(***************************************************************************)
EXTENDS Naturals, Sequences

VARIABLES
    transactionState,       \* the context: type and id, and tx while it waits
    txs                     \* the transactions sent, with the monitor of each

transactionVars == <<transactionState, txs>>

Ids == {"trove", "claim-coll-surplus", "stake"}

Kinds == {"open", "adjust", "close", "claim", "stake"}

Idle == [type |-> "idle", id |-> "none", tx |-> 0]

waitTypes == {"waitingForApproval", "waitingForConfirmation"}

shownTypes == {"confirmed", "failed", "cancelled"}

TransactionsInit ==
    /\ transactionState = Idle
    /\ txs = <<>>

\* stage is what the wallet and the chain have done with a transaction,
\* resolved whether the promise of send has been, and monitor the state of
\* the monitor's effect: waiting for the receipt, cancelled, waiting for the
\* reason of a revert, or finished.
TransactionsTypeOK ==
    /\ transactionState \in [type : {"idle"} \union waitTypes \union shownTypes,
                             id : Ids \union {"none"}, tx : 0..Len(txs)]
    /\ txs \in Seq([id : Ids, kind : Kinds, resolved : BOOLEAN,
                    stage : {"asked", "dropped", "broadcast", "mined", "reverted"},
                    monitor : {"none", "watching", "cancelled", "reason", "finished"}])

-----------------------------------------------------------------------------

\* useMyTransactionState
myType(state, id) == IF state.id = id THEN state.type ELSE "idle"

\* The effect of the transaction in the state is waiting, and ends.
abandons(new, sent) ==
    /\ transactionState.type = "waitingForConfirmation"
    /\ sent[transactionState.tx].monitor = "watching"
    /\ new.tx # transactionState.tx

(* setTransactionState and the effects of the monitor.  When the state     *)
(* leaves a transaction that is being watched, the clean-up of its effect  *)
(* sets the state to idle once more: the new state lasts for one render,   *)
(* and if it waits for another transaction, that one is not watched either.*)
setTransactionState(new, sent) ==
    LET cancelled == IF abandons(new, sent) THEN {transactionState.tx, new.tx} ELSE {}
    IN  /\ transactionState' = IF abandons(new, sent) THEN Idle ELSE new
        /\ txs' = [i \in DOMAIN sent |->
                      IF i \in cancelled THEN [sent[i] EXCEPT !.monitor = "cancelled"]
                      ELSE IF i = new.tx THEN [sent[i] EXCEPT !.monitor = "watching"]
                      ELSE sent[i]]

\* sendTransaction of useTransactionFunction, until the wallet answers.
sendTransaction(id, kind) ==
    setTransactionState(
        [type |-> "waitingForApproval", id |-> id, tx |-> 0],
        Append(txs, [id |-> id, kind |-> kind, resolved |-> FALSE,
                     stage |-> "asked", monitor |-> "none"]))

\* The user denies the signature, or sending fails.
sendRejected(i, type) ==
    /\ type \in {"cancelled", "failed"}
    /\ txs[i].stage = "asked"
    /\ setTransactionState([type |-> type, id |-> txs[i].id, tx |-> 0],
                           [txs EXCEPT ![i].stage = "dropped", ![i].resolved = TRUE])

\* External: the wallet signs and broadcasts.  The promise of send resolves
\* later, possibly when the transaction has been mined.
walletSends(i) ==
    /\ txs[i].stage = "asked"
    /\ txs' = [txs EXCEPT ![i].stage = "broadcast"]
    /\ UNCHANGED transactionState

sendResolved(i) ==
    /\ txs[i].stage \in {"broadcast", "mined", "reverted"}
    /\ ~txs[i].resolved
    /\ setTransactionState([type |-> "waitingForConfirmation", id |-> txs[i].id, tx |-> i],
                           [txs EXCEPT ![i].resolved = TRUE])

-----------------------------------------------------------------------------
(* waitForConfirmation                                                     *)

\* Mutant: the receipt is used although the monitor was cancelled.
watchesStill(i) == txs[i].monitor \in {"watching", "cancelled"}

watches(i) == txs[i].monitor = "watching"

\* confirmedOneShot, which lasts until the components have seen it, and
\* then confirmed.
receiptSucceeded(i) ==
    /\ watches(i)
    /\ txs[i].stage = "mined"
    /\ setTransactionState([type |-> "confirmed", id |-> txs[i].id, tx |-> 0],
                           [txs EXCEPT ![i].monitor = "finished"])

\* A reverted transaction: the monitor counts as finished while it asks for
\* the reason, and is not cancelled any more.
receiptReverted(i) ==
    /\ watches(i)
    /\ txs[i].stage = "reverted"
    /\ txs' = [txs EXCEPT ![i].monitor = "reason"]
    /\ UNCHANGED transactionState

revertReason(i) ==
    /\ txs[i].monitor = "reason"
    /\ setTransactionState([type |-> "failed", id |-> txs[i].id, tx |-> 0],
                           [txs EXCEPT ![i].monitor = "finished"])

\* The receipt cannot be had.  The monitor does not count as finished: its
\* clean-up replaces the failure by idle.
receiptRejected(i) ==
    /\ watches(i)
    /\ setTransactionState([type |-> "failed", id |-> txs[i].id, tx |-> 0], txs)

hides == transactionState.type \in shownTypes

\* The five seconds for which an outcome is shown are over.
hideOutcome ==
    /\ hides
    /\ transactionState' = Idle
    /\ UNCHANGED txs
=============================================================================
