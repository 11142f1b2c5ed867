---------------------------- MODULE FrontEndProofs ----------------------------
(***************************************************************************)
(* For any number of blocks, fetches and transactions: the store shows the *)
(* block it names (StoreInv), the page shows an open trove as open and a   *)
(* closed one as closed (TroveShownRight), and a success is announced only *)
(* of the transaction that the page is waiting for (SuccessIsCurrent).     *)
(***************************************************************************)
EXTENDS FrontEnd, TLAPS

(* The inductive invariant.  The properties lack what the page remembers   *)
(* of its start and of the monitors of its transactions.                   *)

\* Before the store is loaded there is no view and no block.
LoadingInv ==
    /\ loaded <=> view # "LOADING"
    /\ ~loaded => blockTag = Latest

\* A monitor starts when send has been resolved, watches only while the page
\* waits for its transaction, and asks for the reason only of a revert.
MonitorOK(tx, i, state) ==
    /\ tx.monitor # "none" => tx.resolved
    /\ tx.monitor = "watching" =>
           state.type = "waitingForConfirmation" /\ state.tx = i
    /\ tx.monitor = "reason" => tx.stage = "reverted"

MonitorsInv == \A i \in DOMAIN txs : MonitorOK(txs[i], i, transactionState)

PageInv ==
    /\ StoreInv
    /\ TroveShownRight
    /\ LoadingInv
    /\ MonitorsInv

-----------------------------------------------------------------------------
(* The view *)

\* Only TROVE_OPENED shows an open trove, and only the end of a trove hides
\* it, in every view of TroveViewProvider.
LEMMA DispatchView ==
    ASSUME ViewTypeOK, NEW event, event # "TROVE_OPENED", NEW tr, NEW type,
           dispatchEvent(event, tr, type)
    PROVE  /\ ViewTypeOK'
           /\ view = "LOADING" <=> view' = "LOADING"
           /\ view \notin OpenViews => view' \notin OpenViews
           /\ event \notin {"TROVE_CLOSED", "TROVE_LIQUIDATED", "TROVE_REDEEMED"}
                  => (view \in OpenViews => view' \in OpenViews)
<1>1. /\ view' = transition(view, event)
      /\ IF view' = view THEN UNCHANGED <<edit, changePending>>
         ELSE mountEditor(view', tr, type)
  BY DEF dispatchEvent
<1>2. /\ view' \in Views \union {"LOADING"}
      /\ view = "LOADING" <=> view' = "LOADING"
      /\ view \notin OpenViews => view' \notin OpenViews
      /\ event \notin {"TROVE_CLOSED", "TROVE_LIQUIDATED", "TROVE_REDEEMED"}
             => (view \in OpenViews => view' \in OpenViews)
  BY <1>1 DEF transition, ViewTypeOK, Views, Editors, OpenViews, openedFrom,
     closedFrom
<1>3. ViewTypeOK'
  BY <1>1, <1>2 DEF ViewTypeOK, mountEditor, Changes, NoChange, Editors
<1> QED BY <1>2, <1>3

\* Only the confirmation of the editor's transaction changes the view.
LEMMA EffectView ==
    ASSUME ViewTypeOK, NEW before, NEW after, NEW tr,
           troveEffect(before, after, tr)
    PROVE  /\ ViewTypeOK'
           /\ view = "LOADING" <=> view' = "LOADING"
           /\ view \notin OpenViews => view' \notin OpenViews
           /\ after # "confirmed" => view' = view
<1>1. CASE view' = view
  BY <1>1 DEF troveEffect, dispatchEvent, ViewTypeOK, viewVars
<1>2. CASE view' # view
  <2>1. /\ after = "confirmed"
        /\ \/ dispatchEvent("TROVE_CLOSED", tr, after)
           \/ dispatchEvent("TROVE_ADJUSTED", tr, after)
    BY <1>2 DEF troveEffect, viewVars
  <2> QED BY <2>1, DispatchView
<1> QED BY <1>1, <1>2

\* No panel's effect shows a trove as open, and only the confirmation of a
\* transaction of the trove hides one.
LEMMA PanelView ==
    ASSUME ViewTypeOK, stakePending \in BOOLEAN, NEW id, NEW type,
           panelEffects(id, type)
    PROVE  /\ ViewTypeOK' /\ stakePending' \in BOOLEAN
           /\ view = "LOADING" <=> view' = "LOADING"
           /\ view \notin OpenViews => view' \notin OpenViews
           /\ view \in OpenViews /\ view' \notin OpenViews
                  => id = "trove" /\ type = "confirmed"
<1>1. stakePending' \in BOOLEAN
  BY DEF panelEffects, stakingEffect
<1>2. CASE id = "claim-coll-surplus"
  <2>1. claimEffect(type)
    BY <1>2 DEF panelEffects
  <2>2. CASE UNCHANGED viewVars
    BY <1>1, <2>2 DEF viewVars, ViewTypeOK
  <2>3. CASE dispatchEvent("TROVE_SURPLUS_COLLATERAL_CLAIMED", trove, "idle")
    BY <1>1, <2>3, DispatchView
  <2> QED BY <2>1, <2>2, <2>3 DEF claimEffect
<1>3. CASE id # "claim-coll-surplus"
  <2>1. troveEffect(myType(transactionState, "trove"),
                    IF id = "trove" THEN type ELSE "idle", trove)
    BY <1>3 DEF panelEffects
  <2>2. /\ ViewTypeOK'
        /\ view = "LOADING" <=> view' = "LOADING"
        /\ view \notin OpenViews => view' \notin OpenViews
        /\ (IF id = "trove" THEN type ELSE "idle") # "confirmed" => view' = view
    BY <2>1, EffectView
  <2> QED BY <1>1, <2>2
<1> QED BY <1>2, <1>3

-----------------------------------------------------------------------------
(* The transactions *)

TxSet == [id : Ids, kind : Kinds, resolved : BOOLEAN,
          stage : {"asked", "dropped", "broadcast", "mined", "reverted"},
          monitor : {"none", "watching", "cancelled", "reason", "finished"}]

StateTypes == {"idle"} \union waitTypes \union shownTypes

\* A state that may be set with the transactions `sent': one that waits for
\* a confirmation names a transaction that has just been resolved.
Settable(new, sent) ==
    /\ new.type \in StateTypes
    /\ new.id \in Ids \union {"none"}
    /\ new.tx \in 0..Len(sent)
    /\ new.tx # 0 => /\ new.type = "waitingForConfirmation"
                     /\ sent[new.tx].resolved
                     /\ sent[new.tx].monitor = "none"

\* Whoever sets the shared state, at most the transaction that the page then
\* waits for is watched, and a finished monitor stays finished.
LEMMA SetStateKeeps ==
    ASSUME TransactionsTypeOK, NEW sent \in Seq(TxSet), Len(sent) >= Len(txs),
           NEW type, NEW id, NEW tx,
           Settable([type |-> type, id |-> id, tx |-> tx], sent),
           \A i \in DOMAIN sent : MonitorOK(sent[i], i, transactionState),
           setTransactionState([type |-> type, id |-> id, tx |-> tx], sent)
    PROVE  /\ TransactionsTypeOK' /\ MonitorsInv'
           /\ DOMAIN txs' = DOMAIN sent
           /\ \A i \in DOMAIN sent :
                  /\ txs'[i].id = sent[i].id
                  /\ sent[i].monitor = "finished" <=> txs'[i].monitor = "finished"
<1> DEFINE new == [type |-> type, id |-> id, tx |-> tx]
           leaves == abandons(new, sent)
           gone == IF leaves THEN {transactionState.tx, tx} ELSE {}
<1>1. /\ transactionState' = IF leaves THEN Idle ELSE new
      /\ txs' = [i \in DOMAIN sent |->
                    IF i \in gone THEN [sent[i] EXCEPT !.monitor = "cancelled"]
                    ELSE IF i = tx THEN [sent[i] EXCEPT !.monitor = "watching"]
                    ELSE sent[i]]
  BY DEF setTransactionState
<1>2. /\ type \in StateTypes /\ id \in Ids \union {"none"} /\ tx \in 0..Len(sent)
      /\ tx # 0 => /\ type = "waitingForConfirmation"
                   /\ sent[tx].resolved /\ sent[tx].monitor = "none"
  BY DEF Settable
<1>3. /\ transactionState.tx \in 0..Len(sent)
      /\ DOMAIN sent = 1..Len(sent)
      /\ \A i \in DOMAIN sent : sent[i] \in TxSet
  BY DEF TransactionsTypeOK
<1>4. leaves <=> /\ transactionState.type = "waitingForConfirmation"
                 /\ sent[transactionState.tx].monitor = "watching"
                 /\ tx # transactionState.tx
  BY DEF abandons
<1> HIDE DEF leaves
<1>5. ASSUME NEW i \in DOMAIN sent
      PROVE  /\ txs'[i] \in TxSet
             /\ txs'[i].id = sent[i].id /\ txs'[i].resolved = sent[i].resolved
             /\ txs'[i].stage = sent[i].stage
             /\ txs'[i].monitor = IF i \in gone THEN "cancelled"
                                  ELSE IF i = tx THEN "watching"
                                  ELSE sent[i].monitor
  BY <1>1, <1>3, <1>5 DEF TxSet
<1>6. ASSUME NEW i \in DOMAIN sent
      PROVE  MonitorOK(sent[i], i, transactionState)
  BY <1>6
<1>7. DOMAIN txs' = DOMAIN sent
  BY <1>1
<1>8. /\ transactionState'.type = IF leaves THEN "idle" ELSE type
      /\ transactionState'.tx = IF leaves THEN 0 ELSE tx
      /\ transactionState' \in [type : StateTypes, id : Ids \union {"none"},
                                tx : 0..Len(sent)]
  BY <1>1, <1>2, <1>3 DEF Idle, StateTypes
<1>9. TransactionsTypeOK'
  <2>1. txs' \in Seq(TxSet) /\ Len(txs') = Len(sent)
    <3>1. txs' = [i \in 1..Len(sent) |-> txs'[i]]
      BY <1>1, <1>3
    <3>2. \A i \in 1..Len(sent) : txs'[i] \in TxSet
      BY <1>3, <1>5
    <3> DEFINE f == txs'
    <3>3. f = [i \in 1..Len(sent) |-> f[i]] /\ \A i \in 1..Len(sent) : f[i] \in TxSet
      BY <3>1, <3>2
    <3> HIDE DEF f
    <3>4. f \in Seq(TxSet) /\ Len(f) = Len(sent)
      BY <3>3
    <3> QED BY <3>4 DEF f
  <2> QED BY <1>8, <2>1 DEF TransactionsTypeOK, TxSet, StateTypes
<1>10. ASSUME NEW i \in DOMAIN sent
       PROVE  MonitorOK(txs'[i], i, transactionState')
  <2>1. CASE i \in gone
    <3>1. /\ txs'[i].monitor = "cancelled" /\ txs'[i].resolved = sent[i].resolved
      BY <1>5, <2>1
    <3>2. sent[i].resolved
      BY <1>2, <1>4, <1>6, <2>1 DEF MonitorOK
    <3> QED BY <3>1, <3>2 DEF MonitorOK
  <2>2. CASE i \notin gone /\ i = tx
    BY <1>2, <1>3, <1>5, <1>8, <2>2 DEF MonitorOK
  <2>3. CASE i \notin gone /\ i # tx
    <3>1. sent[i].monitor # "watching"
      BY <1>4, <1>6, <2>3 DEF MonitorOK
    <3> QED BY <1>5, <1>6, <2>3, <3>1 DEF MonitorOK
  <2> QED BY <2>1, <2>2, <2>3
<1>11. MonitorsInv'
  BY <1>7, <1>10 DEF MonitorsInv
<1>12. ASSUME NEW i \in DOMAIN sent
       PROVE  sent[i].monitor = "finished" <=> txs'[i].monitor = "finished"
  <2>1. CASE i \in gone
    BY <1>2, <1>4, <1>5, <2>1
  <2>2. CASE i \notin gone
    BY <1>2, <1>3, <1>5, <2>2
  <2> QED BY <2>1, <2>2
<1> QED BY <1>5, <1>7, <1>9, <1>11, <1>12

\* What every step does to the transactions: a finished monitor stays so,
\* and the success that is announced is that of the current transaction.
TxStep ==
    /\ TransactionsTypeOK'
    /\ MonitorsInv'
    /\ \A i \in DOMAIN txs :
           /\ i \in DOMAIN txs'
           /\ txs'[i].id = txs[i].id
           /\ txs[i].monitor = "finished" => txs'[i].monitor = "finished"
           /\ /\ txs'[i].monitor = "finished" /\ txs[i].monitor # "finished"
              /\ txs[i].stage = "mined"
              => /\ transactionState.type = "waitingForConfirmation"
                 /\ transactionState.tx = i

\* Nothing happens to the transactions.
LEMMA QuietTx ==
    ASSUME TransactionsTypeOK, MonitorsInv, UNCHANGED transactionVars
    PROVE  TxStep
  BY DEF TxStep, TransactionsTypeOK, MonitorsInv, MonitorOK, transactionVars

\* A transaction is sent.
LEMMA SendTx ==
    ASSUME TransactionsTypeOK, MonitorsInv, NEW id \in Ids, NEW kind \in Kinds,
           sendTransaction(id, kind)
    PROVE  TxStep
<1> DEFINE tx == [id |-> id, kind |-> kind, resolved |-> FALSE,
                  stage |-> "asked", monitor |-> "none"]
           sent == Append(txs, tx)
<1>1. txs \in Seq(TxSet) /\ tx \in TxSet
  BY DEF TransactionsTypeOK, TxSet
<1>2. tx.monitor = "none"
  OBVIOUS
<1> HIDE DEF tx
<1>3. /\ sent \in Seq(TxSet) /\ Len(sent) = Len(txs) + 1
      /\ DOMAIN sent = 1..Len(sent) /\ DOMAIN txs = 1..Len(txs)
      /\ \A i \in 1..Len(txs) : sent[i] = txs[i]
      /\ sent[Len(txs) + 1] = tx /\ Len(txs) \in Nat
  BY <1>1
<1>4. setTransactionState([type |-> "waitingForApproval", id |-> id, tx |-> 0], sent)
  BY DEF sendTransaction, tx
<1> HIDE DEF sent
<1>5. \A i \in DOMAIN sent : MonitorOK(sent[i], i, transactionState)
  <2> TAKE i \in DOMAIN sent
  <2>1. CASE i \in 1..Len(txs)
    BY <1>3, <2>1 DEF MonitorsInv
  <2>2. CASE i = Len(txs) + 1
    BY <1>2, <1>3, <2>2 DEF MonitorOK
  <2> QED BY <1>3, <2>1, <2>2
<1>6. Settable([type |-> "waitingForApproval", id |-> id, tx |-> 0], sent)
  BY <1>3 DEF Settable, StateTypes, waitTypes
<1>7. /\ TransactionsTypeOK' /\ MonitorsInv'
      /\ DOMAIN txs' = DOMAIN sent
      /\ \A i \in DOMAIN sent :
             /\ txs'[i].id = sent[i].id
             /\ sent[i].monitor = "finished" <=> txs'[i].monitor = "finished"
  BY <1>3, <1>4, <1>5, <1>6, SetStateKeeps
<1>8. \A i \in DOMAIN txs : i \in DOMAIN sent /\ sent[i] = txs[i]
  BY <1>3
<1> QED BY <1>7, <1>8 DEF TxStep

\* A transaction i is changed into tx, and the shared state is set.
LEMMA SetTx ==
    ASSUME TransactionsTypeOK, MonitorsInv, NEW i \in DOMAIN txs, NEW tx \in TxSet,
           tx.id = txs[i].id, txs[i].monitor = "finished" => tx.monitor = "finished",
           MonitorOK(tx, i, transactionState),
           /\ tx.monitor = "finished" /\ txs[i].monitor # "finished"
           /\ txs[i].stage = "mined"
           => /\ transactionState.type = "waitingForConfirmation"
              /\ transactionState.tx = i,
           NEW type \in StateTypes, NEW n \in {0, i},
           n # 0 => /\ type = "waitingForConfirmation"
                    /\ tx.resolved /\ tx.monitor = "none",
           setTransactionState([type |-> type, id |-> txs[i].id, tx |-> n],
                               [txs EXCEPT ![i] = tx])
    PROVE  TxStep
<1> DEFINE sent == [txs EXCEPT ![i] = tx]
           id == txs[i].id
<1>1. txs \in Seq(TxSet)
  BY DEF TransactionsTypeOK, TxSet
<1>2. /\ sent \in Seq(TxSet) /\ Len(sent) = Len(txs) /\ DOMAIN sent = DOMAIN txs
      /\ DOMAIN txs = 1..Len(txs) /\ Len(txs) \in Nat
      /\ sent[i] = tx /\ \A j \in DOMAIN txs : j # i => sent[j] = txs[j]
  BY <1>1
<1>3. id \in Ids
  BY <1>1 DEF TxSet
<1>4. setTransactionState([type |-> type, id |-> id, tx |-> n], sent)
  OBVIOUS
<1> HIDE DEF sent, id
<1>5. \A j \in DOMAIN sent : MonitorOK(sent[j], j, transactionState)
  <2> TAKE j \in DOMAIN sent
  <2>1. CASE j = i
    BY <1>2, <2>1
  <2>2. CASE j # i
    BY <1>2, <2>2 DEF MonitorsInv
  <2> QED BY <2>1, <2>2
<1>6. Settable([type |-> type, id |-> id, tx |-> n], sent)
  BY <1>2, <1>3 DEF Settable
<1>7. sent \in Seq(TxSet) /\ Len(sent) >= Len(txs)
  BY <1>2
<1>8. /\ TransactionsTypeOK' /\ MonitorsInv'
      /\ DOMAIN txs' = DOMAIN sent
      /\ \A j \in DOMAIN sent :
             /\ txs'[j].id = sent[j].id
             /\ sent[j].monitor = "finished" <=> txs'[j].monitor = "finished"
  BY <1>4, <1>5, <1>6, <1>7, SetStateKeeps
<1>9. ASSUME NEW j \in DOMAIN txs
      PROVE  /\ txs'[j].id = txs[j].id
             /\ txs[j].monitor = "finished" => txs'[j].monitor = "finished"
             /\ /\ txs'[j].monitor = "finished" /\ txs[j].monitor # "finished"
                /\ txs[j].stage = "mined"
                => /\ transactionState.type = "waitingForConfirmation"
                   /\ transactionState.tx = j
  <2>1. CASE j = i
    BY <1>2, <1>8, <2>1
  <2>2. CASE j # i
    BY <1>2, <1>8, <2>2
  <2> QED BY <2>1, <2>2
<1> QED BY <1>2, <1>8, <1>9 DEF TxStep

\* The stage or the monitor of a transaction i changes, the state does not.
LEMMA ChangeTx ==
    ASSUME TransactionsTypeOK, MonitorsInv, NEW i \in DOMAIN txs, NEW tx \in TxSet,
           tx.id = txs[i].id, txs[i].monitor = "finished" <=> tx.monitor = "finished",
           MonitorOK(tx, i, transactionState),
           txs' = [txs EXCEPT ![i] = tx], UNCHANGED transactionState
    PROVE  TxStep
<1> DEFINE sent == [txs EXCEPT ![i] = tx]
<1>1. txs \in Seq(TxSet)
  BY DEF TransactionsTypeOK, TxSet
<1>2. /\ sent \in Seq(TxSet) /\ Len(sent) = Len(txs) /\ DOMAIN sent = DOMAIN txs
      /\ sent[i] = tx /\ \A j \in DOMAIN txs : j # i => sent[j] = txs[j]
  BY <1>1
<1>3. txs' = sent
  OBVIOUS
<1> HIDE DEF sent
<1>4. TransactionsTypeOK'
  BY <1>2, <1>3 DEF TransactionsTypeOK, TxSet
<1>5. ASSUME NEW j \in DOMAIN txs
      PROVE  /\ MonitorOK(txs'[j], j, transactionState')
             /\ txs'[j].id = txs[j].id
             /\ txs[j].monitor = "finished" <=> txs'[j].monitor = "finished"
  <2>1. CASE j = i
    BY <1>2, <1>3, <2>1
  <2>2. CASE j # i
    BY <1>2, <1>3, <2>2 DEF MonitorsInv
  <2> QED BY <2>1, <2>2
<1> QED BY <1>2, <1>3, <1>4, <1>5 DEF TxStep, MonitorsInv

\* A transaction that was sent, and its monitor.
LEMMA TxAt ==
    ASSUME TransactionsTypeOK, MonitorsInv, NEW i \in DOMAIN txs
    PROVE  /\ txs \in Seq(TxSet) /\ txs[i] \in TxSet /\ i # 0
           /\ MonitorOK(txs[i], i, transactionState)
<1>1. txs \in Seq(TxSet)
  BY DEF TransactionsTypeOK, TxSet
<1>2. txs[i] \in TxSet /\ i # 0
  BY <1>1
<1> QED BY <1>1, <1>2 DEF MonitorsInv

\* Whatever the wallet does, the transactions stay in order.
LEMMA WalletTx ==
    ASSUME TransactionsTypeOK, MonitorsInv, NEW i \in DOMAIN txs,
           \/ \E type \in {"cancelled", "failed"} : sendRejected(i, type)
           \/ walletSends(i)
           \/ sendResolved(i)
    PROVE  TxStep
<1>1. txs[i] \in TxSet /\ MonitorOK(txs[i], i, transactionState) /\ i # 0
  BY TxAt
<1>2. ASSUME NEW type \in {"cancelled", "failed"}, sendRejected(i, type)
      PROVE  TxStep
  <2> DEFINE tx == [txs[i] EXCEPT !.stage = "dropped", !.resolved = TRUE]
  <2>1. [txs EXCEPT ![i].stage = "dropped", ![i].resolved = TRUE]
            = [txs EXCEPT ![i] = tx]
    BY <1>1 DEF TransactionsTypeOK
  <2>2. /\ tx \in TxSet /\ tx.id = txs[i].id /\ tx.monitor = txs[i].monitor
        /\ tx.resolved
    BY <1>1 DEF TxSet
  <2>3. MonitorOK(tx, i, transactionState)
    BY <1>1, <1>2, <2>2 DEF MonitorOK, sendRejected
  <2>4. type \in StateTypes
    BY DEF StateTypes, shownTypes
  <2>5. setTransactionState([type |-> type, id |-> txs[i].id, tx |-> 0],
                            [txs EXCEPT ![i] = tx])
    BY <1>2, <2>1 DEF sendRejected
  <2> HIDE DEF tx
  <2> QED BY <2>2, <2>3, <2>4, <2>5, SetTx
<1>3. CASE walletSends(i)
  <2> DEFINE tx == [txs[i] EXCEPT !.stage = "broadcast"]
  <2>1. txs' = [txs EXCEPT ![i] = tx] /\ UNCHANGED transactionState
    BY <1>3 DEF walletSends
  <2>2. /\ tx \in TxSet /\ tx.id = txs[i].id /\ tx.monitor = txs[i].monitor
        /\ tx.resolved = txs[i].resolved
    BY <1>1 DEF TxSet
  <2>3. MonitorOK(tx, i, transactionState)
    BY <1>1, <1>3, <2>2 DEF MonitorOK, walletSends
  <2> HIDE DEF tx
  <2> QED BY <2>1, <2>2, <2>3, ChangeTx
<1>4. CASE sendResolved(i)
  <2> DEFINE tx == [txs[i] EXCEPT !.resolved = TRUE]
  <2>1. setTransactionState([type |-> "waitingForConfirmation", id |-> txs[i].id,
                             tx |-> i], [txs EXCEPT ![i] = tx])
    BY <1>4 DEF sendResolved
  <2>2. /\ tx \in TxSet /\ tx.id = txs[i].id /\ tx.monitor = txs[i].monitor
        /\ tx.resolved /\ txs[i].monitor = "none"
    BY <1>1, <1>4 DEF TxSet, MonitorOK, sendResolved
  <2>3. MonitorOK(tx, i, transactionState)
    BY <2>2 DEF MonitorOK
  <2>4. "waitingForConfirmation" \in StateTypes /\ i \in {0, i}
    BY DEF StateTypes, waitTypes
  <2> HIDE DEF tx
  <2> QED BY <2>1, <2>2, <2>3, <2>4, SetTx
<1> QED BY <1>2, <1>3, <1>4

\* Whatever the monitor of a transaction hears, the transactions stay in
\* order: its success is announced only while the page waits for it.
LEMMA MonitorTx ==
    ASSUME TransactionsTypeOK, MonitorsInv, NEW i \in DOMAIN txs,
           \/ receiptSucceeded(i) \/ receiptReverted(i) \/ revertReason(i)
           \/ receiptRejected(i)
    PROVE  TxStep
<1>1. txs[i] \in TxSet /\ MonitorOK(txs[i], i, transactionState) /\ txs \in Seq(TxSet)
  BY TxAt
<1>2. "confirmed" \in StateTypes /\ "failed" \in StateTypes
  BY DEF StateTypes, shownTypes
<1>3. ASSUME NEW type \in {"confirmed", "failed"}, txs[i].monitor \in {"watching", "reason"},
             type = "confirmed" => txs[i].monitor = "watching",
             txs[i].monitor = "reason" => txs[i].stage # "mined",
             setTransactionState([type |-> type, id |-> txs[i].id, tx |-> 0],
                                 [txs EXCEPT ![i].monitor = "finished"])
      PROVE  TxStep
  <2> DEFINE tx == [txs[i] EXCEPT !.monitor = "finished"]
  <2>1. setTransactionState([type |-> type, id |-> txs[i].id, tx |-> 0],
                            [txs EXCEPT ![i] = tx])
    BY <1>3
  <2>2. /\ tx \in TxSet /\ tx.id = txs[i].id /\ tx.monitor = "finished"
        /\ tx.resolved = txs[i].resolved
    BY <1>1 DEF TxSet
  <2>3. MonitorOK(tx, i, transactionState)
    BY <1>1, <1>3, <2>2 DEF MonitorOK
  <2>4. txs[i].stage = "mined" => /\ transactionState.type = "waitingForConfirmation"
                                  /\ transactionState.tx = i
    BY <1>1, <1>3 DEF MonitorOK
  <2>5. type \in StateTypes
    BY <1>2
  <2> HIDE DEF tx
  <2> QED BY <2>1, <2>2, <2>3, <2>4, <2>5, SetTx
<1>4. CASE receiptSucceeded(i)
  BY <1>3, <1>4 DEF receiptSucceeded, watches
<1>5. CASE revertReason(i)
  BY <1>1, <1>3, <1>5 DEF revertReason, MonitorOK
<1>6. CASE receiptReverted(i)
  <2> DEFINE tx == [txs[i] EXCEPT !.monitor = "reason"]
  <2>1. txs' = [txs EXCEPT ![i] = tx] /\ UNCHANGED transactionState
    BY <1>6 DEF receiptReverted
  <2>2. /\ tx \in TxSet /\ tx.id = txs[i].id /\ tx.monitor = "reason"
        /\ tx.resolved = txs[i].resolved /\ tx.stage = txs[i].stage
        /\ txs[i].monitor = "watching"
    BY <1>1, <1>6 DEF TxSet, receiptReverted, watches
  <2>3. MonitorOK(tx, i, transactionState)
    BY <1>1, <1>6, <2>2 DEF MonitorOK, receiptReverted
  <2> HIDE DEF tx
  <2> QED BY <2>1, <2>2, <2>3, ChangeTx
<1>7. CASE receiptRejected(i)
  <2>1. [txs EXCEPT ![i] = txs[i]] = txs
    BY <1>1
  <2>2. setTransactionState([type |-> "failed", id |-> txs[i].id, tx |-> 0],
                            [txs EXCEPT ![i] = txs[i]])
    BY <1>7, <2>1 DEF receiptRejected
  <2> DEFINE tx == txs[i]
  <2>3. /\ tx \in TxSet /\ tx.id = txs[i].id /\ tx.monitor = txs[i].monitor
        /\ MonitorOK(tx, i, transactionState)
        /\ setTransactionState([type |-> "failed", id |-> txs[i].id, tx |-> 0],
                               [txs EXCEPT ![i] = tx])
    BY <1>1, <2>2
  <2> HIDE DEF tx
  <2> QED BY <1>2, <2>3, SetTx
<1> QED BY <1>4, <1>5, <1>6, <1>7

\* An outcome is hidden: nobody waits for a confirmation.
LEMMA HideTx ==
    ASSUME TransactionsTypeOK, MonitorsInv, hideOutcome
    PROVE  TxStep
<1>1. transactionState.type # "waitingForConfirmation" /\ txs' = txs
  BY DEF hideOutcome, hides, shownTypes
<1>2. TransactionsTypeOK'
  BY <1>1 DEF hideOutcome, TransactionsTypeOK, Idle
<1>3. MonitorsInv'
  BY <1>1 DEF MonitorsInv, MonitorOK
<1> QED BY <1>1, <1>2, <1>3 DEF TxStep

-----------------------------------------------------------------------------
(* The page *)

\* What a step may do to the views: none shows a trove that was hidden, and
\* only the receipt of a transaction of the trove hides one.
ViewStep ==
    /\ ViewTypeOK' /\ stakePending' \in BOOLEAN
    /\ view = "LOADING" <=> view' = "LOADING"
    /\ view \notin OpenViews => view' \notin OpenViews
    /\ view \in OpenViews /\ view' \notin OpenViews =>
           \E i \in DOMAIN txs' : txs'[i].id = "trove" /\ txs'[i].monitor = "finished"

\* The views are left alone.
LEMMA QuietView ==
    ASSUME ViewTypeOK, stakePending \in BOOLEAN, UNCHANGED <<viewVars, stakePending>>
    PROVE  ViewStep
  BY DEF ViewStep, ViewTypeOK, viewVars

\* A longer chain has the blocks of the shorter one.
Extends(longer, shorter) ==
    /\ longer \in Seq(Blocks) /\ Len(longer) >= Len(shorter)
    /\ \A h \in 1..Len(shorter) : longer[h] = shorter[h]

\* A chain extends itself, and is extended by a block.
LEMMA ExtendsAppend ==
    ASSUME NEW c \in Seq(Blocks), NEW b \in Blocks
    PROVE  Extends(c, c) /\ Extends(Append(c, b), c)
  BY DEF Extends

\* While the store shows the same blocks, the page stays right.
LEMMA PageKept ==
    ASSUME PageInv, TxStep, ViewStep, Extends(chain', chain), UNCHANGED storeVars
    PROVE  PageInv'
<1>1. /\ announced' = announced /\ fetches' = fetches /\ loaded' = loaded
      /\ troveAt' = troveAt /\ surplusAt' = surplusAt /\ blockTag' = blockTag
  BY DEF storeVars
<1>2. StoreTypeOK'
  <2>1. /\ Len(chain) \in Nat /\ Len(chain') \in Nat /\ Len(chain') >= Len(chain)
        /\ chain' \in Seq(Blocks)
    BY DEF Extends, PageInv, StoreInv, TypeOK, StoreTypeOK
  <2> QED BY <1>1, <2>1 DEF PageInv, StoreInv, TypeOK, StoreTypeOK, height, Latest
<1>3. StoreInv'
  BY <1>1, <1>2 DEF PageInv, StoreInv, TypeOK, TaggedStateConsistent, TxStep,
     ViewStep, Latest
<1>4. trove' = trove
  <2>1. troveAt \in 1..Len(chain)
    BY DEF PageInv, StoreInv, TypeOK, StoreTypeOK, height
  <2> QED BY <1>1, <2>1 DEF trove, Extends
<1>5. NoGhostTrove'
  BY <1>1, <1>4 DEF PageInv, TroveShownRight, NoGhostTrove, ViewStep
<1>6. NetworkNeverHidesTrove'
  <2> SUFFICES ASSUME loaded', trove'.status = "open", view' \notin OpenViews
               PROVE  \E i \in DOMAIN txs' :
                          txs'[i].id = "trove" /\ txs'[i].monitor = "finished"
    BY DEF NetworkNeverHidesTrove, OpenViews
  <2>1. CASE view \in OpenViews
    BY <2>1 DEF ViewStep
  <2>2. CASE view \notin OpenViews
    <3>1. PICK i \in DOMAIN txs : txs[i].id = "trove" /\ txs[i].monitor = "finished"
      BY <1>1, <1>4, <2>2 DEF PageInv, TroveShownRight, NetworkNeverHidesTrove
    <3> QED BY <3>1 DEF TxStep
  <2> QED BY <2>1, <2>2
<1>7. LoadingInv'
  BY <1>1 DEF PageInv, LoadingInv, ViewStep, Latest
<1> QED BY <1>3, <1>5, <1>6, <1>7 DEF PageInv, TroveShownRight, TxStep

\* A panel hears of a transaction i whose monitor has just finished, if the
\* transaction is confirmed.
LEMMA PanelStep ==
    ASSUME ViewTypeOK, stakePending \in BOOLEAN, TxStep, NEW i \in DOMAIN txs,
           NEW type, type = "confirmed" => txs'[i].monitor = "finished",
           panelEffects(txs[i].id, type)
    PROVE  ViewStep
<1> DEFINE id == txs[i].id
<1>1. panelEffects(id, type)
  OBVIOUS
<1>2. i \in DOMAIN txs' /\ txs'[i].id = id
  BY DEF TxStep
<1> HIDE DEF id
<1>3. /\ ViewTypeOK' /\ stakePending' \in BOOLEAN
      /\ view = "LOADING" <=> view' = "LOADING"
      /\ view \notin OpenViews => view' \notin OpenViews
      /\ view \in OpenViews /\ view' \notin OpenViews
             => id = "trove" /\ type = "confirmed"
  BY <1>1, PanelView
<1> QED BY <1>2, <1>3 DEF ViewStep

\* The success of a transaction finishes its monitor.
LEMMA SuccessFinishes ==
    ASSUME TransactionsTypeOK, MonitorsInv, NEW i \in DOMAIN txs, receiptSucceeded(i)
    PROVE  txs'[i].monitor = "finished"
<1> DEFINE sent == [txs EXCEPT ![i].monitor = "finished"]
           new == [type |-> "confirmed", id |-> txs[i].id, tx |-> 0]
<1>1. txs \in Seq(TxSet) /\ txs[i] \in TxSet /\ i # 0
      /\ transactionState.type = "waitingForConfirmation" /\ transactionState.tx = i
  BY TxAt DEF receiptSucceeded, watches, MonitorOK
<1>2. sent[i].monitor = "finished" /\ DOMAIN sent = DOMAIN txs
  BY <1>1 DEF TxSet
<1>3. ~abandons(new, sent)
  BY <1>1, <1>2 DEF abandons
<1>4. setTransactionState(new, sent) /\ new.tx = 0
  BY DEF receiptSucceeded
<1> HIDE DEF sent, new
<1> QED BY <1>1, <1>2, <1>3, <1>4 DEF setTransactionState

\* Every step but those of the store and of the user's buttons is a step of
\* the transactions with the effects of the panels.
LEMMA TransactionsKeep ==
    ASSUME PageInv,
           \/ send \/ outcomeHidden
           \/ \E i \in DOMAIN txs : walletAnswers(i) \/ sendSettles(i) \/ receipt(i)
                                    \/ receiptLost(i)
    PROVE  PageInv' /\ TxStep
<1>1. /\ TransactionsTypeOK /\ MonitorsInv /\ ViewTypeOK /\ stakePending \in BOOLEAN
      /\ chain \in Seq(Blocks)
  BY DEF PageInv, StoreInv, TypeOK, StoreTypeOK
<1>2. Extends(chain, chain)
  BY <1>1 DEF Extends
<1>3. ASSUME UNCHANGED <<chain, storeVars>>, TxStep, ViewStep
      PROVE  PageInv'
  BY <1>2, <1>3, PageKept DEF Extends
<1>4. CASE send
  <2>1. UNCHANGED <<chain, storeVars>>
    BY <1>4 DEF send
  <2>2. PICK id \in Ids, kind \in Kinds : /\ sendTransaction(id, kind)
                                          /\ panelEffects(id, "waitingForApproval")
    <3>1. "trove" \in Ids /\ "claim-coll-surplus" \in Ids /\ "stake" \in Ids
      BY DEF Ids
    <3>2. /\ "open" \in Kinds /\ "adjust" \in Kinds /\ "close" \in Kinds
          /\ "claim" \in Kinds /\ "stake" \in Kinds
      BY DEF Kinds
    <3> QED BY <1>4, <3>1, <3>2 DEF send
  <2>3. TxStep
    BY <1>1, <2>2, SendTx
  <2>4. ViewStep
    BY <1>1, <2>2, PanelView DEF ViewStep
  <2> QED BY <1>3, <2>1, <2>3, <2>4
<1>5. CASE outcomeHidden
  BY <1>1, <1>3, <1>5, HideTx, QuietView DEF outcomeHidden
<1>6. ASSUME NEW i \in DOMAIN txs, walletAnswers(i)
      PROVE  PageInv' /\ TxStep
  <2>1. UNCHANGED <<chain, storeVars>> /\ TxStep
    BY <1>1, <1>6, WalletTx DEF walletAnswers
  <2>2. ViewStep
    <3>1. ASSUME NEW type \in {"cancelled", "failed"}, panelEffects(txs[i].id, type)
          PROVE  ViewStep
      BY <1>1, <2>1, <3>1, PanelStep
    <3>2. CASE UNCHANGED <<viewVars, stakePending>>
      BY <1>1, <3>2, QuietView
    <3> QED BY <1>6, <3>1, <3>2 DEF walletAnswers
  <2> QED BY <1>3, <2>1, <2>2
<1>7. ASSUME NEW i \in DOMAIN txs, sendSettles(i)
      PROVE  PageInv' /\ TxStep
  <2>1. UNCHANGED <<chain, storeVars>> /\ TxStep
    BY <1>1, <1>7, WalletTx DEF sendSettles
  <2>2. ViewStep
    BY <1>1, <1>7, <2>1, PanelStep DEF sendSettles
  <2> QED BY <1>3, <2>1, <2>2
<1>8. ASSUME NEW i \in DOMAIN txs, receipt(i)
      PROVE  PageInv' /\ TxStep
  <2>1. UNCHANGED <<chain, storeVars>> /\ TxStep
    BY <1>1, <1>8, MonitorTx DEF receipt
  <2>2. ViewStep
    <3>1. CASE receiptSucceeded(i) /\ panelEffects(txs[i].id, "confirmed")
      BY <1>1, <2>1, <3>1, SuccessFinishes, PanelStep
    <3>2. CASE UNCHANGED <<viewVars, stakePending>>
      BY <1>1, <3>2, QuietView
    <3>3. CASE panelEffects(txs[i].id, "failed")
      BY <1>1, <2>1, <3>3, PanelStep
    <3> QED BY <1>8, <3>1, <3>2, <3>3 DEF receipt
  <2> QED BY <1>3, <2>1, <2>2
<1>9. ASSUME NEW i \in DOMAIN txs, receiptLost(i)
      PROVE  PageInv' /\ TxStep
  <2>1. UNCHANGED <<chain, storeVars>> /\ TxStep
    BY <1>1, <1>9, MonitorTx DEF receiptLost
  <2>2. ViewStep
    BY <1>1, <1>9, <2>1, PanelStep DEF receiptLost
  <2> QED BY <1>3, <2>1, <2>2
<1> QED BY <1>4, <1>5, <1>6, <1>7, <1>8, <1>9

\* A block stays one when a part of it is replaced.
LEMMA BlockParts ==
    ASSUME NEW b \in Blocks
    PROVE  /\ \A x \in Statuses : [b EXCEPT !.status = x] \in Blocks
           /\ \A x \in 0..2 : [b EXCEPT !.trove = x] \in Blocks
           /\ \A x \in BOOLEAN : [b EXCEPT !.surplus = x] \in Blocks
           /\ [b EXCEPT !.stake = 1 - b.stake] \in Blocks
           /\ otherAmount(b) \in 0..2 /\ b.surplus \in BOOLEAN
<1>1. \A x \in Statuses : [b EXCEPT !.status = x] \in Blocks
  BY DEF Blocks
<1>2. \A x \in 0..2 : [b EXCEPT !.trove = x] \in Blocks
  BY DEF Blocks
<1>3. \A x \in BOOLEAN : [b EXCEPT !.surplus = x] \in Blocks
  BY DEF Blocks
<1>4. 1 - b.stake \in 0..1
  BY DEF Blocks
<1>5. [b EXCEPT !.stake = 1 - b.stake] \in Blocks
  BY <1>4 DEF Blocks
<1>6. otherAmount(b) \in 0..2 /\ b.surplus \in BOOLEAN
  BY DEF Blocks, otherAmount
<1> QED BY <1>1, <1>2, <1>3, <1>5, <1>6

\* The chain grows, by a transaction of the user or of another.
LEMMA ChainKeeps ==
    ASSUME PageInv, othersAct \/ \E i \in DOMAIN txs : mine(i)
    PROVE  PageInv' /\ TxStep
<1>1. /\ TransactionsTypeOK /\ MonitorsInv /\ ViewTypeOK /\ stakePending \in BOOLEAN
      /\ chain \in Seq(Blocks) /\ chain[height] \in Blocks
  BY DEF PageInv, StoreInv, TypeOK, StoreTypeOK, height
<1> DEFINE b == chain[height]
<1>2. UNCHANGED <<storeVars, viewVars, stakePending>>
  BY DEF othersAct, mine
<1>3. ViewStep
  BY <1>1, <1>2, QuietView
<1>4. CASE othersAct
  <2>1. \E next \in Blocks : chain' = Append(chain, next)
    <3>1. b \in Blocks
      BY <1>1
    <3> HIDE DEF b
    <3>2. /\ [b EXCEPT !.trove = otherAmount(b)] \in Blocks
          /\ [b EXCEPT !.status = "closedByRedemption", !.trove = 0, !.surplus = TRUE] \in Blocks
          /\ \A s \in {b.surplus, TRUE} :
                 [b EXCEPT !.status = "closedByLiquidation", !.trove = 0, !.surplus = s] \in Blocks
      <4>1. /\ "closedByRedemption" \in Statuses /\ "closedByLiquidation" \in Statuses
            /\ 0 \in 0..2
        BY DEF Statuses
      <4>2. [b EXCEPT !.trove = otherAmount(b)] \in Blocks
        BY <3>1, BlockParts
      <4>3. ASSUME NEW x \in Statuses, NEW s \in BOOLEAN
            PROVE  [b EXCEPT !.status = x, !.trove = 0, !.surplus = s] \in Blocks
        <5> DEFINE c == [b EXCEPT !.status = x]
        <5>1. c \in Blocks
          BY <3>1, BlockParts
        <5> HIDE DEF c
        <5> DEFINE d == [c EXCEPT !.trove = 0]
        <5>2. d \in Blocks
          BY <4>1, <5>1, BlockParts
        <5> HIDE DEF d
        <5>3. [d EXCEPT !.surplus = s] \in Blocks
          BY <5>2, BlockParts
        <5> QED BY <5>3 DEF c, d
      <4> QED BY <3>1, <4>1, <4>2, <4>3, BlockParts
    <3> QED BY <1>4, <3>2 DEF othersAct, b
  <2>2. Extends(chain', chain)
    BY <1>1, <2>1, ExtendsAppend
  <2>3. TxStep
    BY <1>1, <1>4, QuietTx DEF othersAct
  <2> QED BY <1>2, <1>3, <2>2, <2>3, PageKept
<1>5. ASSUME NEW i \in DOMAIN txs, mine(i)
      PROVE  PageInv' /\ TxStep
  <2>1. txs[i] \in TxSet /\ MonitorOK(txs[i], i, transactionState)
    BY <1>1, TxAt
  <2>2. Extends(chain', chain)
    <3> DEFINE kind == txs[i].kind
    <3>1. b \in Blocks /\ kind \in Kinds
      BY <1>1, <2>1 DEF TxSet
    <3>2. chain' = chain \/ chain' = Append(chain, executed(b, kind))
      BY <1>5 DEF mine
    <3> HIDE DEF b, kind
    <3>3. executed(b, kind) \in Blocks
      <4>1. /\ "open" \in Statuses /\ "closedByOwner" \in Statuses
            /\ 0 \in 0..2 /\ 1 \in 0..2
        BY DEF Statuses
      <4>2. ASSUME NEW x \in Statuses, NEW t \in 0..2
            PROVE  [b EXCEPT !.status = x, !.trove = t] \in Blocks
        <5> DEFINE c == [b EXCEPT !.status = x]
        <5>1. c \in Blocks
          BY <3>1, BlockParts
        <5> HIDE DEF c
        <5>2. [c EXCEPT !.trove = t] \in Blocks
          BY <5>1, BlockParts
        <5> QED BY <5>2 DEF c
      <4> QED BY <3>1, <4>1, <4>2, BlockParts DEF executed, Kinds
    <3> QED BY <1>1, <3>2, <3>3, ExtendsAppend
  <2>3. TxStep
    <3>1. ASSUME NEW stage \in {"mined", "reverted"},
                 txs' = [txs EXCEPT ![i].stage = stage]
          PROVE  TxStep
      <4> DEFINE tx == [txs[i] EXCEPT !.stage = stage]
      <4>1. txs' = [txs EXCEPT ![i] = tx] /\ UNCHANGED transactionState
        BY <1>5, <3>1 DEF mine
      <4>2. /\ tx \in TxSet /\ tx.id = txs[i].id /\ tx.monitor = txs[i].monitor
            /\ tx.resolved = txs[i].resolved
        BY <2>1 DEF TxSet
      <4>3. MonitorOK(tx, i, transactionState)
        BY <1>5, <2>1, <4>2 DEF MonitorOK, mine
      <4> HIDE DEF tx
      <4> QED BY <1>1, <4>1, <4>2, <4>3, ChangeTx
    <3> QED BY <1>5, <3>1 DEF mine
  <2> QED BY <1>2, <1>3, <2>2, <2>3, PageKept
<1> QED BY <1>4, <1>5

\* The buttons, and the editor, neither show nor hide a trove.
LEMMA PressKeeps ==
    ASSUME PageInv, press
    PROVE  PageInv' /\ TxStep
<1>1. /\ TransactionsTypeOK /\ MonitorsInv /\ ViewTypeOK /\ stakePending \in BOOLEAN
      /\ chain \in Seq(Blocks)
  BY DEF PageInv, StoreInv, TypeOK, StoreTypeOK
<1>2. UNCHANGED <<chain, storeVars, transactionVars, stakePending>>
  BY DEF press
<1>3. TxStep
  BY <1>1, <1>2, QuietTx
<1>4. ViewStep
  <2>1. ASSUME NEW event \in {"OPEN_TROVE_PRESSED", "ADJUST_TROVE_PRESSED",
                              "CLOSE_TROVE_PRESSED", "CANCEL_ADJUST_TROVE_PRESSED"},
               dispatchEvent(event, trove, myType(transactionState, "trove"))
        PROVE  ViewStep
    <3>1. /\ event # "TROVE_OPENED"
          /\ event \notin {"TROVE_CLOSED", "TROVE_LIQUIDATED", "TROVE_REDEEMED"}
      OBVIOUS
    <3> QED BY <1>1, <1>2, <2>1, <3>1, DispatchView DEF ViewStep
  <2>2. CASE editTrove(trove, myType(transactionState, "trove"))
    BY <1>1, <1>2, <2>2 DEF ViewStep, ViewTypeOK, editTrove, restarts, Changes
  <2> QED BY <2>1, <2>2 DEF press
<1>5. Extends(chain', chain)
  BY <1>1, <1>2 DEF Extends
<1> QED BY <1>2, <1>3, <1>4, <1>5, PageKept

\* A block is announced, or a fetch is rejected or ignored: only the set of
\* fetches changes, and the last block announced.
LEMMA FetchesKeep ==
    ASSUME PageInv, announced' \in 1..height,
           fetches' \subseteq {Latest} \union (1..height),
           UNCHANGED <<chain, loaded, troveAt, surplusAt, blockTag, transactionVars,
                       viewVars, stakePending>>
    PROVE  PageInv' /\ TxStep
<1>1. TransactionsTypeOK /\ MonitorsInv
  BY DEF PageInv, StoreInv, TypeOK
<1>2. TxStep
  BY <1>1, QuietTx
<1>3. StoreTypeOK'
  BY DEF PageInv, StoreInv, TypeOK, StoreTypeOK, height, Latest
<1>4. StoreInv'
  BY <1>2, <1>3 DEF PageInv, StoreInv, TypeOK, TxStep, ViewTypeOK, viewVars,
     TaggedStateConsistent, Latest
<1>5. TroveShownRight' /\ LoadingInv'
  BY DEF PageInv, TroveShownRight, NoGhostTrove, NetworkNeverHidesTrove, trove,
     LoadingInv, viewVars, transactionVars, Latest
<1> QED BY <1>2, <1>4, <1>5 DEF PageInv, TxStep

\* The panel of the trove hears of an update of the store: an open trove is
\* shown from then on, and a closed one is not.
LEMMA UpdateView ==
    ASSUME ViewTypeOK, NEW old, NEW new, NEW type, troveUpdate(old, new, type),
           new.status \in Statuses
    PROVE  /\ ViewTypeOK'
           /\ view = "LOADING" <=> view' = "LOADING"
           /\ old.status = new.status => view' = view
           /\ old.status # new.status /\ new.status = "open" /\ view # "LOADING"
                  => view' \in OpenViews
           /\ old.status # new.status /\ new.status \notin {"open", "nonExistent"}
                  => view' \notin OpenViews
<1> DEFINE event == statusEvent(new.status)
           next == IF old.status = new.status THEN view ELSE transition(view, event)
<1>1. /\ view' = next
      /\ IF next # view THEN mountEditor(next, new, type)
         ELSE /\ edit' \in editAfter(new, old # new)
              /\ changePending' \in {changePending /\ ~(changePending /\ old # new)}
                                    \union restarts(type, edit, edit')
  BY DEF troveUpdate
<1>2. /\ event \in {"TROVE_OPENED", "TROVE_CLOSED", "TROVE_LIQUIDATED",
                    "TROVE_REDEEMED", "none"}
      /\ event = "TROVE_OPENED" <=> new.status = "open"
      /\ event = "none" <=> new.status = "nonExistent"
  BY DEF statusEvent, Statuses
<1> HIDE DEF event
<1>3. /\ view' \in Views \union {"LOADING"}
      /\ view = "LOADING" <=> view' = "LOADING"
      /\ old.status = new.status => view' = view
      /\ old.status # new.status /\ new.status = "open" /\ view # "LOADING"
             => view' \in OpenViews
      /\ old.status # new.status /\ new.status \notin {"open", "nonExistent"}
             => view' \notin OpenViews
  BY <1>1, <1>2 DEF transition, ViewTypeOK, Views, Editors, OpenViews, openedFrom,
     closedFrom
<1>4. CASE next # view
  BY <1>1, <1>3, <1>4 DEF ViewTypeOK, mountEditor, Changes, NoChange, Editors
<1>5. CASE next = view
  <2>1. edit' \in Changes \union {NoChange} /\ changePending' \in BOOLEAN
    BY <1>1, <1>5 DEF ViewTypeOK, editAfter, restarts, Changes
  <2>2. ASSUME view \notin Editors
        PROVE  edit' = NoChange /\ ~changePending'
    BY <1>1, <1>5, <2>2 DEF ViewTypeOK, editAfter, restarts, NoChange
  <2> QED BY <1>1, <1>3, <1>5, <2>1, <2>2 DEF ViewTypeOK
<1> QED BY <1>3, <1>4, <1>5

\* A fetch loads or updates the store.
LEMMA AppliedKeeps ==
    ASSUME PageInv, NEW tag \in fetches, fetchResolved(tag), fetchApplied(tag)
    PROVE  PageInv' /\ TxStep
<1>1. /\ TransactionsTypeOK /\ MonitorsInv /\ ViewTypeOK /\ stakePending \in BOOLEAN
      /\ StoreTypeOK /\ LoadingInv
  BY DEF PageInv, StoreInv, TypeOK
<1>2. UNCHANGED <<chain, transactionVars>> /\ announced' = announced
  BY DEF fetchResolved, fetchApplied
<1>3. TxStep
  BY <1>1, <1>2, QuietTx
<1>4. PICK parts \in PartsOf(tag) : setState(parts, tag)
  BY DEF fetchApplied
<1>5. /\ troveAt' \in 1..height /\ surplusAt' \in 1..height
      /\ tag # Latest => troveAt' = tag /\ surplusAt' = tag
      /\ blockTag' = IF tag = Latest THEN blockTag ELSE tag
      /\ loaded' /\ tag \in {Latest} \union (1..height)
      /\ tag = Latest => ~loaded
      /\ fetches' = fetches \ {tag}
  BY <1>1, <1>4 DEF setState, PartsOf, fetchApplied, applies, StoreTypeOK
<1>6. StoreTypeOK'
  <2>1. loaded' = TRUE
    BY <1>4 DEF setState
  <2> QED BY <1>1, <1>2, <1>5, <2>1 DEF StoreTypeOK, height, Latest
<1>7. TaggedStateConsistent'
  BY <1>1, <1>5 DEF TaggedStateConsistent, LoadingInv, Latest
<1>8. trove'.status \in Statuses
  <2>1. chain'[troveAt'] \in Blocks
    BY <1>6 DEF StoreTypeOK, height
  <2> QED BY <2>1 DEF Blocks, trove
<1>9. CASE loaded
  <2>1. /\ troveUpdate(trove, trove', myType(transactionState, "trove"))
        /\ stakePending' \in BOOLEAN
    <3>1. troveUpdate(trove, trove', myType(transactionState, "trove"))
      BY <1>5, <1>9 DEF fetchResolved, fetchIgnored, applies
    <3>2. stakingUpdate(chain[troveAt].stake, chain[troveAt'].stake)
      BY <1>5, <1>9 DEF fetchResolved, fetchIgnored, applies
    <3> QED BY <3>1, <3>2 DEF stakingUpdate
  <2> DEFINE new == trove'
             type == myType(transactionState, "trove")
  <2>2. troveUpdate(trove, new, type) /\ new.status \in Statuses
    BY <1>8, <2>1
  <2> HIDE DEF new, type
  <2>3. /\ ViewTypeOK'
        /\ view = "LOADING" <=> view' = "LOADING"
        /\ trove.status = new.status => view' = view
        /\ trove.status # new.status /\ new.status = "open" /\ view # "LOADING"
               => view' \in OpenViews
        /\ trove.status # new.status /\ new.status \notin {"open", "nonExistent"}
               => view' \notin OpenViews
    BY <1>1, <2>2, UpdateView
  <2>4. NoGhostTrove'
    BY <1>9, <2>3 DEF PageInv, TroveShownRight, NoGhostTrove, new
  <2>5. NetworkNeverHidesTrove'
    <3>1. txs' = txs /\ view # "LOADING"
      BY <1>1, <1>2, <1>9 DEF transactionVars, LoadingInv
    <3> QED BY <1>9, <2>3, <3>1 DEF PageInv, TroveShownRight, NetworkNeverHidesTrove, new
  <2>6. LoadingInv'
    BY <1>1, <1>5, <1>9, <2>3 DEF LoadingInv
  <2> QED BY <1>3, <1>6, <1>7, <2>1, <2>3, <2>4, <2>5, <2>6 DEF PageInv, StoreInv,
          TypeOK, TroveShownRight, TxStep
<1>10. CASE ~loaded
  <2>1. /\ view' = getInitialView(trove'.status)
        /\ UNCHANGED <<edit, changePending, stakePending>>
    BY <1>10 DEF fetchResolved, fetchIgnored, applies
  <2> DEFINE status == trove'.status
  <2>2. view' = getInitialView(status) /\ status \in Statuses
    BY <1>8, <2>1
  <2> HIDE DEF status
  <2>3. /\ view' \in Views /\ view' \notin Editors /\ view' # "LOADING"
        /\ view' \in OpenViews <=> status = "open"
    BY <2>2 DEF getInitialView, Views, Editors, OpenViews, Statuses
  <2>4. edit = NoChange /\ ~changePending
    BY <1>1, <1>10 DEF LoadingInv, ViewTypeOK, Editors
  <2>5. ViewTypeOK'
    BY <1>1, <2>1, <2>3, <2>4 DEF ViewTypeOK
  <2>6. NoGhostTrove' /\ NetworkNeverHidesTrove'
    BY <2>3 DEF NoGhostTrove, NetworkNeverHidesTrove, OpenViews, status
  <2>7. LoadingInv'
    BY <1>5, <2>3 DEF LoadingInv
  <2> QED BY <1>1, <1>3, <1>6, <1>7, <2>1, <2>5, <2>6, <2>7 DEF PageInv, StoreInv,
          TypeOK, TroveShownRight, TxStep
<1> QED BY <1>9, <1>10

\* Every step of the page keeps the invariant.
LEMMA NextPage ==
    ASSUME PageInv, Next
    PROVE  PageInv' /\ TxStep
<1>1. CASE storeActs
  <2>1. /\ UNCHANGED <<chain, loaded, troveAt, surplusAt, blockTag, transactionVars,
                       viewVars, stakePending>>
        /\ announced' \in 1..height
        /\ fetches' \subseteq {Latest} \union (1..height)
    <3>1. /\ announced \in 1..height /\ height \in Nat
          /\ fetches \subseteq {Latest} \union (1..height)
      BY DEF PageInv, StoreInv, TypeOK, StoreTypeOK, height
    <3>2. CASE blockListener
      BY <1>1, <3>1, <3>2 DEF storeActs, blockListener, Latest
    <3>3. CASE quietBlock
      BY <1>1, <3>1, <3>3 DEF storeActs, quietBlock, Latest
    <3>4. CASE fetchRejected
      BY <1>1, <3>1, <3>4 DEF storeActs, fetchRejected, Latest
    <3> QED BY <1>1, <3>2, <3>3, <3>4 DEF storeActs
  <2> QED BY <2>1, FetchesKeep
<1>2. CASE press
  BY <1>2, PressKeeps
<1>3. CASE send \/ outcomeHidden
  BY <1>3, TransactionsKeep
<1>4. CASE othersAct
  BY <1>4, ChainKeeps
<1>5. ASSUME NEW tag \in fetches, fetchResolved(tag)
      PROVE  PageInv' /\ TxStep
  <2>1. CASE fetchApplied(tag)
    BY <1>5, <2>1, AppliedKeeps
  <2>2. CASE fetchIgnored(tag)
    <3>1. ~fetchApplied(tag)
      BY <2>2 DEF fetchIgnored, fetchApplied
    <3>2. /\ UNCHANGED <<chain, loaded, troveAt, surplusAt, blockTag, transactionVars,
                         viewVars, stakePending>>
          /\ announced' \in 1..height
          /\ fetches' \subseteq {Latest} \union (1..height)
      BY <1>5, <2>2, <3>1 DEF fetchResolved, fetchIgnored, PageInv, StoreInv, TypeOK,
         StoreTypeOK
    <3> QED BY <3>2, FetchesKeep
  <2> QED BY <1>5, <2>1, <2>2 DEF fetchResolved
<1>6. ASSUME NEW i \in DOMAIN txs, mine(i)
      PROVE  PageInv' /\ TxStep
  BY <1>6, ChainKeeps
<1>7. ASSUME NEW i \in DOMAIN txs,
             walletAnswers(i) \/ sendSettles(i) \/ receipt(i) \/ receiptLost(i)
      PROVE  PageInv' /\ TxStep
  BY <1>7, TransactionsKeep
<1> QED BY <1>1, <1>2, <1>3, <1>4, <1>5, <1>6, <1>7 DEF Next

\* A step that leaves the page alone.
LEMMA StutterPage ==
    ASSUME PageInv, UNCHANGED vars
    PROVE  PageInv' /\ TxStep
<1>1. /\ announced' \in 1..height /\ fetches' \subseteq {Latest} \union (1..height)
  BY DEF vars, storeVars, PageInv, StoreInv, TypeOK, StoreTypeOK
<1>2. UNCHANGED <<chain, loaded, troveAt, surplusAt, blockTag, transactionVars,
                  viewVars, stakePending>>
  BY DEF vars, storeVars
<1> QED BY <1>1, <1>2, FetchesKeep

\* The page before its store is loaded.
LEMMA InitPage == Init => PageInv
<1> SUFFICES ASSUME Init PROVE PageInv
  OBVIOUS
<1>1. PICK first \in FirstBlocks : StoreInit(first)
  BY DEF Init
<1>2. chain \in Seq(Blocks) /\ Len(chain) = 1
  BY <1>1, FrontEndAssumption DEF StoreInit
<1>3. StoreTypeOK
  <2>1. announced = 1 /\ fetches = {Latest} /\ troveAt = 1 /\ surplusAt = 1
    BY <1>1 DEF StoreInit
  <2>2. loaded \in BOOLEAN /\ blockTag = Latest
    BY <1>1 DEF StoreInit
  <2>3. 1 \in 1..Len(chain)
    BY <1>2
  <2> QED BY <1>2, <2>1, <2>2, <2>3 DEF StoreTypeOK, height
<1>4. txs = <<>> /\ transactionState = Idle
  BY DEF Init, TransactionsInit
<1>5. TransactionsTypeOK /\ MonitorsInv
  <2>1. txs \in Seq(TxSet) /\ Len(txs) = 0 /\ DOMAIN txs = {}
    BY <1>4
  <2>2. transactionState \in [type : StateTypes, id : Ids \union {"none"}, tx : 0..Len(txs)]
    BY <1>4, <2>1 DEF Idle, StateTypes
  <2> QED BY <2>1, <2>2 DEF TransactionsTypeOK, TxSet, StateTypes, MonitorsInv
<1>6. ViewTypeOK /\ stakePending \in BOOLEAN /\ view = "LOADING"
  BY DEF Init, ViewInit, ViewTypeOK, Editors
<1>7. loaded = FALSE /\ blockTag = Latest
  BY <1>1 DEF StoreInit
<1> QED BY <1>3, <1>5, <1>6, <1>7 DEF PageInv, StoreInv, TypeOK, TaggedStateConsistent,
        TroveShownRight, NoGhostTrove, NetworkNeverHidesTrove, LoadingInv

\* The inductive invariant of the page.
THEOREM PageInvariance == Spec => []PageInv
<1>1. PageInv /\ [Next]_vars => PageInv'
  BY NextPage, StutterPage
<1> QED BY InitPage, <1>1, PTL DEF Spec

\* However fetches overlap, are rejected or come late, a store that names
\* the block it shows shows that block in all its parts, and the page is
\* well formed.
THEOREM StoreInvariance == Spec => []StoreInv
<1>1. PageInv => StoreInv
  BY DEF PageInv
<1> QED BY PageInvariance, <1>1, PTL

\* A closed trove is not offered for adjustment, and the network alone never
\* hides an open one, in whatever order receipts, blocks and clicks come.
THEOREM TroveShown == Spec => []TroveShownRight
<1>1. PageInv => TroveShownRight
  BY DEF PageInv
<1> QED BY PageInvariance, <1>1, PTL

\* However transactions of the page overlap, a success is announced only of
\* the one that the page is waiting for.
THEOREM SuccessCurrent == Spec => SuccessIsCurrent
<1> DEFINE Announced ==
             \A i \in DOMAIN txs :
                 txs'[i].monitor = "finished" /\ txs[i].monitor # "finished" /\ txs[i].stage = "mined"
                     => /\ transactionState.type = "waitingForConfirmation"
                        /\ transactionState.tx = i
<1>1. PageInv /\ [Next]_vars => [Announced]_vars
  <2> SUFFICES ASSUME PageInv, Next PROVE Announced
    OBVIOUS
  <2>1. TxStep
    BY NextPage
  <2> QED BY <2>1 DEF TxStep
<1>2. Spec => [][Announced]_vars
  BY PageInvariance, <1>1, PTL DEF Spec
<1> QED BY <1>2 DEF SuccessIsCurrent
=============================================================================
