------------------------------ MODULE TroveList ------------------------------
(***************************************************************************)
(* What SortedTroves promises its callers: a sequence of distinct troves.  *)
(* A trove is inserted where its neighbours allow it, at one of the valid  *)
(* positions; a removal closes the gap and keeps everybody else's order.   *)
(* This is the list that ProtocolState works with.                         *)
(***************************************************************************)
EXTENDS Integers, Sequences, SequencesExt

CONSTANTS
    Ids,        \* addresses of trove owners
    Ratios,     \* nominal collateral ratios a trove may have
    MaxSize,    \* data.maxSize
    MaxRatio    \* uint256(-1), the ratio of an owner without debt

VARIABLES
    list,       \* the troves, largest ratio first
    nicr        \* TroveManager.getNominalICR of each owner

ValidPosition(l, ratio, i) ==
    /\ i = 1 \/ nicr[l[i - 1]] >= ratio
    /\ i = Len(l) + 1 \/ ratio >= nicr[l[i]]

\* The list when x has been taken out
Without(l, x) == RemoveAt(l, CHOOSE i \in 1..Len(l) : l[i] = x)

ListInit == list = <<>> /\ nicr = [x \in Ids |-> MaxRatio]

\* l is the list, without x, into which x goes
PutInto(l, x, ratio) ==
    /\ ratio > 0
    /\ \E i \in 1..(Len(l) + 1) :
           ValidPosition(l, ratio, i) /\ list' = InsertAt(l, i, x)
    /\ nicr' = [nicr EXCEPT ![x] = ratio]

InsertTrove(x, ratio) ==
    /\ x \notin ToSet(list)
    /\ Len(list) < MaxSize
    /\ PutInto(list, x, ratio)

RemoveTrove(x) ==
    /\ x \in ToSet(list)
    /\ list' = Without(list, x)
    /\ nicr' = [nicr EXCEPT ![x] = MaxRatio]

MoveTrove(x, ratio) ==
    /\ x \in ToSet(list)
    /\ PutInto(Without(list, x), x, ratio)

\* A redistribution changes the ratios of the members.
Redistribute ==
    /\ UNCHANGED list
    /\ \E r \in [ToSet(list) -> Ratios \ {0}] :
           nicr' = [x \in Ids |-> IF x \in ToSet(list) THEN r[x] ELSE nicr[x]]

ListNext ==
    \/ \E x \in Ids, ratio \in Ratios :
           InsertTrove(x, ratio) \/ MoveTrove(x, ratio)
    \/ \E x \in Ids : RemoveTrove(x)
    \/ Redistribute

ListSpec == ListInit /\ [][ListNext]_<<list, nicr>>
=============================================================================
