----------------------------- MODULE SortedTroves -----------------------------
(***************************************************************************)
(* SortedTroves.sol: a doubly linked list of troves with insertion hints.  *)
(*                                                                         *)
(* The ratios are TroveManager's: the list reads them when it inserts.     *)
(* Between two calls a redistribution may change the ratios of all members *)
(* and, by rounding, even their order; the hints of a caller may be any    *)
(* addresses, of members or not.                                           *)
(***************************************************************************)
EXTENDS Integers, FiniteSets, Sequences, SequencesExt

CONSTANTS
    Ids,        \* addresses of trove owners
    NoId,       \* address(0)
    Ratios,     \* nominal collateral ratios a trove may have
    MaxRatio,   \* uint256(-1), the ratio of an owner without debt
    MaxSize     \* data.maxSize

ASSUME ListAssumption ==
    /\ IsFiniteSet(Ids)
    /\ NoId \notin Ids
    /\ Ratios \subseteq Nat
    /\ MaxRatio \in Nat
    /\ \A r \in Ratios : r < MaxRatio
    /\ MaxSize \in Nat \ {0}

VARIABLES
    head,       \* data.head, the trove with the largest ratio
    tail,       \* data.tail, the one with the smallest
    size,       \* data.size
    exists,     \* data.nodes: whether an owner is in the list,
    nextId,     \* the trove after it (a smaller ratio)
    prevId,     \* and the one before it (a larger ratio)
    nicr        \* TroveManager.getNominalICR

dataVars == <<head, tail, size, exists, nextId, prevId>>
vars == <<dataVars, nicr>>

-----------------------------------------------------------------------------
(* The list a call works on.  Inside reInsert it is the storage that       *)
(* _remove has already changed.                                            *)

List(h, t, n, E, N, P) ==
    [head |-> h, tail |-> t, size |-> n, exists |-> E, nextId |-> N,
     prevId |-> P]
data == List(head, tail, size, exists, nextId, prevId)

store(L) ==
    /\ head' = L.head
    /\ tail' = L.tail
    /\ size' = L.size
    /\ exists' = L.exists
    /\ nextId' = L.nextId
    /\ prevId' = L.prevId

contains(L, x) == x # NoId /\ L.exists[x]

\* The mapping data.nodes holds null pointers for address(0), and a trove
\* that does not exist has no debt.
nextOf(L, x) == IF x = NoId THEN NoId ELSE L.nextId[x]
prevOf(L, x) == IF x = NoId THEN NoId ELSE L.prevId[x]
ratioOf(x) == IF x = NoId THEN MaxRatio ELSE nicr[x]

-----------------------------------------------------------------------------
(* The search for an insert position *)

\* Mutant: does not compare the new ratio with the tail's.
validIgnoringTail(L, ratio, prev, next) ==
    \/ prev = NoId /\ next = NoId /\ L.size = 0
    \/ prev = NoId /\ next # NoId /\ L.head = next /\ ratio >= ratioOf(next)
    \/ prev # NoId /\ next = NoId /\ L.tail = prev
    \/ /\ prev # NoId /\ next # NoId /\ L.nextId[prev] = next
       /\ ratioOf(prev) >= ratio /\ ratio >= ratioOf(next)

validInsertPosition(L, ratio, prev, next) ==
    \/ prev = NoId /\ next = NoId /\ L.size = 0
    \/ prev = NoId /\ next # NoId /\ L.head = next /\ ratio >= ratioOf(next)
    \/ prev # NoId /\ next = NoId /\ L.tail = prev /\ ratio <= ratioOf(prev)
    \/ /\ prev # NoId /\ next # NoId /\ L.nextId[prev] = next
       /\ ratioOf(prev) >= ratio /\ ratio >= ratioOf(next)

Place(prev, next) == [prev |-> prev, next |-> next]

\* The nodes a loop meets from x on, one for each pointer it follows
walk(x, pointer) ==
    LET met[k \in 0..Cardinality(Ids)] ==
            IF k = 0 THEN x
            ELSE IF met[k - 1] = NoId THEN NoId ELSE pointer[met[k - 1]]
    IN met

\* The first of them at which the loop stops
stopAt(met, stops) ==
    met[CHOOSE k \in DOMAIN met :
            met[k] \in stops /\ \A j \in 0..(k - 1) : met[j] \notin stops]

descendList(L, ratio, start) ==
    IF L.head = start /\ ratio >= ratioOf(start)
    THEN Place(NoId, start)
    ELSE LET fits(x) == validInsertPosition(L, ratio, x, nextOf(L, x))
             at == stopAt(walk(start, L.nextId),
                          {NoId} \cup {x \in Ids : fits(x)})
         IN Place(at, nextOf(L, at))

ascendList(L, ratio, start) ==
    IF L.tail = start /\ ratio <= ratioOf(start)
    THEN Place(start, NoId)
    ELSE LET fits(x) == validInsertPosition(L, ratio, prevOf(L, x), x)
             at == stopAt(walk(start, L.prevId),
                          {NoId} \cup {x \in Ids : fits(x)})
         IN Place(prevOf(L, at), at)

\* Mutant: starts at a hint that is no longer in the list.
usableIfNamed(L, ratio, x) == x # NoId /\ ratio <= ratioOf(x)

\* A hint counts only if it is still in the list and on the right side.
usablePrev(L, ratio, x) == contains(L, x) /\ ratio <= ratioOf(x)
usableNext(L, ratio, x) == contains(L, x) /\ ratio >= ratioOf(x)

findInsertPosition(L, ratio, prev, next) ==
    IF usablePrev(L, ratio, prev) THEN descendList(L, ratio, prev)
    ELSE IF usableNext(L, ratio, next) THEN ascendList(L, ratio, next)
    ELSE descendList(L, ratio, L.head)

\* Mutant: links the node where the hints say.
trustsHints(L, ratio, prev, next) == Place(prev, next)

insertPlace(L, ratio, prev, next) ==
    IF validInsertPosition(L, ratio, prev, next)
    THEN Place(prev, next)
    ELSE findInsertPosition(L, ratio, prev, next)

-----------------------------------------------------------------------------
(* The assignments of _insert and _remove, as the list they leave *)

linked(L, x, at) ==
    LET E == [L.exists EXCEPT ![x] = TRUE]
    IN CASE at.prev = NoId /\ at.next = NoId ->
                List(x, x, L.size + 1, E, L.nextId, L.prevId)
         [] at.prev = NoId /\ at.next # NoId ->
                List(x, L.tail, L.size + 1, E,
                     [L.nextId EXCEPT ![x] = L.head],
                     [L.prevId EXCEPT ![L.head] = x])
         [] at.prev # NoId /\ at.next = NoId ->
                List(L.head, x, L.size + 1, E,
                     [L.nextId EXCEPT ![L.tail] = x],
                     [L.prevId EXCEPT ![x] = L.tail])
         [] OTHER ->
                List(L.head, L.tail, L.size + 1, E,
                     [L.nextId EXCEPT ![x] = at.next, ![at.prev] = x],
                     [L.prevId EXCEPT ![x] = at.prev, ![at.next] = x])

\* Mutant: the removed node keeps its pointers.
unlinkedNotDeleted(L, x) ==
    LET next == L.nextId[x]
        prev == L.prevId[x]
    IN List(IF x = L.head THEN next ELSE L.head,
            IF x = L.tail THEN prev ELSE L.tail,
            L.size - 1, [L.exists EXCEPT ![x] = FALSE],
            [L.nextId EXCEPT ![prev] = next], [L.prevId EXCEPT ![next] = prev])

unlinked(L, x) ==
    LET next == L.nextId[x]
        prev == L.prevId[x]
        E == [L.exists EXCEPT ![x] = FALSE]
        N == [L.nextId EXCEPT ![x] = NoId]
        P == [L.prevId EXCEPT ![x] = NoId]
    IN CASE L.size <= 1 -> List(NoId, NoId, L.size - 1, E, N, P)
         [] L.size > 1 /\ x = L.head ->
                List(next, L.tail, L.size - 1, E, N, [P EXCEPT ![next] = NoId])
         [] L.size > 1 /\ x # L.head /\ x = L.tail ->
                List(L.head, prev, L.size - 1, E, [N EXCEPT ![prev] = NoId], P)
         [] OTHER ->
                List(L.head, L.tail, L.size - 1, E,
                     [N EXCEPT ![prev] = next], [P EXCEPT ![next] = prev])

-----------------------------------------------------------------------------
(* The calls.  The caller has set the ratio of the trove, or closed it. *)

insert(x, ratio, prev, next) ==
    /\ size # MaxSize
    /\ ~contains(data, x)
    /\ ratio > 0
    /\ store(linked(data, x, insertPlace(data, ratio, prev, next)))
    /\ nicr' = [nicr EXCEPT ![x] = ratio]

remove(x) ==
    /\ contains(data, x)
    /\ store(unlinked(data, x))
    /\ nicr' = [nicr EXCEPT ![x] = MaxRatio]

reInsert(x, ratio, prev, next) ==
    /\ contains(data, x)
    /\ ratio > 0
    /\ LET L == unlinked(data, x)
       IN store(linked(L, x, insertPlace(L, ratio, prev, next)))
    /\ nicr' = [nicr EXCEPT ![x] = ratio]

\* TroveManager redistributes a liquidated trove: the ratios of the members
\* change without the list being told.
redistribute ==
    /\ \E r \in [{x \in Ids : exists[x]} -> Ratios \ {0}] :
           nicr' = [x \in Ids |-> IF exists[x] THEN r[x] ELSE nicr[x]]
    /\ UNCHANGED dataVars

Init ==
    /\ head = NoId
    /\ tail = NoId
    /\ size = 0
    /\ exists = [x \in Ids |-> FALSE]
    /\ nextId = [x \in Ids |-> NoId]
    /\ prevId = [x \in Ids |-> NoId]
    /\ nicr = [x \in Ids |-> MaxRatio]

Next ==
    \/ \E x \in Ids, ratio \in Ratios, prev, next \in Ids \cup {NoId} :
           insert(x, ratio, prev, next) \/ reInsert(x, ratio, prev, next)
    \/ \E x \in Ids : remove(x)
    \/ redistribute

Spec == Init /\ [][Next]_vars

-----------------------------------------------------------------------------
(* Properties *)

\* The list never exceeds its maximum size, and every pointer names a trove
\* or the null address (`data' of SortedTroves.sol).
TypeOK ==
    /\ head \in Ids \cup {NoId}
    /\ tail \in Ids \cup {NoId}
    /\ size \in 0..MaxSize
    /\ exists \in [Ids -> BOOLEAN]
    /\ nextId \in [Ids -> Ids \cup {NoId}]
    /\ prevId \in [Ids -> Ids \cup {NoId}]
    /\ nicr \in [Ids -> Nat]

\* The troves met from the head on: the sequence the pointers stand for.
\* A loop that has met the null address meets nothing else.
troves(first, pointer) ==
    LET met == walk(first, pointer)
    IN [i \in 1..Cardinality({k \in DOMAIN met : met[k] # NoId}) |-> met[i - 1]]

listed == troves(head, nextId)

\* The links are consistent: from the head every member is reached exactly
\* once, the way back is its mirror image, `size' counts the members and a
\* node outside the list points nowhere (its stale pointers would survive
\* into the list when it is inserted as the head or the tail).
WellLinked ==
    /\ Len(listed) = size
    /\ ToSet(listed) = {x \in Ids : exists[x]}
    /\ Cardinality(ToSet(listed)) = size
    /\ head = (IF size = 0 THEN NoId ELSE Head(listed))
    /\ tail = (IF size = 0 THEN NoId ELSE Last(listed))
    /\ \A i \in 1..size : prevId[listed[i]] =
                              (IF i = 1 THEN NoId ELSE listed[i - 1])
    /\ \A x \in Ids \ ToSet(listed) : nextId[x] = NoId /\ prevId[x] = NoId

\* The list is well formed, its size and its links: what insert, remove and
\* reInsert rely on and keep, whatever the hints.
ListInv == TypeOK /\ WellLinked

Sorted ==
    \A i \in 1..(Len(listed) - 1) : nicr[listed[i]] >= nicr[listed[i + 1]]

\* Whatever the hints, a call of the list's owner leaves a sorted list
\* sorted; only a redistribution can disturb the order.
CallsKeepOrder == [][~redistribute => (Sorted => Sorted')]_vars

\* The search never runs off the list, even when redistributions have left
\* it unsorted: the place it finds is one the hint check would accept.
SearchSucceeds ==
    \A ratio \in Ratios \ {0}, prev, next \in Ids \cup {NoId} :
        LET at == insertPlace(data, ratio, prev, next)
        IN validInsertPosition(data, ratio, at.prev, at.next)

\* The pointers implement the sequence that TroveManager relies on.
TL == INSTANCE TroveList WITH list <- listed

ImplementsTroveList == TL!ListSpec
=============================================================================
