-------------------------- MODULE SortedTrovesProofs --------------------------
(***************************************************************************)
(* For every finite set of owners, every maximum size and every ratios and *)
(* hints: the linked list of SortedTroves stays well formed, its search    *)
(* ends at a valid position, its calls keep the order and the list         *)
(* implements the sequence that TroveManager relies on.                    *)
(***************************************************************************)
EXTENDS SortedTroves, DataTheorems

(* The inductive invariant: the links represent a sequence of the members, *)
(* in both directions, and whoever is not a member points nowhere.         *)

NodeAt(s, i) == IF i \in 1..Len(s) THEN s[i] ELSE NoId

Members(L) == {x \in Ids : L.exists[x]}

\* `head', `tail' and the two pointers of every member are those of s.
LinkedAs(L, s) ==
    /\ L.size = Len(s)
    /\ L.head = NodeAt(s, 1)
    /\ L.tail = NodeAt(s, Len(s))
    /\ \A i \in 1..Len(s) : /\ L.nextId[s[i]] = NodeAt(s, i + 1)
                            /\ L.prevId[s[i]] = NodeAt(s, i - 1)

OthersPointNowhere(L) ==
    \A x \in Ids : ~L.exists[x] => L.nextId[x] = NoId /\ L.prevId[x] = NoId

ListTypes(L) ==
    /\ L.exists \in [Ids -> BOOLEAN]
    /\ L.nextId \in [Ids -> Ids \cup {NoId}]
    /\ L.prevId \in [Ids -> Ids \cup {NoId}]

Represents(L, s) ==
    /\ ListTypes(L)
    /\ s \in Seq(Ids)
    /\ Lists(s, Members(L))
    /\ LinkedAs(L, s)
    /\ OthersPointNowhere(L)

LinksInv ==
    /\ Represents(data, listed)
    /\ size <= MaxSize
    /\ nicr \in [Ids -> Nat]

-----------------------------------------------------------------------------
(* The loops *)

\* The equation of a loop that follows a pointer from x on
Walks(met, x, pointer) ==
    met = [k \in 0..Cardinality(Ids) |->
               IF k = 0 THEN x
               ELSE IF met[k - 1] = NoId THEN NoId ELSE pointer[met[k - 1]]]

\* The number of owners is a natural number.
LEMMA IdsFinite == IsFiniteSet(Ids) /\ Cardinality(Ids) \in Nat
  BY ListAssumption, FS_CardinalityType

\* What satisfies the equation is what the loop meets.
LEMMA WalkIs ==
    ASSUME NEW x, NEW pointer, NEW met, Walks(met, x, pointer)
    PROVE  walk(x, pointer) = met
<1> DEFINE N == Cardinality(Ids)
           w == walk(x, pointer)
<1>1. N \in Nat
  BY IdsFinite
<1>2. w = CHOOSE g : Walks(g, x, pointer)
  BY DEF walk, Walks
<1>3. Walks(w, x, pointer)
  BY <1>2
<1> HIDE DEF w, N
<1>4. \A k \in 0..N : w[k] = IF k = 0 THEN x
                             ELSE IF w[k - 1] = NoId THEN NoId ELSE pointer[w[k - 1]]
  BY <1>3 DEF Walks, N
<1>5. \A k \in 0..N : met[k] = IF k = 0 THEN x
                               ELSE IF met[k - 1] = NoId THEN NoId
                                    ELSE pointer[met[k - 1]]
  BY DEF Walks, N
<1>6. \A k \in 0..N : w[k] = met[k]
  <2> DEFINE T == {k \in 0..N : w[k] # met[k]}
  <2>1. SUFFICES ASSUME T # {} PROVE FALSE
    OBVIOUS
  <2>2. PICK k \in T : \A j \in T : k <= j
    <3>1. T \in SUBSET Nat
      BY <1>1
    <3> HIDE DEF T
    <3> QED BY <2>1, <3>1, MinimumExists
  <2>3. k # 0
    BY <1>1, <1>4, <1>5
  <2>4. k - 1 \in 0..N /\ k - 1 \notin T
    BY <1>1, <2>2, <2>3
  <2>5. w[k - 1] = met[k - 1]
    BY <2>4
  <2>6. k \in 0..N /\ w[k] # met[k]
    OBVIOUS
  <2> HIDE DEF T
  <2> QED BY <1>4, <1>5, <2>3, <2>5, <2>6
<1>7. w = [k \in 0..N |-> w[k]] /\ met = [k \in 0..N |-> met[k]]
  BY <1>3 DEF Walks, N
<1>8. w = met
  BY <1>6, <1>7
<1> QED BY <1>8 DEF w

\* A sequence of members is not longer than there are owners, and none of
\* its nodes is the null address.
LEMMA NodesAre ==
    ASSUME NEW L, NEW s, Represents(L, s)
    PROVE  /\ Len(s) \in Nat /\ Len(s) <= Cardinality(Ids)
           /\ \A i \in 1..Len(s) : s[i] \in Ids /\ s[i] # NoId /\ L.exists[s[i]]
           /\ \A i \in Int : NodeAt(s, i) # NoId <=> i \in 1..Len(s)
           /\ \A i \in Int : NodeAt(s, i) \in Ids \cup {NoId}
<1>1. s \in Seq(Ids) /\ Len(s) \in Nat
  BY DEF Represents
<1>2. Len(s) <= Cardinality(Ids)
  <2>1. Members(L) \in SUBSET Ids
    BY DEF Members
  <2>2. Cardinality(Members(L)) <= Cardinality(Ids)
    BY <2>1, IdsFinite, FS_Subset
  <2> QED BY <2>2 DEF Represents, Lists
<1>3. \A i \in 1..Len(s) : s[i] \in Ids /\ s[i] # NoId /\ L.exists[s[i]]
  BY <1>1, ListAssumption DEF Represents, Lists, Members
<1> QED BY <1>1, <1>2, <1>3 DEF NodeAt

\* Following `nextId' from a member meets the rest of the sequence and then
\* the null address.
LEMMA WalkForward ==
    ASSUME NEW L, NEW s, Represents(L, s), NEW i \in 1..(Len(s) + 1)
    PROVE  walk(NodeAt(s, i), L.nextId)
               = [k \in 0..Cardinality(Ids) |-> NodeAt(s, i + k)]
<1> DEFINE met == [k \in 0..Cardinality(Ids) |-> NodeAt(s, i + k)]
           step(k) == IF k = 0 THEN NodeAt(s, i)
                      ELSE IF met[k - 1] = NoId THEN NoId ELSE L.nextId[met[k - 1]]
<1>1. /\ Cardinality(Ids) \in Nat /\ Len(s) \in Nat
      /\ \A j \in Int : NodeAt(s, j) # NoId <=> j \in 1..Len(s)
  BY IdsFinite, NodesAre
<1>2. ASSUME NEW k \in 0..Cardinality(Ids) PROVE met[k] = step(k)
  <2>1. CASE k = 0
    BY <1>1, <2>1
  <2>2. CASE k # 0
    <3>1. /\ k - 1 \in 0..Cardinality(Ids) /\ met[k - 1] = NodeAt(s, i + (k - 1))
          /\ i + (k - 1) \in Int /\ (i + (k - 1)) + 1 = i + k
      BY <1>1, <2>2
    <3>2. CASE i + (k - 1) \in 1..Len(s)
      <4>1. NodeAt(s, i + (k - 1)) = s[i + (k - 1)]
        BY <3>2 DEF NodeAt
      <4>2. L.nextId[s[i + (k - 1)]] = NodeAt(s, i + k)
        BY <3>1, <3>2 DEF Represents, LinkedAs
      <4>3. NodeAt(s, i + (k - 1)) # NoId
        BY <1>1, <3>1, <3>2
      <4> QED BY <2>2, <3>1, <4>1, <4>2, <4>3
    <3>3. CASE i + (k - 1) \notin 1..Len(s)
      <4>1. NodeAt(s, i + (k - 1)) = NoId
        BY <1>1, <3>1, <3>3
      <4>2. i + k \notin 1..Len(s) /\ i + k \in Int
        BY <1>1, <2>2, <3>3
      <4>3. NodeAt(s, i + k) = NoId
        BY <1>1, <4>2
      <4> QED BY <2>2, <3>1, <4>1, <4>3
    <3> QED BY <3>2, <3>3
  <2> QED BY <2>1, <2>2
<1>3. met = [k \in 0..Cardinality(Ids) |-> step(k)]
  <2> HIDE DEF step
  <2> QED BY <1>2
<1>4. Walks(met, NodeAt(s, i), L.nextId)
  <2> HIDE DEF met
  <2> QED BY <1>3 DEF Walks
<1> HIDE DEF met
<1>5. walk(NodeAt(s, i), L.nextId) = met
  BY <1>4, WalkIs
<1> QED BY <1>5 DEF met

\* Following `prevId' from a member meets the sequence backwards up to the
\* head and then the null address.
LEMMA WalkBackward ==
    ASSUME NEW L, NEW s, Represents(L, s), NEW i \in 0..Len(s)
    PROVE  walk(NodeAt(s, i), L.prevId)
               = [k \in 0..Cardinality(Ids) |-> NodeAt(s, i - k)]
<1> DEFINE met == [k \in 0..Cardinality(Ids) |-> NodeAt(s, i - k)]
           step(k) == IF k = 0 THEN NodeAt(s, i)
                      ELSE IF met[k - 1] = NoId THEN NoId ELSE L.prevId[met[k - 1]]
<1>1. /\ Cardinality(Ids) \in Nat /\ Len(s) \in Nat
      /\ \A j \in Int : NodeAt(s, j) # NoId <=> j \in 1..Len(s)
  BY IdsFinite, NodesAre
<1>2. ASSUME NEW k \in 0..Cardinality(Ids) PROVE met[k] = step(k)
  <2>1. CASE k = 0
    BY <1>1, <2>1
  <2>2. CASE k # 0
    <3>1. /\ k - 1 \in 0..Cardinality(Ids) /\ met[k - 1] = NodeAt(s, i - (k - 1))
          /\ i - (k - 1) \in Int /\ (i - (k - 1)) - 1 = i - k
      BY <1>1, <2>2
    <3>2. CASE i - (k - 1) \in 1..Len(s)
      <4>1. NodeAt(s, i - (k - 1)) = s[i - (k - 1)]
        BY <3>2 DEF NodeAt
      <4>2. L.prevId[s[i - (k - 1)]] = NodeAt(s, i - k)
        BY <3>1, <3>2 DEF Represents, LinkedAs
      <4>3. NodeAt(s, i - (k - 1)) # NoId
        BY <1>1, <3>1, <3>2
      <4> QED BY <2>2, <3>1, <4>1, <4>2, <4>3
    <3>3. CASE i - (k - 1) \notin 1..Len(s)
      <4>1. NodeAt(s, i - (k - 1)) = NoId
        BY <1>1, <3>1, <3>3
      <4>2. i - k \notin 1..Len(s) /\ i - k \in Int
        BY <1>1, <2>2, <3>3
      <4>3. NodeAt(s, i - k) = NoId
        BY <1>1, <4>2
      <4> QED BY <2>2, <3>1, <4>1, <4>3
    <3> QED BY <3>2, <3>3
  <2> QED BY <2>1, <2>2
<1>3. met = [k \in 0..Cardinality(Ids) |-> step(k)]
  <2> HIDE DEF step
  <2> QED BY <1>2
<1>4. Walks(met, NodeAt(s, i), L.prevId)
  <2> HIDE DEF met
  <2> QED BY <1>3 DEF Walks
<1> HIDE DEF met
<1>5. walk(NodeAt(s, i), L.prevId) = met
  BY <1>4, WalkIs
<1> QED BY <1>5 DEF met

\* The sequence that the links stand for is the one they represent.
LEMMA ListedIs ==
    ASSUME NEW L, NEW s, Represents(L, s)
    PROVE  troves(L.head, L.nextId) = s
<1> DEFINE n == Cardinality(Ids)
           met == walk(L.head, L.nextId)
           some == {k \in DOMAIN met : met[k] # NoId}
<1>1. /\ n \in Nat /\ Len(s) \in Nat /\ Len(s) <= n
      /\ \A j \in Int : NodeAt(s, j) # NoId <=> j \in 1..Len(s)
  BY IdsFinite, NodesAre
<1>2. met = [k \in 0..n |-> NodeAt(s, 1 + k)]
  <2>1. L.head = NodeAt(s, 1)
    BY DEF Represents, LinkedAs
  <2>2. \A i \in 1..(Len(s) + 1) :
            walk(NodeAt(s, i), L.nextId) = [k \in 0..n |-> NodeAt(s, i + k)]
    BY WalkForward
  <2>3. 1 \in 1..(Len(s) + 1)
    BY <1>1
  <2> HIDE DEF n
  <2> QED BY <2>1, <2>2, <2>3
<1> HIDE DEF met
<1>3. some = 0..(Len(s) - 1)
  <2>1. ASSUME NEW k PROVE k \in some <=> k \in 0..(Len(s) - 1)
    <3>1. k \in some <=> k \in 0..n /\ NodeAt(s, 1 + k) # NoId
      BY <1>2
    <3>2. k \in 0..n => (NodeAt(s, 1 + k) # NoId <=> 1 + k \in 1..Len(s))
      BY <1>1
    <3> QED BY <1>1, <3>1, <3>2
  <2> HIDE DEF some
  <2> QED BY <2>1
<1>4. Cardinality(some) = Len(s)
  <2>1. Cardinality(0..(Len(s) - 1)) = Len(s)
    <3>1. ASSUME NEW a \in Int, NEW b \in Int, a = 0, b = Len(s) - 1
          PROVE  Cardinality(a..b) = Len(s)
      <4>1. Cardinality(a..b) = IF a > b THEN 0 ELSE b - a + 1
        BY FS_Interval
      <4>2. (IF a > b THEN 0 ELSE b - a + 1) = Len(s)
        BY <1>1, <3>1
      <4> QED BY <4>1, <4>2
    <3>2. 0 \in Int /\ Len(s) - 1 \in Int
      BY <1>1
    <3> QED BY <3>1, <3>2
  <2> QED BY <1>3, <2>1
<1>5. troves(L.head, L.nextId) = [i \in 1..Len(s) |-> met[i - 1]]
  BY <1>4 DEF troves, met
<1>6. \A i \in 1..Len(s) : met[i - 1] = s[i]
  <2> TAKE i \in 1..Len(s)
  <2>1. i - 1 \in 0..n /\ 1 + (i - 1) = i
    BY <1>1
  <2>2. met[i - 1] = NodeAt(s, i)
    BY <1>2, <2>1
  <2> QED BY <2>2 DEF NodeAt
<1>7. s = [i \in 1..Len(s) |-> s[i]]
  BY DEF Represents
<1> QED BY <1>5, <1>6, <1>7

\* A loop that meets a node at which it stops, stops at the first such node.
LEMMA FirstStop ==
    ASSUME NEW n \in Nat, NEW met, DOMAIN met = 0..n, NEW stops,
           NEW m \in 0..n, met[m] \in stops
    PROVE  \E k \in 0..m : /\ stopAt(met, stops) = met[k]
                           /\ met[k] \in stops
                           /\ \A j \in 0..(k - 1) : met[j] \notin stops
<1> DEFINE T == {k \in 0..n : met[k] \in stops}
           first(k) == met[k] \in stops /\ \A j \in 0..(k - 1) : met[j] \notin stops
<1>1. PICK k \in T : \A j \in T : k <= j
  <2>1. T \in SUBSET Nat /\ m \in T
    OBVIOUS
  <2> HIDE DEF T
  <2> QED BY <2>1, MinimumExists
<1>2. k \in 0..n /\ met[k] \in stops /\ m \in T
  OBVIOUS
<1>3. k \in 0..m
  BY <1>1, <1>2
<1>4. first(k)
  <2>1. \A j \in 0..(k - 1) : j \in 0..n /\ ~(k <= j)
    BY <1>2
  <2> QED BY <1>1, <1>2, <2>1
<1>5. \A j \in 0..n : first(j) => j = k
  <2> TAKE j \in 0..n
  <2> HAVE first(j)
  <2>1. j \in T
    OBVIOUS
  <2>2. ~(k < j)
    <3>1. k < j => k \in 0..(j - 1)
      BY <1>2
    <3> QED BY <1>2, <3>1
  <2> QED BY <1>1, <1>2, <2>1, <2>2
<1>6. stopAt(met, stops) = met[CHOOSE j \in 0..n : first(j)]
  BY DEF stopAt
<1>7. (CHOOSE j \in 0..n : first(j)) = k
  <2> HIDE DEF first
  <2> QED BY <1>2, <1>4, <1>5
<1> QED BY <1>3, <1>4, <1>6, <1>7

-----------------------------------------------------------------------------
(* The search for an insert position *)

\* Two neighbours of the sequence, or an end of it
Neighbours(s, ratio, prev, next) ==
    \E i \in 1..(Len(s) + 1) : /\ prev = NodeAt(s, i - 1)
                              /\ next = NodeAt(s, i)
                              /\ TL!ValidPosition(s, ratio, i)

\* What _validInsertPosition accepts are two neighbours of the sequence, or
\* an end of it, between which the ratio belongs.
LEMMA ValidPlace ==
    ASSUME NEW L, NEW s, Represents(L, s), nicr \in [Ids -> Nat], NEW ratio \in Nat,
           NEW prev \in Ids \cup {NoId}, NEW next \in Ids \cup {NoId},
           validInsertPosition(L, ratio, prev, next)
    PROVE  Neighbours(s, ratio, prev, next)
<1> SUFFICES \E i \in 1..(Len(s) + 1) : /\ prev = NodeAt(s, i - 1)
                                        /\ next = NodeAt(s, i)
                                        /\ TL!ValidPosition(s, ratio, i)
  BY DEF Neighbours
<1>1. /\ Len(s) \in Nat
      /\ \A i \in 1..Len(s) : s[i] \in Ids /\ s[i] # NoId
      /\ \A i \in Int : NodeAt(s, i) # NoId <=> i \in 1..Len(s)
  BY NodesAre
<1>2. L.size = Len(s) /\ L.head = NodeAt(s, 1) /\ L.tail = NodeAt(s, Len(s))
  BY DEF Represents, LinkedAs
<1>3. CASE prev = NoId /\ next = NoId /\ L.size = 0
  <2>1. 1 \in 1..(Len(s) + 1) /\ NodeAt(s, 1 - 1) = NoId /\ NodeAt(s, 1) = NoId
    BY <1>1, <1>2, <1>3 DEF NodeAt
  <2>2. TL!ValidPosition(s, ratio, 1)
    BY <1>2, <1>3 DEF TL!ValidPosition
  <2> QED BY <1>3, <2>1, <2>2
<1>4. CASE prev = NoId /\ next # NoId /\ L.head = next /\ ratio >= ratioOf(next)
  <2>1. 1 \in 1..(Len(s) + 1) /\ NodeAt(s, 1 - 1) = NoId /\ NodeAt(s, 1) = next
    BY <1>1, <1>2, <1>4 DEF NodeAt
  <2>2. next = s[1]
    BY <1>1, <1>2, <1>4 DEF NodeAt
  <2>3. TL!ValidPosition(s, ratio, 1)
    BY <1>4, <2>2 DEF TL!ValidPosition, ratioOf
  <2> QED BY <1>4, <2>1, <2>3
<1>5. CASE prev # NoId /\ next = NoId /\ L.tail = prev /\ ratio <= ratioOf(prev)
  <2> DEFINE i == Len(s) + 1
  <2>1. i \in 1..(Len(s) + 1) /\ i - 1 = Len(s)
    BY <1>1
  <2>2. NodeAt(s, i - 1) = prev /\ NodeAt(s, i) = NoId
    BY <1>1, <1>2, <1>5, <2>1 DEF NodeAt
  <2>3. Len(s) \in 1..Len(s)
    <3>1. NodeAt(s, Len(s)) # NoId /\ Len(s) \in Int
      BY <1>1, <1>2, <1>5
    <3> QED BY <1>1, <3>1
  <2>4. s[i - 1] = prev /\ nicr[prev] \in Nat
    BY <1>1, <2>1, <2>2, <2>3, <1>5 DEF NodeAt
  <2>5. ratio <= nicr[prev]
    BY <1>5 DEF ratioOf
  <2>6. TL!ValidPosition(s, ratio, i)
    BY <2>4, <2>5 DEF TL!ValidPosition
  <2> QED BY <1>5, <2>1, <2>2, <2>6
<1>6. CASE /\ prev # NoId /\ next # NoId /\ L.nextId[prev] = next
           /\ ratioOf(prev) >= ratio /\ ratio >= ratioOf(next)
  <2>1. L.exists[prev]
    BY <1>6 DEF Represents, ListTypes, OthersPointNowhere
  <2>2. PICK j \in 1..Len(s) : s[j] = prev
    BY <1>6, <2>1 DEF Represents, Lists, Members
  <2>3. next = NodeAt(s, j + 1)
    BY <1>6, <2>2 DEF Represents, LinkedAs
  <2> DEFINE i == j + 1
  <2>4. i \in 1..Len(s) /\ i - 1 = j
    BY <1>1, <1>6, <2>3
  <2>5. prev = s[i - 1] /\ next = s[i]
    BY <2>2, <2>3, <2>4 DEF NodeAt
  <2>6. prev = NodeAt(s, i - 1)
    BY <2>2, <2>4 DEF NodeAt
  <2>7. TL!ValidPosition(s, ratio, i)
    BY <1>6, <2>5 DEF TL!ValidPosition, ratioOf
  <2>8. i \in 1..(Len(s) + 1)
    BY <1>1, <2>4
  <2> QED BY <2>3, <2>6, <2>7, <2>8
<1> QED BY <1>3, <1>4, <1>5, <1>6 DEF validInsertPosition

\* Below a node with no smaller ratio there is a place.
LEMMA FitBelow ==
    ASSUME NEW L, NEW s, Represents(L, s), nicr \in [Ids -> Nat], NEW ratio \in Nat,
           NEW i \in 1..Len(s), ratio <= nicr[s[i]]
    PROVE  \E m \in i..Len(s) :
               validInsertPosition(L, ratio, s[m], nextOf(L, s[m]))
<1> DEFINE T == {j \in (i + 1)..Len(s) : nicr[s[j]] < ratio}
<1>1. /\ Len(s) \in Nat
      /\ \A j \in 1..Len(s) : s[j] \in Ids /\ s[j] # NoId /\ nicr[s[j]] \in Nat
  BY NodesAre
<1>2. /\ L.tail = NodeAt(s, Len(s))
      /\ \A j \in 1..Len(s) : nextOf(L, s[j]) = NodeAt(s, j + 1)
  BY <1>1 DEF Represents, LinkedAs, nextOf
<1>3. \A j \in i..Len(s) : j \notin T => ratio <= nicr[s[j]]
  BY <1>1
<1>4. CASE T = {}
  <2> DEFINE m == Len(s)
  <2>1. m \in i..Len(s) /\ m \in 1..Len(s) /\ m + 1 \notin 1..Len(s)
    BY <1>1
  <2>2. ratio <= nicr[s[m]]
    BY <1>3, <1>4, <2>1
  <2>3. L.tail = s[m] /\ nextOf(L, s[m]) = NoId
    BY <1>2, <2>1 DEF NodeAt
  <2>4. validInsertPosition(L, ratio, s[m], nextOf(L, s[m]))
    BY <1>1, <2>1, <2>2, <2>3 DEF validInsertPosition, ratioOf
  <2> QED BY <2>1, <2>4
<1>5. CASE T # {}
  <2>1. PICK j \in T : \A k \in T : j <= k
    <3>1. T \in SUBSET Nat
      BY <1>1
    <3> HIDE DEF T
    <3> QED BY <1>5, <3>1, MinimumExists
  <2> DEFINE m == j - 1
  <2>2. j \in (i + 1)..Len(s) /\ nicr[s[j]] < ratio
    OBVIOUS
  <2>3. /\ m \in i..Len(s) /\ m \in 1..Len(s) /\ m + 1 = j /\ j \in 1..Len(s)
        /\ m \notin T
    BY <1>1, <2>1, <2>2
  <2>4. ratio <= nicr[s[m]]
    BY <1>3, <2>3
  <2>5. nextOf(L, s[m]) = s[j]
    BY <1>2, <2>3 DEF NodeAt
  <2>6. L.nextId[s[m]] = s[j]
    BY <1>1, <2>3, <2>5 DEF nextOf
  <2> HIDE DEF T, m
  <2>7. validInsertPosition(L, ratio, s[m], s[j])
    BY <1>1, <2>2, <2>3, <2>4, <2>6 DEF validInsertPosition, ratioOf
  <2> QED BY <2>3, <2>5, <2>7
<1> QED BY <1>4, <1>5

\* Above a node with no larger ratio there is a place.
LEMMA FitAbove ==
    ASSUME NEW L, NEW s, Represents(L, s), nicr \in [Ids -> Nat], NEW ratio \in Nat,
           NEW i \in 1..Len(s), ratio >= nicr[s[i]]
    PROVE  \E m \in 1..i :
               validInsertPosition(L, ratio, prevOf(L, s[m]), s[m])
<1> DEFINE T == {j \in 0..(i - 1) : j # 0 /\ nicr[s[j]] > ratio}
<1>1. /\ Len(s) \in Nat
      /\ \A j \in 1..Len(s) : s[j] \in Ids /\ s[j] # NoId /\ nicr[s[j]] \in Nat
  BY NodesAre
<1>2. /\ L.head = NodeAt(s, 1)
      /\ \A j \in 1..Len(s) : /\ L.nextId[s[j]] = NodeAt(s, j + 1)
                              /\ prevOf(L, s[j]) = NodeAt(s, j - 1)
  BY <1>1 DEF Represents, LinkedAs, prevOf
<1>3. \A j \in 1..i : j \notin T => ratio >= nicr[s[j]]
  BY <1>1
<1>4. CASE T = {}
  <2>1. 1 \in 1..i /\ 1 \in 1..Len(s) /\ 1 - 1 \notin 1..Len(s)
    BY <1>1
  <2>2. ratio >= nicr[s[1]]
    BY <1>3, <1>4, <2>1
  <2>3. L.head = s[1] /\ prevOf(L, s[1]) = NoId
    BY <1>2, <2>1 DEF NodeAt
  <2>4. validInsertPosition(L, ratio, prevOf(L, s[1]), s[1])
    BY <1>1, <2>1, <2>2, <2>3 DEF validInsertPosition, ratioOf
  <2> QED BY <2>1, <2>4
<1>5. CASE T # {}
  <2>1. PICK j \in T : \A k \in T : k <= j
    <3>1. i - 1 \in Nat /\ T \in SUBSET (0..(i - 1))
      BY <1>1
    <3>2. \A n \in Nat : T \in SUBSET (0..n) => \E j \in T : \A k \in T : k <= j
      <4> HIDE DEF T
      <4> QED BY <1>5, MaximumExists
    <3> HIDE DEF T
    <3> QED BY <3>1, <3>2
  <2> DEFINE m == j + 1
  <2>2. j \in 1..(i - 1) /\ nicr[s[j]] > ratio
    BY <1>1
  <2>3. /\ m \in 1..i /\ m \in 1..Len(s) /\ m - 1 = j /\ j \in 1..Len(s)
        /\ m \notin T
    BY <1>1, <2>1, <2>2
  <2>4. ratio >= nicr[s[m]]
    BY <1>3, <2>3
  <2>5. prevOf(L, s[m]) = s[j]
    BY <1>2, <2>3 DEF NodeAt
  <2>6. L.nextId[s[j]] = s[m]
    BY <1>2, <2>3 DEF NodeAt
  <2> HIDE DEF T, m
  <2>7. validInsertPosition(L, ratio, s[j], s[m])
    BY <1>1, <2>2, <2>3, <2>4, <2>6 DEF validInsertPosition, ratioOf
  <2> QED BY <2>3, <2>5, <2>7
<1> QED BY <1>4, <1>5

\* A place: two owners or null addresses that the hint check accepts
ValidAnswer(L, ratio, at) ==
    /\ at.prev \in Ids \cup {NoId}
    /\ at.next \in Ids \cup {NoId}
    /\ validInsertPosition(L, ratio, at.prev, at.next)

\* _descendList succeeds from a node with no smaller ratio.
LEMMA DescendSucceeds ==
    ASSUME NEW L, NEW s, Represents(L, s), nicr \in [Ids -> Nat], NEW ratio \in Nat,
           NEW i \in 1..Len(s), ratio <= nicr[s[i]]
    PROVE  ValidAnswer(L, ratio, descendList(L, ratio, s[i]))
<1> DEFINE n == Cardinality(Ids)
           met == walk(s[i], L.nextId)
           stops == {NoId} \cup
                        {x \in Ids : validInsertPosition(L, ratio, x, nextOf(L, x))}
           at == stopAt(met, stops)
<1>1. /\ n \in Nat /\ Len(s) \in Nat /\ Len(s) <= n
      /\ \A j \in 1..Len(s) : s[j] \in Ids /\ s[j] # NoId
      /\ \A j \in Int : NodeAt(s, j) \in Ids \cup {NoId}
  BY IdsFinite, NodesAre
<1>2. CASE L.head = s[i] /\ ratio >= ratioOf(s[i])
  <2>1. descendList(L, ratio, s[i]) = Place(NoId, s[i])
    BY <1>2 DEF descendList
  <2>2. validInsertPosition(L, ratio, NoId, s[i])
    BY <1>1, <1>2 DEF validInsertPosition
  <2> QED BY <1>1, <2>1, <2>2 DEF ValidAnswer, Place
<1>3. CASE ~(L.head = s[i] /\ ratio >= ratioOf(s[i]))
  <2>1. descendList(L, ratio, s[i]) = Place(at, nextOf(L, at))
    BY <1>3 DEF descendList
  <2>2. met = [k \in 0..n |-> NodeAt(s, i + k)]
    <3>1. \A j \in 1..(Len(s) + 1) :
              walk(NodeAt(s, j), L.nextId) = [k \in 0..n |-> NodeAt(s, j + k)]
      BY WalkForward
    <3>2. i \in 1..(Len(s) + 1) /\ NodeAt(s, i) = s[i]
      BY <1>1 DEF NodeAt
    <3> HIDE DEF n
    <3> QED BY <3>1, <3>2
  <2>3. PICK m \in i..Len(s) : validInsertPosition(L, ratio, s[m], nextOf(L, s[m]))
    BY FitBelow
  <2> HIDE DEF met
  <2>4. m - i \in 0..n /\ i + (m - i) = m /\ m \in 1..Len(s)
    BY <1>1
  <2>5. met[m - i] = s[m]
    BY <2>2, <2>4 DEF NodeAt
  <2>6. met[m - i] \in stops
    BY <1>1, <2>3, <2>4, <2>5
  <2>7. DOMAIN met = 0..n
    BY <2>2
  <2> HIDE DEF stops
  <2>8. PICK k \in 0..(m - i) : at = met[k] /\ met[k] \in stops
    <3> HIDE DEF n
    <3> QED BY <1>1, <2>4, <2>6, <2>7, FirstStop
  <2>9. i + k \in 1..Len(s) /\ k \in 0..n
    BY <1>1, <2>4
  <2>10. at = s[i + k]
    BY <2>2, <2>8, <2>9 DEF NodeAt
  <2>11. at \in Ids /\ at # NoId /\ at \in stops
    BY <1>1, <2>8, <2>9, <2>10
  <2> HIDE DEF at
  <2>12. validInsertPosition(L, ratio, at, nextOf(L, at))
    BY <2>11 DEF stops
  <2>13. nextOf(L, at) \in Ids \cup {NoId}
    BY <2>11 DEF nextOf, Represents, ListTypes
  <2> QED BY <2>1, <2>11, <2>12, <2>13 DEF ValidAnswer, Place
<1> QED BY <1>2, <1>3

\* _ascendList succeeds from a node with no larger ratio.
LEMMA AscendSucceeds ==
    ASSUME NEW L, NEW s, Represents(L, s), nicr \in [Ids -> Nat], NEW ratio \in Nat,
           NEW i \in 1..Len(s), ratio >= nicr[s[i]]
    PROVE  ValidAnswer(L, ratio, ascendList(L, ratio, s[i]))
<1> DEFINE n == Cardinality(Ids)
           met == walk(s[i], L.prevId)
           stops == {NoId} \cup
                        {x \in Ids : validInsertPosition(L, ratio, prevOf(L, x), x)}
           at == stopAt(met, stops)
<1>1. /\ n \in Nat /\ Len(s) \in Nat /\ Len(s) <= n
      /\ \A j \in 1..Len(s) : s[j] \in Ids /\ s[j] # NoId
      /\ \A j \in Int : NodeAt(s, j) \in Ids \cup {NoId}
  BY IdsFinite, NodesAre
<1>2. CASE L.tail = s[i] /\ ratio <= ratioOf(s[i])
  <2>1. ascendList(L, ratio, s[i]) = Place(s[i], NoId)
    BY <1>2 DEF ascendList
  <2>2. validInsertPosition(L, ratio, s[i], NoId)
    BY <1>1, <1>2 DEF validInsertPosition
  <2> QED BY <1>1, <2>1, <2>2 DEF ValidAnswer, Place
<1>3. CASE ~(L.tail = s[i] /\ ratio <= ratioOf(s[i]))
  <2>1. ascendList(L, ratio, s[i]) = Place(prevOf(L, at), at)
    BY <1>3 DEF ascendList
  <2>2. met = [k \in 0..n |-> NodeAt(s, i - k)]
    <3>1. \A j \in 0..Len(s) :
              walk(NodeAt(s, j), L.prevId) = [k \in 0..n |-> NodeAt(s, j - k)]
      BY WalkBackward
    <3>2. i \in 0..Len(s) /\ NodeAt(s, i) = s[i]
      BY <1>1 DEF NodeAt
    <3> HIDE DEF n
    <3> QED BY <3>1, <3>2
  <2>3. PICK m \in 1..i : validInsertPosition(L, ratio, prevOf(L, s[m]), s[m])
    BY FitAbove
  <2> HIDE DEF met
  <2>4. i - m \in 0..n /\ i - (i - m) = m /\ m \in 1..Len(s)
    BY <1>1
  <2>5. met[i - m] = s[m]
    BY <2>2, <2>4 DEF NodeAt
  <2>6. met[i - m] \in stops
    BY <1>1, <2>3, <2>4, <2>5
  <2>7. DOMAIN met = 0..n
    BY <2>2
  <2> HIDE DEF stops
  <2>8. PICK k \in 0..(i - m) : at = met[k] /\ met[k] \in stops
    <3> HIDE DEF n
    <3> QED BY <1>1, <2>4, <2>6, <2>7, FirstStop
  <2>9. i - k \in 1..Len(s) /\ k \in 0..n
    BY <1>1, <2>4
  <2>10. at = s[i - k]
    BY <2>2, <2>8, <2>9 DEF NodeAt
  <2>11. at \in Ids /\ at # NoId /\ at \in stops
    BY <1>1, <2>8, <2>9, <2>10
  <2> HIDE DEF at
  <2>12. validInsertPosition(L, ratio, prevOf(L, at), at)
    BY <2>11 DEF stops
  <2>13. prevOf(L, at) \in Ids \cup {NoId}
    BY <2>11 DEF prevOf, Represents, ListTypes
  <2> QED BY <2>1, <2>11, <2>12, <2>13 DEF ValidAnswer, Place
<1> QED BY <1>2, <1>3

\* In an empty list the search ends at once, with no neighbours.
LEMMA EmptyDescends ==
    ASSUME NEW L, NEW s, Represents(L, s), Len(s) = 0, NEW ratio \in Nat,
           ratio < MaxRatio
    PROVE  ValidAnswer(L, ratio, descendList(L, ratio, L.head))
<1> DEFINE n == Cardinality(Ids)
           met == walk(NoId, L.nextId)
           stops == {NoId} \cup
                        {x \in Ids : validInsertPosition(L, ratio, x, nextOf(L, x))}
           at == stopAt(met, stops)
<1>1. L.head = NoId /\ L.size = 0 /\ NodeAt(s, 1) = NoId
  BY DEF Represents, LinkedAs, NodeAt
<1>2. ~(ratio >= ratioOf(NoId))
  BY ListAssumption DEF ratioOf
<1>3. descendList(L, ratio, L.head) = Place(at, nextOf(L, at))
  BY <1>1, <1>2 DEF descendList
<1>4. met = [k \in 0..n |-> NodeAt(s, 1 + k)]
  <2>1. \A j \in 1..(Len(s) + 1) :
            walk(NodeAt(s, j), L.nextId) = [k \in 0..n |-> NodeAt(s, j + k)]
    BY WalkForward
  <2>2. 1 \in 1..(Len(s) + 1)
    OBVIOUS
  <2> HIDE DEF n
  <2> QED BY <1>1, <2>1, <2>2
<1>5. n \in Nat
  BY IdsFinite
<1> HIDE DEF met, n
<1>6. \A k \in 0..n : met[k] = NoId
  BY <1>4, <1>5 DEF NodeAt
<1>7. DOMAIN met = 0..n /\ 0 \in 0..n /\ met[0] \in stops
  <2>1. NoId \in stops
    OBVIOUS
  <2> HIDE DEF stops
  <2>2. 0 \in 0..n
    BY <1>5
  <2>3. met[0] = NoId
    BY <1>6, <2>2
  <2>4. DOMAIN met = 0..n
    BY <1>4
  <2> QED BY <2>1, <2>2, <2>3, <2>4
<1> HIDE DEF stops
<1>8. \A m \in 0..n : met[m] \in stops => \E k \in 0..m : at = met[k]
  BY <1>5, <1>7, FirstStop
<1>9. at = NoId
  <2>1. PICK k \in 0..0 : at = met[k]
    BY <1>7, <1>8
  <2> QED BY <1>5, <1>6, <2>1
<1> HIDE DEF at
<1>10. validInsertPosition(L, ratio, NoId, NoId)
  BY <1>1 DEF validInsertPosition
<1> QED BY <1>3, <1>9, <1>10 DEF ValidAnswer, Place, nextOf

\* Whatever the hints, the place of an insertion is a valid one, even when
\* the list is not sorted.
LEMMA PlaceFound ==
    ASSUME NEW L, NEW s, Represents(L, s), nicr \in [Ids -> Nat], NEW ratio \in Nat,
           ratio < MaxRatio,
           NEW prev \in Ids \cup {NoId}, NEW next \in Ids \cup {NoId}
    PROVE  ValidAnswer(L, ratio, insertPlace(L, ratio, prev, next))
<1>1. /\ Len(s) \in Nat
      /\ \A j \in 1..Len(s) : s[j] \in Ids /\ s[j] # NoId /\ nicr[s[j]] \in Nat
  BY NodesAre
<1>2. ASSUME NEW x \in Ids \cup {NoId}, contains(L, x)
      PROVE  \E i \in 1..Len(s) : s[i] = x
  BY <1>2 DEF contains, Represents, Lists, Members
<1>3. CASE validInsertPosition(L, ratio, prev, next)
  BY <1>3 DEF insertPlace, ValidAnswer, Place
<1>4. CASE ~validInsertPosition(L, ratio, prev, next)
  <2>1. insertPlace(L, ratio, prev, next) = findInsertPosition(L, ratio, prev, next)
    BY <1>4 DEF insertPlace
  <2>2. CASE usablePrev(L, ratio, prev)
    <3>1. PICK i \in 1..Len(s) : s[i] = prev
      BY <1>2, <2>2 DEF usablePrev
    <3>2. ratio <= nicr[s[i]]
      BY <2>2, <3>1 DEF usablePrev, contains, ratioOf
    <3>3. findInsertPosition(L, ratio, prev, next) = descendList(L, ratio, s[i])
      BY <2>2, <3>1 DEF findInsertPosition
    <3> QED BY <2>1, <3>2, <3>3, DescendSucceeds
  <2>3. CASE ~usablePrev(L, ratio, prev) /\ usableNext(L, ratio, next)
    <3>1. PICK i \in 1..Len(s) : s[i] = next
      BY <1>2, <2>3 DEF usableNext
    <3>2. ratio >= nicr[s[i]]
      BY <2>3, <3>1 DEF usableNext, contains, ratioOf
    <3>3. findInsertPosition(L, ratio, prev, next) = ascendList(L, ratio, s[i])
      BY <2>3, <3>1 DEF findInsertPosition
    <3> QED BY <2>1, <3>2, <3>3, AscendSucceeds
  <2>4. CASE ~usablePrev(L, ratio, prev) /\ ~usableNext(L, ratio, next)
    <3>1. findInsertPosition(L, ratio, prev, next) = descendList(L, ratio, L.head)
      BY <2>4 DEF findInsertPosition
    <3>2. CASE Len(s) = 0
      BY <2>1, <3>1, <3>2, EmptyDescends
    <3>3. CASE Len(s) # 0
      <4>1. 1 \in 1..Len(s) /\ L.head = s[1]
        BY <1>1, <3>3 DEF Represents, LinkedAs, NodeAt
      <4>2. CASE ratio <= nicr[s[1]]
        <5>1. \A i \in 1..Len(s) : ratio <= nicr[s[i]] =>
                  ValidAnswer(L, ratio, descendList(L, ratio, s[i]))
          BY DescendSucceeds
        <5> QED BY <2>1, <3>1, <4>1, <4>2, <5>1
      <4>3. CASE ~(ratio <= nicr[s[1]])
        <5>1. ratio >= ratioOf(s[1]) /\ s[1] \in Ids /\ s[1] # NoId
          BY <1>1, <4>1, <4>3 DEF ratioOf
        <5>2. descendList(L, ratio, L.head) = Place(NoId, s[1])
          BY <4>1, <5>1 DEF descendList
        <5>3. validInsertPosition(L, ratio, NoId, s[1])
          BY <4>1, <5>1 DEF validInsertPosition
        <5> QED BY <2>1, <3>1, <5>1, <5>2, <5>3 DEF ValidAnswer, Place
      <4> QED BY <4>2, <4>3
    <3> QED BY <3>2, <3>3
  <2> QED BY <2>2, <2>3, <2>4
<1> QED BY <1>3, <1>4

-----------------------------------------------------------------------------
(* The assignments *)

\* Different positions hold different nodes.
LEMMA PositionsDiffer ==
    ASSUME NEW L, NEW s, Represents(L, s), NEW j \in 1..Len(s), NEW k \in Int
    PROVE  s[j] = NodeAt(s, k) <=> j = k
<1>1. \A a, b \in 1..Len(s) : s[a] = s[b] => a = b
  BY DEF Represents, Lists
<1>2. s[j] # NoId
  BY NodesAre
<1> QED BY <1>1, <1>2 DEF NodeAt

\* What _insert writes, whichever of its branches it takes: K is the list L
\* with x between prev and next.
Spliced(K, L, x, prev, next) ==
    /\ K.size = L.size + 1
    /\ K.exists = [L.exists EXCEPT ![x] = TRUE]
    /\ K.head = IF prev = NoId THEN x ELSE L.head
    /\ K.tail = IF next = NoId THEN x ELSE L.tail
    /\ K.nextId \in [Ids -> Ids \cup {NoId}]
    /\ K.prevId \in [Ids -> Ids \cup {NoId}]
    /\ \A y \in Ids : /\ K.nextId[y] = IF y = x THEN next
                                       ELSE IF y = prev THEN x ELSE L.nextId[y]
                      /\ K.prevId[y] = IF y = x THEN prev
                                       ELSE IF y = next THEN x ELSE L.prevId[y]

\* The branches of _insert have this in common.
LEMMA LinkedSplices ==
    ASSUME NEW L, NEW s, Represents(L, s), NEW x \in Ids, ~L.exists[x],
           NEW i \in 1..(Len(s) + 1)
    PROVE  Spliced(linked(L, x, Place(NodeAt(s, i - 1), NodeAt(s, i))), L, x,
                   NodeAt(s, i - 1), NodeAt(s, i))
<1> DEFINE prev == NodeAt(s, i - 1)
           next == NodeAt(s, i)
           K == linked(L, x, Place(prev, next))
           E == [L.exists EXCEPT ![x] = TRUE]
<1> SUFFICES Spliced(K, L, x, prev, next)
  OBVIOUS
<1>1. /\ Len(s) \in Nat
      /\ \A j \in 1..Len(s) : s[j] \in Ids /\ s[j] # NoId /\ L.exists[s[j]]
      /\ \A j \in Int : NodeAt(s, j) # NoId <=> j \in 1..Len(s)
      /\ \A j \in Int : NodeAt(s, j) \in Ids \cup {NoId}
  BY NodesAre
<1>2. /\ L.head = NodeAt(s, 1) /\ L.tail = NodeAt(s, Len(s))
      /\ L.nextId \in [Ids -> Ids \cup {NoId}]
      /\ L.prevId \in [Ids -> Ids \cup {NoId}]
      /\ L.nextId[x] = NoId /\ L.prevId[x] = NoId
  BY DEF Represents, LinkedAs, ListTypes, OthersPointNowhere
<1>3. prev \in Ids \cup {NoId} /\ next \in Ids \cup {NoId} /\ prev # x /\ next # x
  BY <1>1, ListAssumption DEF NodeAt
<1>4. (prev = NoId <=> i = 1) /\ (next = NoId <=> i = Len(s) + 1)
  BY <1>1
<1>5. i = 1 => next = L.head
  BY <1>2
<1>6. i = Len(s) + 1 => prev = L.tail
  BY <1>1, <1>2
<1>7. Place(prev, next).prev = prev /\ Place(prev, next).next = next
  BY DEF Place
<1> HIDE DEF prev, next
<1>8. CASE prev = NoId /\ next = NoId
  <2>1. K = List(x, x, L.size + 1, E, L.nextId, L.prevId)
    BY <1>7, <1>8 DEF linked
  <2>3. /\ K.head = x /\ K.tail = x /\ K.size = L.size + 1 /\ K.exists = E
        /\ K.nextId = L.nextId
        /\ K.prevId = L.prevId
    BY <2>1 DEF List
  <2> HIDE DEF K, E
  <2>4. /\ K.nextId \in [Ids -> Ids \cup {NoId}]
        /\ K.prevId \in [Ids -> Ids \cup {NoId}]
    BY <1>2, <1>3, <2>3
  <2>5. \A y \in Ids : K.nextId[y] = IF y = x THEN next
                                     ELSE IF y = prev THEN x ELSE L.nextId[y]
    BY <1>2, <1>3, <1>8, <2>3, ListAssumption
  <2>6. \A y \in Ids : K.prevId[y] = IF y = x THEN prev
                                     ELSE IF y = next THEN x ELSE L.prevId[y]
    BY <1>2, <1>3, <1>8, <2>3, ListAssumption
  <2> QED BY <1>8, <2>3, <2>4, <2>5, <2>6 DEF Spliced, E
<1>9. CASE prev = NoId /\ next # NoId
  <2>1. K = List(x, L.tail, L.size + 1, E, [L.nextId EXCEPT ![x] = L.head],
                 [L.prevId EXCEPT ![L.head] = x])
    BY <1>7, <1>9 DEF linked
  <2>2. L.head = next /\ next \in Ids
    BY <1>3, <1>4, <1>5, <1>9
  <2>3. /\ K.head = x /\ K.tail = L.tail /\ K.size = L.size + 1 /\ K.exists = E
        /\ K.nextId = [L.nextId EXCEPT ![x] = L.head]
        /\ K.prevId = [L.prevId EXCEPT ![L.head] = x]
    BY <2>1 DEF List
  <2> HIDE DEF K, E
  <2>4. /\ K.nextId \in [Ids -> Ids \cup {NoId}]
        /\ K.prevId \in [Ids -> Ids \cup {NoId}]
    BY <1>2, <1>3, <2>2, <2>3
  <2>5. \A y \in Ids : K.nextId[y] = IF y = x THEN next
                                     ELSE IF y = prev THEN x ELSE L.nextId[y]
    BY <1>2, <1>3, <1>9, <2>2, <2>3, ListAssumption
  <2>6. \A y \in Ids : K.prevId[y] = IF y = x THEN prev
                                     ELSE IF y = next THEN x ELSE L.prevId[y]
    BY <1>2, <1>3, <1>9, <2>2, <2>3, ListAssumption
  <2> QED BY <1>9, <2>3, <2>4, <2>5, <2>6 DEF Spliced, E
<1>10. CASE prev # NoId /\ next = NoId
  <2>1. K = List(L.head, x, L.size + 1, E, [L.nextId EXCEPT ![L.tail] = x],
                 [L.prevId EXCEPT ![x] = L.tail])
    BY <1>7, <1>10 DEF linked
  <2>2. L.tail = prev /\ prev \in Ids
    BY <1>3, <1>4, <1>6, <1>10
  <2>3. /\ K.head = L.head /\ K.tail = x /\ K.size = L.size + 1 /\ K.exists = E
        /\ K.nextId = [L.nextId EXCEPT ![L.tail] = x]
        /\ K.prevId = [L.prevId EXCEPT ![x] = L.tail]
    BY <2>1 DEF List
  <2> HIDE DEF K, E
  <2>4. /\ K.nextId \in [Ids -> Ids \cup {NoId}]
        /\ K.prevId \in [Ids -> Ids \cup {NoId}]
    BY <1>2, <1>3, <2>2, <2>3
  <2>5. \A y \in Ids : K.nextId[y] = IF y = x THEN next
                                     ELSE IF y = prev THEN x ELSE L.nextId[y]
    BY <1>2, <1>3, <1>10, <2>2, <2>3, ListAssumption
  <2>6. \A y \in Ids : K.prevId[y] = IF y = x THEN prev
                                     ELSE IF y = next THEN x ELSE L.prevId[y]
    BY <1>2, <1>3, <1>10, <2>2, <2>3, ListAssumption
  <2> QED BY <1>10, <2>3, <2>4, <2>5, <2>6 DEF Spliced, E
<1>11. CASE prev # NoId /\ next # NoId
  <2>1. K = List(L.head, L.tail, L.size + 1, E, [L.nextId EXCEPT ![x] = next, ![prev] = x],
                 [L.prevId EXCEPT ![x] = prev, ![next] = x])
    BY <1>7, <1>11 DEF linked
  <2>2. prev \in Ids /\ next \in Ids
    BY <1>3, <1>11
  <2>3. /\ K.head = L.head /\ K.tail = L.tail /\ K.size = L.size + 1 /\ K.exists = E
        /\ K.nextId = [L.nextId EXCEPT ![x] = next, ![prev] = x]
        /\ K.prevId = [L.prevId EXCEPT ![x] = prev, ![next] = x]
    BY <2>1 DEF List
  <2> HIDE DEF K, E
  <2>4. /\ K.nextId \in [Ids -> Ids \cup {NoId}]
        /\ K.prevId \in [Ids -> Ids \cup {NoId}]
    BY <1>2, <1>3, <2>2, <2>3
  <2>5. \A y \in Ids : K.nextId[y] = IF y = x THEN next
                                     ELSE IF y = prev THEN x ELSE L.nextId[y]
    BY <1>2, <1>3, <1>11, <2>2, <2>3, ListAssumption
  <2>6. \A y \in Ids : K.prevId[y] = IF y = x THEN prev
                                     ELSE IF y = next THEN x ELSE L.prevId[y]
    BY <1>2, <1>3, <1>11, <2>2, <2>3, ListAssumption
  <2> QED BY <1>11, <2>3, <2>4, <2>5, <2>6 DEF Spliced, E
<1> HIDE DEF K
<1> QED BY <1>8, <1>9, <1>10, <1>11

\* _insert: the links represent the sequence with x at its place.
LEMMA LinkedRepresents ==
    ASSUME NEW L, NEW s, Represents(L, s), NEW x \in Ids, ~L.exists[x],
           NEW i \in 1..(Len(s) + 1)
    PROVE  Represents(linked(L, x, Place(NodeAt(s, i - 1), NodeAt(s, i))),
                      InsertAt(s, i, x))
<1> DEFINE prev == NodeAt(s, i - 1)
           next == NodeAt(s, i)
           K == linked(L, x, Place(prev, next))
           t == InsertAt(s, i, x)
<1>1. /\ Len(s) \in Nat
      /\ \A j \in 1..Len(s) : s[j] \in Ids /\ s[j] # NoId /\ L.exists[s[j]]
      /\ \A j \in Int : NodeAt(s, j) # NoId <=> j \in 1..Len(s)
  BY NodesAre
<1>2. /\ L.size = Len(s) /\ L.head = NodeAt(s, 1) /\ L.tail = NodeAt(s, Len(s))
      /\ \A j \in 1..Len(s) : /\ L.nextId[s[j]] = NodeAt(s, j + 1)
                              /\ L.prevId[s[j]] = NodeAt(s, j - 1)
      /\ L.exists \in [Ids -> BOOLEAN]
      /\ s \in Seq(Ids)
  BY DEF Represents, LinkedAs, ListTypes
<1>3. Spliced(K, L, x, prev, next)
  BY LinkedSplices
<1>4. /\ t \in Seq(Ids) /\ Len(t) = Len(s) + 1
      /\ \A j \in 1..(Len(s) + 1) :
             t[j] = IF j < i THEN s[j] ELSE IF j = i THEN x ELSE s[j - 1]
  BY <1>2, InsertedAt
<1>5. (prev = NoId <=> i = 1) /\ (next = NoId <=> i = Len(s) + 1)
  BY <1>1
<1> HIDE DEF K, t
<1>6. \A j \in Int : NodeAt(t, j) = IF j < i THEN NodeAt(s, j)
                                    ELSE IF j = i THEN x ELSE NodeAt(s, j - 1)
  BY <1>1, <1>4 DEF NodeAt
<1>7. Lists(t, Members(K))
  <2>1. Members(K) = Members(L) \cup {x}
    BY <1>2, <1>3 DEF Members, Spliced
  <2>2. Members(L) \in SUBSET Ids /\ IsFiniteSet(Members(L)) /\ x \notin Members(L)
    BY IdsFinite, FS_Subset DEF Members
  <2>3. OneMore(t, s, i, x)
    BY <1>4 DEF OneMore
  <2>4. Lists(s, Members(L))
    BY DEF Represents
  <2>5. Lists(t, Members(L) \cup {x})
    BY <1>2, <2>2, <2>3, <2>4, ListedInsert
  <2> QED BY <2>1, <2>5
<1>8. K.size = Len(t)
  BY <1>2, <1>3, <1>4 DEF Spliced
<1>9. K.head = NodeAt(t, 1) /\ K.tail = NodeAt(t, Len(t))
  <2>1. K.head = NodeAt(t, 1)
    BY <1>1, <1>2, <1>3, <1>5, <1>6 DEF Spliced
  <2>2. K.tail = NodeAt(t, Len(s) + 1)
    <3>1. Len(s) + 1 \in Int /\ (Len(s) + 1) - 1 = Len(s) /\ ~(Len(s) + 1 < i)
      BY <1>1
    <3>2. NodeAt(t, Len(s) + 1) = IF Len(s) + 1 = i THEN x ELSE NodeAt(s, Len(s))
      BY <1>6, <3>1
    <3> QED BY <1>2, <1>3, <1>5, <3>2 DEF Spliced
  <2> QED BY <1>4, <2>1, <2>2
<1>10. ASSUME NEW j \in 1..Len(t)
       PROVE  /\ K.nextId[t[j]] = NodeAt(t, j + 1)
              /\ K.prevId[t[j]] = NodeAt(t, j - 1)
  <2>1. \A y \in Ids : /\ K.nextId[y] = IF y = x THEN next
                                        ELSE IF y = prev THEN x ELSE L.nextId[y]
                       /\ K.prevId[y] = IF y = x THEN prev
                                        ELSE IF y = next THEN x ELSE L.prevId[y]
    BY <1>3 DEF Spliced
  <2>2. /\ j \in 1..(Len(s) + 1) /\ j \in Int /\ j + 1 \in Int /\ j - 1 \in Int
        /\ i - 1 \in Int /\ i \in Int
    BY <1>1, <1>4
  <2>3. CASE j = i
    <3>1. t[j] = x
      BY <1>4, <2>2, <2>3
    <3>2. NodeAt(t, j + 1) = next /\ NodeAt(t, j - 1) = prev
      BY <1>6, <2>2, <2>3
    <3> QED BY <2>1, <3>1, <3>2
  <2>4. CASE j < i
    <3>1. t[j] = s[j] /\ j \in 1..Len(s) /\ s[j] \in Ids /\ s[j] # x
      BY <1>1, <1>4, <2>2, <2>4
    <3>2. (s[j] = prev <=> j = i - 1) /\ s[j] # next
      <4>1. \A k \in Int : s[j] = NodeAt(s, k) <=> j = k
        BY <3>1, PositionsDiffer
      <4> QED BY <2>2, <2>4, <4>1
    <3> HIDE DEF prev, next
    <3>3. NodeAt(t, j + 1) = IF j = i - 1 THEN x ELSE NodeAt(s, j + 1)
      BY <1>6, <2>2, <2>4
    <3>4. NodeAt(t, j - 1) = NodeAt(s, j - 1)
      BY <1>6, <2>2, <2>4
    <3> QED BY <1>2, <2>1, <3>1, <3>2, <3>3, <3>4
  <2>5. CASE j > i
    <3>1. /\ t[j] = s[j - 1] /\ j - 1 \in 1..Len(s)
          /\ s[j - 1] \in Ids /\ s[j - 1] # x
      <4>1. ~(j < i) /\ j # i /\ j - 1 \in 1..Len(s)
        BY <1>1, <2>2, <2>5
      <4> QED BY <1>1, <1>4, <2>2, <4>1
    <3>2. (s[j - 1] = next <=> j - 1 = i) /\ s[j - 1] # prev
      <4>1. \A k \in Int : s[j - 1] = NodeAt(s, k) <=> j - 1 = k
        BY <3>1, PositionsDiffer
      <4> QED BY <2>2, <2>5, <4>1
    <3> HIDE DEF prev, next
    <3>3. NodeAt(t, j + 1) = NodeAt(s, (j - 1) + 1)
      <4>1. ~(j + 1 < i) /\ j + 1 # i /\ (j + 1) - 1 = (j - 1) + 1
        BY <2>2, <2>5
      <4> QED BY <1>6, <2>2, <4>1
    <3>4. NodeAt(t, j - 1) = IF j - 1 = i THEN x ELSE NodeAt(s, (j - 1) - 1)
      <4>1. ~(j - 1 < i)
        BY <2>2, <2>5
      <4> QED BY <1>6, <2>2, <4>1
    <3>5. /\ L.nextId[s[j - 1]] = NodeAt(s, (j - 1) + 1)
          /\ L.prevId[s[j - 1]] = NodeAt(s, (j - 1) - 1)
      BY <1>2, <3>1
    <3> QED BY <2>1, <3>1, <3>2, <3>3, <3>4, <3>5
  <2> QED BY <2>2, <2>3, <2>4, <2>5
<1>11. LinkedAs(K, t)
  BY <1>8, <1>9, <1>10 DEF LinkedAs
<1>12. ListTypes(K)
  BY <1>2, <1>3 DEF ListTypes, Spliced
<1>13. OthersPointNowhere(K)
  <2> SUFFICES ASSUME NEW y \in Ids, ~K.exists[y]
               PROVE  K.nextId[y] = NoId /\ K.prevId[y] = NoId
    BY DEF OthersPointNowhere
  <2>1. y # x /\ ~L.exists[y]
    BY <1>2, <1>3 DEF Spliced
  <2>2. y # prev /\ y # next
    BY <1>1, <2>1, ListAssumption DEF NodeAt
  <2> HIDE DEF prev, next
  <2>3. K.nextId[y] = L.nextId[y] /\ K.prevId[y] = L.prevId[y]
    BY <1>3, <2>1, <2>2 DEF Spliced
  <2> QED BY <2>1, <2>3 DEF Represents, OthersPointNowhere
<1>14. Represents(K, t)
  BY <1>4, <1>7, <1>11, <1>12, <1>13 DEF Represents
<1> QED BY <1>14 DEF K, t

\* What _remove writes, whichever of its branches it takes: K is the list L
\* without x, which stood between prev and next.
Cut(K, L, x, prev, next) ==
    /\ K.size = L.size - 1
    /\ K.exists = [L.exists EXCEPT ![x] = FALSE]
    /\ K.head = IF prev = NoId THEN next ELSE L.head
    /\ K.tail = IF next = NoId THEN prev ELSE L.tail
    /\ K.nextId \in [Ids -> Ids \cup {NoId}]
    /\ K.prevId \in [Ids -> Ids \cup {NoId}]
    /\ \A y \in Ids : /\ K.nextId[y] = IF y = x THEN NoId
                                       ELSE IF y = prev THEN next ELSE L.nextId[y]
                      /\ K.prevId[y] = IF y = x THEN NoId
                                       ELSE IF y = next THEN prev ELSE L.prevId[y]

\* The branches of _remove have this in common.
LEMMA UnlinkedCuts ==
    ASSUME NEW L, NEW s, Represents(L, s), NEW i \in 1..Len(s)
    PROVE  Cut(unlinked(L, s[i]), L, s[i], NodeAt(s, i - 1), NodeAt(s, i + 1))
<1> DEFINE x == s[i]
           prev == NodeAt(s, i - 1)
           next == NodeAt(s, i + 1)
           K == unlinked(L, x)
           E == [L.exists EXCEPT ![x] = FALSE]
           N == [L.nextId EXCEPT ![x] = NoId]
           P == [L.prevId EXCEPT ![x] = NoId]
<1> SUFFICES Cut(K, L, x, prev, next)
  OBVIOUS
<1>1. /\ Len(s) \in Nat
      /\ \A j \in 1..Len(s) : s[j] \in Ids /\ s[j] # NoId
      /\ \A j \in Int : NodeAt(s, j) # NoId <=> j \in 1..Len(s)
      /\ \A j \in Int : NodeAt(s, j) \in Ids \cup {NoId}
  BY NodesAre
<1>2. /\ L.head = NodeAt(s, 1) /\ L.tail = NodeAt(s, Len(s)) /\ L.size = Len(s)
      /\ L.nextId \in [Ids -> Ids \cup {NoId}]
      /\ L.prevId \in [Ids -> Ids \cup {NoId}]
      /\ L.nextId[x] = next /\ L.prevId[x] = prev
  BY DEF Represents, LinkedAs, ListTypes
<1>3. /\ x \in Ids /\ prev \in Ids \cup {NoId} /\ next \in Ids \cup {NoId}
      /\ i - 1 \in Int /\ i + 1 \in Int
  BY <1>1
<1>4. prev # x /\ next # x
  <2>1. \A k \in Int : s[i] = NodeAt(s, k) <=> i = k
    BY PositionsDiffer
  <2> QED BY <1>1, <1>3, <2>1
<1>5. (prev = NoId <=> i = 1) /\ (next = NoId <=> i = Len(s))
  BY <1>1
<1>6. (x = L.head <=> i = 1) /\ (x = L.tail <=> i = Len(s))
  <2>1. \A k \in Int : s[i] = NodeAt(s, k) <=> i = k
    BY PositionsDiffer
  <2> QED BY <1>1, <1>2, <2>1
<1> HIDE DEF x, prev, next
<1>7. /\ N \in [Ids -> Ids \cup {NoId}] /\ P \in [Ids -> Ids \cup {NoId}]
      /\ \A y \in Ids : /\ N[y] = IF y = x THEN NoId ELSE L.nextId[y]
                        /\ P[y] = IF y = x THEN NoId ELSE L.prevId[y]
  BY <1>2, <1>3
<1>8. K = CASE L.size <= 1 -> List(NoId, NoId, L.size - 1, E, N, P)
            [] L.size > 1 /\ x = L.head ->
                   List(next, L.tail, L.size - 1, E, N, [P EXCEPT ![next] = NoId])
            [] L.size > 1 /\ x # L.head /\ x = L.tail ->
                   List(L.head, prev, L.size - 1, E, [N EXCEPT ![prev] = NoId], P)
            [] OTHER ->
                   List(L.head, L.tail, L.size - 1, E,
                        [N EXCEPT ![prev] = next], [P EXCEPT ![next] = prev])
  BY <1>2 DEF unlinked
<1> HIDE DEF K, N, P
<1>9. CASE L.size <= 1
  <2>1. prev = NoId /\ next = NoId
    BY <1>1, <1>2, <1>5, <1>9
  <2>2. K = List(NoId, NoId, L.size - 1, E, N, P)
    BY <1>1, <1>2, <1>8, <1>9
  <2>3. /\ K.head = NoId /\ K.tail = NoId /\ K.size = L.size - 1 /\ K.exists = E
        /\ K.nextId = N
        /\ K.prevId = P
    BY <2>2 DEF List
  <2> HIDE DEF E
  <2>4. /\ K.nextId \in [Ids -> Ids \cup {NoId}]
        /\ K.prevId \in [Ids -> Ids \cup {NoId}]
    BY <1>3, <1>7, <2>3
  <2>5. \A y \in Ids : K.nextId[y] = IF y = x THEN NoId
                                     ELSE IF y = prev THEN next ELSE L.nextId[y]
    BY <1>4, <1>7, <2>1, <2>3, ListAssumption
  <2>6. \A y \in Ids : K.prevId[y] = IF y = x THEN NoId
                                     ELSE IF y = next THEN prev ELSE L.prevId[y]
    BY <1>4, <1>7, <2>1, <2>3, ListAssumption
  <2>7. /\ K.head = IF prev = NoId THEN next ELSE L.head
        /\ K.tail = IF next = NoId THEN prev ELSE L.tail
    BY <2>1, <2>3
  <2> QED BY <2>3, <2>4, <2>5, <2>6, <2>7 DEF Cut, E
<1>10. CASE L.size > 1 /\ x = L.head
  <2>1. /\ prev = NoId /\ next # NoId /\ next \in Ids
        /\ ~(L.size <= 1)
    BY <1>1, <1>2, <1>3, <1>5, <1>6, <1>10
  <2>2. K = List(next, L.tail, L.size - 1, E, N,
                 [P EXCEPT ![next] = NoId])
    BY <1>8, <1>10, <2>1
  <2>3. /\ K.head = next /\ K.tail = L.tail /\ K.size = L.size - 1 /\ K.exists = E
        /\ K.nextId = N
        /\ K.prevId = [P EXCEPT ![next] = NoId]
    BY <2>2 DEF List
  <2> HIDE DEF E
  <2>4. /\ K.nextId \in [Ids -> Ids \cup {NoId}]
        /\ K.prevId \in [Ids -> Ids \cup {NoId}]
    BY <1>3, <1>7, <2>3
  <2>5. \A y \in Ids : K.nextId[y] = IF y = x THEN NoId
                                     ELSE IF y = prev THEN next ELSE L.nextId[y]
    BY <1>4, <1>7, <2>1, <2>3, ListAssumption
  <2>6. \A y \in Ids : K.prevId[y] = IF y = x THEN NoId
                                     ELSE IF y = next THEN prev ELSE L.prevId[y]
    BY <1>4, <1>7, <2>1, <2>3, ListAssumption
  <2>7. /\ K.head = IF prev = NoId THEN next ELSE L.head
        /\ K.tail = IF next = NoId THEN prev ELSE L.tail
    BY <2>1, <2>3
  <2> QED BY <2>3, <2>4, <2>5, <2>6, <2>7 DEF Cut, E
<1>11. CASE L.size > 1 /\ x # L.head /\ x = L.tail
  <2>1. /\ prev # NoId /\ prev \in Ids /\ next = NoId
        /\ ~(L.size <= 1)
    BY <1>1, <1>2, <1>3, <1>5, <1>6, <1>11
  <2>2. K = List(L.head, prev, L.size - 1, E, [N EXCEPT ![prev] = NoId],
                 P)
    BY <1>8, <1>11, <2>1
  <2>3. /\ K.head = L.head /\ K.tail = prev /\ K.size = L.size - 1 /\ K.exists = E
        /\ K.nextId = [N EXCEPT ![prev] = NoId]
        /\ K.prevId = P
    BY <2>2 DEF List
  <2> HIDE DEF E
  <2>4. /\ K.nextId \in [Ids -> Ids \cup {NoId}]
        /\ K.prevId \in [Ids -> Ids \cup {NoId}]
    BY <1>3, <1>7, <2>3
  <2>5. \A y \in Ids : K.nextId[y] = IF y = x THEN NoId
                                     ELSE IF y = prev THEN next ELSE L.nextId[y]
    BY <1>4, <1>7, <2>1, <2>3, ListAssumption
  <2>6. \A y \in Ids : K.prevId[y] = IF y = x THEN NoId
                                     ELSE IF y = next THEN prev ELSE L.prevId[y]
    BY <1>4, <1>7, <2>1, <2>3, ListAssumption
  <2>7. /\ K.head = IF prev = NoId THEN next ELSE L.head
        /\ K.tail = IF next = NoId THEN prev ELSE L.tail
    BY <2>1, <2>3
  <2> QED BY <2>3, <2>4, <2>5, <2>6, <2>7 DEF Cut, E
<1>12. CASE L.size > 1 /\ x # L.head /\ x # L.tail
  <2>1. /\ prev # NoId /\ prev \in Ids /\ next # NoId /\ next \in Ids
        /\ ~(L.size <= 1)
    BY <1>1, <1>2, <1>3, <1>5, <1>6, <1>12
  <2>2. K = List(L.head, L.tail, L.size - 1, E, [N EXCEPT ![prev] = next],
                 [P EXCEPT ![next] = prev])
    BY <1>8, <1>12, <2>1
  <2>3. /\ K.head = L.head /\ K.tail = L.tail /\ K.size = L.size - 1 /\ K.exists = E
        /\ K.nextId = [N EXCEPT ![prev] = next]
        /\ K.prevId = [P EXCEPT ![next] = prev]
    BY <2>2 DEF List
  <2> HIDE DEF E
  <2>4. /\ K.nextId \in [Ids -> Ids \cup {NoId}]
        /\ K.prevId \in [Ids -> Ids \cup {NoId}]
    BY <1>3, <1>7, <2>3
  <2>5. \A y \in Ids : K.nextId[y] = IF y = x THEN NoId
                                     ELSE IF y = prev THEN next ELSE L.nextId[y]
    BY <1>4, <1>7, <2>1, <2>3, ListAssumption
  <2>6. \A y \in Ids : K.prevId[y] = IF y = x THEN NoId
                                     ELSE IF y = next THEN prev ELSE L.prevId[y]
    BY <1>4, <1>7, <2>1, <2>3, ListAssumption
  <2>7. /\ K.head = IF prev = NoId THEN next ELSE L.head
        /\ K.tail = IF next = NoId THEN prev ELSE L.tail
    BY <2>1, <2>3
  <2> QED BY <2>3, <2>4, <2>5, <2>6, <2>7 DEF Cut, E
<1>13. L.size <= 1 \/ L.size > 1
  BY <1>1, <1>2
<1> QED BY <1>9, <1>10, <1>11, <1>12, <1>13

\* _remove: the links represent the sequence without the node.
LEMMA UnlinkedRepresents ==
    ASSUME NEW L, NEW s, Represents(L, s), NEW i \in 1..Len(s)
    PROVE  Represents(unlinked(L, s[i]), RemoveAt(s, i))
<1> DEFINE x == s[i]
           prev == NodeAt(s, i - 1)
           next == NodeAt(s, i + 1)
           K == unlinked(L, x)
           t == RemoveAt(s, i)
<1> SUFFICES Represents(K, t)
  OBVIOUS
<1>1. /\ Len(s) \in Nat
      /\ \A j \in 1..Len(s) : s[j] \in Ids /\ s[j] # NoId /\ L.exists[s[j]]
      /\ \A j \in Int : NodeAt(s, j) # NoId <=> j \in 1..Len(s)
  BY NodesAre
<1>2. /\ L.size = Len(s) /\ L.head = NodeAt(s, 1) /\ L.tail = NodeAt(s, Len(s))
      /\ \A j \in 1..Len(s) : /\ L.nextId[s[j]] = NodeAt(s, j + 1)
                              /\ L.prevId[s[j]] = NodeAt(s, j - 1)
      /\ L.exists \in [Ids -> BOOLEAN]
      /\ s \in Seq(Ids)
  BY DEF Represents, LinkedAs, ListTypes
<1>3. Cut(K, L, x, prev, next)
  BY UnlinkedCuts
<1>4. /\ t \in Seq(Ids) /\ Len(t) = Len(s) - 1
      /\ \A j \in 1..(Len(s) - 1) : t[j] = IF j < i THEN s[j] ELSE s[j + 1]
  BY <1>2, RemovedAt
<1>5. (prev = NoId <=> i = 1) /\ (next = NoId <=> i = Len(s)) /\ x \in Ids
  BY <1>1
<1>6. \A j, k \in 1..Len(s) : s[j] = s[k] => j = k
  BY DEF Represents, Lists
<1> HIDE DEF K, t
<1>7. \A j \in Int : NodeAt(t, j) = IF j < i THEN NodeAt(s, j) ELSE NodeAt(s, j + 1)
  BY <1>1, <1>4 DEF NodeAt
<1>8. Lists(t, Members(K))
  <2>1. Members(K) = Members(L) \ {x}
    BY <1>2, <1>3 DEF Members, Cut
  <2>2. Members(L) \in SUBSET Ids /\ IsFiniteSet(Members(L))
    BY IdsFinite, FS_Subset DEF Members
  <2>3. OneLess(t, s, i)
    BY <1>4 DEF OneLess
  <2>4. Lists(s, Members(L))
    BY DEF Represents
  <2>5. Lists(t, Members(L) \ {x})
    BY <1>2, <2>2, <2>3, <2>4, ListedRemove
  <2> QED BY <2>1, <2>5
<1>9. K.size = Len(t)
  BY <1>2, <1>3, <1>4 DEF Cut
<1>10. K.head = NodeAt(t, 1) /\ K.tail = NodeAt(t, Len(t))
  <2>1. K.head = NodeAt(t, 1)
    <3>1. NodeAt(t, 1) = IF i = 1 THEN NodeAt(s, 1 + 1) ELSE NodeAt(s, 1)
      BY <1>1, <1>7
    <3> QED BY <1>2, <1>3, <1>5, <3>1 DEF Cut
  <2>2. K.tail = NodeAt(t, Len(s) - 1)
    <3>1. Len(s) - 1 \in Int /\ (Len(s) - 1) + 1 = Len(s)
          /\ (Len(s) - 1 < i <=> i = Len(s))
      BY <1>1
    <3>2. NodeAt(t, Len(s) - 1)
              = IF i = Len(s) THEN NodeAt(s, Len(s) - 1) ELSE NodeAt(s, Len(s))
      BY <1>7, <3>1
    <3> QED BY <1>2, <1>3, <1>5, <3>2 DEF Cut
  <2> QED BY <1>4, <2>1, <2>2
<1>11. \A y \in Ids : /\ K.nextId[y] = IF y = x THEN NoId
                                        ELSE IF y = prev THEN next ELSE L.nextId[y]
                      /\ K.prevId[y] = IF y = x THEN NoId
                                        ELSE IF y = next THEN prev ELSE L.prevId[y]
  BY <1>3 DEF Cut
<1>12. ASSUME NEW j \in 1..Len(t)
       PROVE  /\ K.nextId[t[j]] = NodeAt(t, j + 1)
              /\ K.prevId[t[j]] = NodeAt(t, j - 1)
  <2>1. /\ j \in 1..(Len(s) - 1) /\ j \in Int /\ j + 1 \in Int /\ j - 1 \in Int
        /\ i - 1 \in Int /\ i + 1 \in Int /\ i \in Int
    BY <1>1, <1>4
  <2>2. CASE j < i
    <3>1. t[j] = s[j] /\ j \in 1..Len(s) /\ s[j] \in Ids
      BY <1>1, <1>4, <2>1, <2>2
    <3>2. s[j] # x
      BY <1>6, <2>1, <2>2, <3>1
    <3>3. (s[j] = prev <=> j = i - 1) /\ s[j] # next
      <4>1. \A k \in Int : s[j] = NodeAt(s, k) <=> j = k
        BY <3>1, PositionsDiffer
      <4> QED BY <2>1, <2>2, <4>1
    <3>4. NodeAt(t, j + 1) = IF j = i - 1 THEN next ELSE NodeAt(s, j + 1)
      <4>1. /\ (j + 1 < i <=> j # i - 1)
            /\ (j = i - 1 => (j + 1) + 1 = i + 1)
        BY <2>1, <2>2
      <4> QED BY <1>7, <2>1, <4>1
    <3>5. NodeAt(t, j - 1) = NodeAt(s, j - 1)
      BY <1>7, <2>1, <2>2
    <3> HIDE DEF x, prev, next
    <3> QED BY <1>2, <1>11, <3>1, <3>2, <3>3, <3>4, <3>5
  <2>3. CASE ~(j < i)
    <3>1. /\ t[j] = s[j + 1] /\ j + 1 \in 1..Len(s) /\ s[j + 1] \in Ids
      <4>1. j + 1 \in 1..Len(s)
        BY <1>1, <2>1
      <4> QED BY <1>1, <1>4, <2>1, <2>3, <4>1
    <3>2. s[j + 1] # x
      BY <1>6, <2>1, <2>3, <3>1
    <3>3. (s[j + 1] = next <=> j = i) /\ s[j + 1] # prev
      <4>1. \A k \in Int : s[j + 1] = NodeAt(s, k) <=> j + 1 = k
        BY <3>1, PositionsDiffer
      <4> QED BY <2>1, <2>3, <4>1
    <3>4. NodeAt(t, j + 1) = NodeAt(s, (j + 1) + 1)
      BY <1>7, <2>1, <2>3
    <3>5. NodeAt(t, j - 1) = IF j = i THEN prev ELSE NodeAt(s, (j + 1) - 1)
      <4>1. /\ (j - 1 < i <=> j = i)
            /\ (j # i => (j - 1) + 1 = (j + 1) - 1)
        BY <2>1, <2>3
      <4> QED BY <1>7, <2>1, <4>1
    <3>6. /\ L.nextId[s[j + 1]] = NodeAt(s, (j + 1) + 1)
          /\ L.prevId[s[j + 1]] = NodeAt(s, (j + 1) - 1)
      BY <1>2, <3>1
    <3> HIDE DEF x, prev, next
    <3> QED BY <1>11, <3>1, <3>2, <3>3, <3>4, <3>5, <3>6
  <2> QED BY <2>2, <2>3
<1>13. LinkedAs(K, t)
  BY <1>9, <1>10, <1>12 DEF LinkedAs
<1>14. ListTypes(K)
  BY <1>2, <1>3 DEF ListTypes, Cut
<1>15. OthersPointNowhere(K)
  <2> SUFFICES ASSUME NEW y \in Ids, ~K.exists[y]
               PROVE  K.nextId[y] = NoId /\ K.prevId[y] = NoId
    BY DEF OthersPointNowhere
  <2>1. CASE y = x
    <3> HIDE DEF x, prev, next
    <3> QED BY <1>11, <2>1
  <2>2. CASE y # x
    <3>1. ~L.exists[y]
      BY <1>2, <1>3, <1>5, <2>2 DEF Cut
    <3>2. y # prev /\ y # next
      BY <1>1, <3>1, ListAssumption DEF NodeAt
    <3>3. L.nextId[y] = NoId /\ L.prevId[y] = NoId
      BY <3>1 DEF Represents, OthersPointNowhere
    <3> HIDE DEF x, prev, next
    <3> QED BY <1>11, <2>2, <3>2, <3>3
  <2> QED BY <2>1, <2>2
<1> QED BY <1>4, <1>8, <1>13, <1>14, <1>15 DEF Represents

-----------------------------------------------------------------------------
(* The calls *)

\* What a call stores is the list that the next call finds.
LEMMA StoredList ==
    ASSUME NEW K, NEW s, store(K), Represents(K, s)
    PROVE  Represents(data', s) /\ listed' = s
<1>1. /\ data'.head = K.head /\ data'.tail = K.tail /\ data'.size = K.size
      /\ data'.exists = K.exists /\ data'.nextId = K.nextId
      /\ data'.prevId = K.prevId
  BY DEF data, List, store
<1>2. Represents(data', s)
  BY <1>1 DEF Represents, ListTypes, Members, LinkedAs, OthersPointNowhere
<1>3. troves(data'.head, data'.nextId) = s
  BY <1>2, ListedIs
<1> QED BY <1>2, <1>3 DEF listed, data, List

\* The members are the owners whose node exists, as many as `size' says.
LEMMA ListedFacts ==
    ASSUME LinksInv
    PROVE  /\ listed \in Seq(Ids)
           /\ Len(listed) \in Nat
           /\ size = Len(listed)
           /\ ToSet(listed) = {x \in Ids : exists[x]}
           /\ \A i \in 1..Len(listed) : listed[i] \in Ids /\ exists[listed[i]]
           /\ \A x \in Ids : exists[x] <=> \E i \in 1..Len(listed) : listed[i] = x
           /\ \A i, j \in 1..Len(listed) : listed[i] = listed[j] => i = j
<1>1. Represents(data, listed)
  BY DEF LinksInv
<1>2. /\ data.head = head /\ data.tail = tail /\ data.size = size
      /\ data.exists = exists /\ data.nextId = nextId /\ data.prevId = prevId
  BY DEF data, List
<1>3. listed \in Seq(Ids) /\ Lists(listed, Members(data)) /\ size = Len(listed)
  BY <1>1, <1>2 DEF Represents, LinkedAs
<1>4. Members(data) = {x \in Ids : exists[x]}
  BY <1>2 DEF Members
<1>5. /\ \A i \in 1..Len(listed) : listed[i] \in Ids /\ exists[listed[i]]
      /\ \A x \in Ids : exists[x] => \E i \in 1..Len(listed) : listed[i] = x
      /\ \A i, j \in 1..Len(listed) : listed[i] = listed[j] => i = j
  BY <1>3, <1>4 DEF Lists
<1>6. ToSet(listed) = {x \in Ids : exists[x]}
  <2>1. DOMAIN listed = 1..Len(listed)
    BY <1>3
  <2> QED BY <1>5, <2>1 DEF ToSet
<1> QED BY <1>3, <1>5, <1>6

\* An insertion into L, the storage or what _remove has left of it
LEMMA InsertionPlace ==
    ASSUME NEW L, NEW s, Represents(L, s), nicr \in [Ids -> Nat],
           NEW x \in Ids, ~L.exists[x], NEW ratio \in Ratios,
           NEW prev \in Ids \cup {NoId}, NEW next \in Ids \cup {NoId},
           store(linked(L, x, insertPlace(L, ratio, prev, next)))
    PROVE  \E i \in 1..(Len(s) + 1) :
               /\ TL!ValidPosition(s, ratio, i)
               /\ Represents(data', InsertAt(s, i, x))
               /\ listed' = InsertAt(s, i, x)
<1> DEFINE at == insertPlace(L, ratio, prev, next)
<1>1. ratio \in Nat /\ ratio < MaxRatio
  BY ListAssumption
<1>2. ValidAnswer(L, ratio, at)
  BY <1>1, PlaceFound
<1>3. at = Place(at.prev, at.next)
  BY DEF insertPlace, findInsertPosition, descendList, ascendList, Place
<1> HIDE DEF at
<1>4. PICK i \in 1..(Len(s) + 1) : /\ at.prev = NodeAt(s, i - 1)
                                   /\ at.next = NodeAt(s, i)
                                   /\ TL!ValidPosition(s, ratio, i)
  <2>1. /\ at.prev \in Ids \cup {NoId} /\ at.next \in Ids \cup {NoId}
        /\ validInsertPosition(L, ratio, at.prev, at.next)
    BY <1>2 DEF ValidAnswer
  <2>2. ratio \in Nat
    BY <1>1
  <2>3. Neighbours(s, ratio, at.prev, at.next)
    BY <2>1, <2>2, ValidPlace
  <2> QED BY <2>3 DEF Neighbours
<1>5. at = Place(NodeAt(s, i - 1), NodeAt(s, i))
  BY <1>3, <1>4
<1>6. Represents(linked(L, x, at), InsertAt(s, i, x))
  BY <1>5, LinkedRepresents
<1>7. store(linked(L, x, at))
  BY DEF at
<1>8. Represents(data', InsertAt(s, i, x)) /\ listed' = InsertAt(s, i, x)
  BY <1>6, <1>7, StoredList
<1> QED BY <1>4, <1>8

\* insert puts the node at a valid position of the sequence.
LEMMA InsertLinks ==
    ASSUME LinksInv, NEW x \in Ids, NEW ratio \in Ratios,
           NEW prev \in Ids \cup {NoId}, NEW next \in Ids \cup {NoId},
           insert(x, ratio, prev, next)
    PROVE  /\ LinksInv'
           /\ x \notin ToSet(listed)
           /\ \E i \in 1..(Len(listed) + 1) : /\ TL!ValidPosition(listed, ratio, i)
                                              /\ listed' = InsertAt(listed, i, x)
<1>1. Represents(data, listed) /\ size <= MaxSize /\ nicr \in [Ids -> Nat]
  BY DEF LinksInv
<1>2. /\ size # MaxSize /\ ~data.exists[x] /\ ~exists[x]
      /\ store(linked(data, x, insertPlace(data, ratio, prev, next)))
      /\ nicr' = [nicr EXCEPT ![x] = ratio]
  BY ListAssumption DEF insert, contains, data, List
<1>3. PICK i \in 1..(Len(listed) + 1) :
          /\ TL!ValidPosition(listed, ratio, i)
          /\ Represents(data', InsertAt(listed, i, x))
          /\ listed' = InsertAt(listed, i, x)
  BY <1>1, <1>2, InsertionPlace
<1>4. /\ size = Len(listed) /\ Len(listed) \in Nat /\ listed \in Seq(Ids)
      /\ ToSet(listed) = {y \in Ids : exists[y]}
  BY ListedFacts
<1>5. size' <= MaxSize
  <2>1. Len(InsertAt(listed, i, x)) = Len(listed) + 1
    BY <1>4, InsertedAt
  <2>2. size' = Len(InsertAt(listed, i, x))
    BY <1>3 DEF Represents, LinkedAs, data, List
  <2> QED BY <1>1, <1>2, <1>4, <2>1, <2>2, ListAssumption
<1>6. nicr' \in [Ids -> Nat]
  BY <1>1, <1>2, ListAssumption
<1> QED BY <1>2, <1>3, <1>4, <1>5, <1>6 DEF LinksInv

\* remove closes the gap.
LEMMA RemoveLinks ==
    ASSUME LinksInv, NEW x \in Ids, remove(x)
    PROVE  /\ LinksInv'
           /\ \E i \in 1..Len(listed) : listed[i] = x /\ listed' = RemoveAt(listed, i)
<1>1. Represents(data, listed) /\ size <= MaxSize /\ nicr \in [Ids -> Nat]
  BY DEF LinksInv
<1>2. exists[x] /\ store(unlinked(data, x)) /\ nicr' = [nicr EXCEPT ![x] = MaxRatio]
  BY DEF remove, contains, data, List
<1>3. PICK i \in 1..Len(listed) : listed[i] = x
  BY <1>2, ListedFacts
<1>4. Represents(unlinked(data, x), RemoveAt(listed, i))
  BY <1>1, <1>3, UnlinkedRepresents
<1>5. Represents(data', RemoveAt(listed, i)) /\ listed' = RemoveAt(listed, i)
  BY <1>2, <1>4, StoredList
<1>6. size = Len(listed) /\ Len(listed) \in Nat /\ listed \in Seq(Ids)
  BY ListedFacts
<1>7. size' <= MaxSize
  <2>1. Len(RemoveAt(listed, i)) = Len(listed) - 1
    BY <1>6, RemovedAt
  <2>2. size' = Len(RemoveAt(listed, i))
    BY <1>5 DEF Represents, LinkedAs, data, List
  <2> QED BY <1>1, <1>6, <2>1, <2>2, ListAssumption
<1>8. nicr' \in [Ids -> Nat]
  BY <1>1, <1>2, ListAssumption
<1> QED BY <1>3, <1>5, <1>7, <1>8 DEF LinksInv

\* reInsert closes the gap and puts the node at a valid position of the rest.
LEMMA ReInsertLinks ==
    ASSUME LinksInv, NEW x \in Ids, NEW ratio \in Ratios,
           NEW prev \in Ids \cup {NoId}, NEW next \in Ids \cup {NoId},
           reInsert(x, ratio, prev, next)
    PROVE  /\ LinksInv'
           /\ \E k \in 1..Len(listed) :
                  /\ listed[k] = x
                  /\ \E i \in 1..Len(listed) :
                         /\ TL!ValidPosition(RemoveAt(listed, k), ratio, i)
                         /\ listed' = InsertAt(RemoveAt(listed, k), i, x)
<1> DEFINE L == unlinked(data, x)
<1>1. Represents(data, listed) /\ size <= MaxSize /\ nicr \in [Ids -> Nat]
  BY DEF LinksInv
<1>2. /\ exists[x]
      /\ store(linked(L, x, insertPlace(L, ratio, prev, next)))
      /\ nicr' = [nicr EXCEPT ![x] = ratio]
  BY DEF reInsert, contains, data, List
<1>3. PICK k \in 1..Len(listed) : listed[k] = x
  BY <1>2, ListedFacts
<1> DEFINE rest == RemoveAt(listed, k)
<1>4. Represents(L, rest)
  BY <1>1, <1>3, UnlinkedRepresents
<1>5. ~L.exists[x]
  <2>1. Cut(L, data, x, NodeAt(listed, k - 1), NodeAt(listed, k + 1))
    BY <1>1, <1>3, UnlinkedCuts
  <2>2. data.exists \in [Ids -> BOOLEAN]
    BY <1>1 DEF Represents, ListTypes
  <2> HIDE DEF L
  <2> QED BY <2>1, <2>2 DEF Cut
<1>6. size = Len(listed) /\ Len(listed) \in Nat /\ listed \in Seq(Ids)
  BY ListedFacts
<1>7. rest \in Seq(Ids) /\ Len(rest) = Len(listed) - 1
  BY <1>6, RemovedAt
<1> HIDE DEF L, rest
<1>8. PICK i \in 1..(Len(rest) + 1) :
          /\ TL!ValidPosition(rest, ratio, i)
          /\ Represents(data', InsertAt(rest, i, x))
          /\ listed' = InsertAt(rest, i, x)
  BY <1>1, <1>2, <1>4, <1>5, InsertionPlace
<1>9. size' <= MaxSize
  <2>1. Len(InsertAt(rest, i, x)) = Len(rest) + 1
    BY <1>7, InsertedAt
  <2>2. size' = Len(InsertAt(rest, i, x))
    BY <1>8 DEF Represents, LinkedAs, data, List
  <2> QED BY <1>1, <1>6, <1>7, <2>1, <2>2, ListAssumption
<1>10. nicr' \in [Ids -> Nat]
  BY <1>1, <1>2, ListAssumption
<1>11. LinksInv'
  BY <1>8, <1>9, <1>10 DEF LinksInv
<1>12. i \in 1..Len(listed)
  BY <1>6, <1>7
<1> QED BY <1>3, <1>8, <1>11, <1>12 DEF rest

\* A redistribution leaves the links alone.
LEMMA RedistributeLinks ==
    ASSUME LinksInv, redistribute
    PROVE  LinksInv' /\ listed' = listed
<1>1. PICK r \in [{x \in Ids : exists[x]} -> Ratios \ {0}] :
          nicr' = [x \in Ids |-> IF exists[x] THEN r[x] ELSE nicr[x]]
  BY DEF redistribute
<1>2. nicr' \in [Ids -> Nat]
  BY <1>1, ListAssumption DEF LinksInv
<1>3. UNCHANGED dataVars
  BY DEF redistribute
<1>4. data' = data /\ listed' = listed /\ size' = size
  BY <1>3 DEF dataVars, data, listed, troves
<1> QED BY <1>2, <1>4 DEF LinksInv

\* An empty list, linked to nothing.
LEMMA InitLinks == Init => LinksInv
<1> SUFFICES ASSUME Init PROVE LinksInv
  OBVIOUS
<1>1. Len(<<>>) = 0 /\ <<>> \in Seq(Ids) /\ \A i \in Int : i \notin 1..Len(<<>>)
  OBVIOUS
<1>2. Members(data) = {}
  BY DEF Init, Members, data, List
<1>3. Lists(<<>>, Members(data))
  <2>1. Cardinality(Members(data)) = 0
    BY <1>2, FS_EmptySet
  <2> QED BY <1>1, <1>2, <2>1 DEF Lists
<1>4. LinkedAs(data, <<>>)
  BY <1>1 DEF LinkedAs, NodeAt, Init, data, List
<1>5. ListTypes(data) /\ OthersPointNowhere(data)
  BY DEF ListTypes, OthersPointNowhere, Init, data, List
<1>6. Represents(data, <<>>)
  BY <1>1, <1>3, <1>4, <1>5 DEF Represents
<1>7. listed = <<>>
  BY <1>6, ListedIs DEF listed, data, List
<1>8. size <= MaxSize /\ nicr \in [Ids -> Nat]
  BY ListAssumption DEF Init
<1> QED BY <1>6, <1>7, <1>8 DEF LinksInv

\* Every step of the list and of the redistributions keeps the links.
LEMMA NextLinks == LinksInv /\ [Next]_vars => LinksInv'
<1> SUFFICES ASSUME LinksInv, [Next]_vars PROVE LinksInv'
  OBVIOUS
<1>1. CASE \E x \in Ids, ratio \in Ratios, prev, next \in Ids \cup {NoId} :
               insert(x, ratio, prev, next) \/ reInsert(x, ratio, prev, next)
  BY <1>1, InsertLinks, ReInsertLinks
<1>2. CASE \E x \in Ids : remove(x)
  BY <1>2, RemoveLinks
<1>3. CASE redistribute
  BY <1>3, RedistributeLinks
<1>4. CASE UNCHANGED vars
  BY <1>4 DEF vars, dataVars, LinksInv, data, listed
<1> QED BY <1>1, <1>2, <1>3, <1>4 DEF Next

-----------------------------------------------------------------------------
(* The order *)

SortedBy(s, r) == \A i \in 1..(Len(s) - 1) : r[s[i]] >= r[s[i + 1]]

\* Taking a node out of a sorted sequence leaves it sorted.
LEMMA RemovedSorted ==
    ASSUME NEW s \in Seq(Ids), NEW r \in [Ids -> Nat], SortedBy(s, r),
           NEW i \in 1..Len(s)
    PROVE  SortedBy(RemoveAt(s, i), r)
<1> DEFINE t == RemoveAt(s, i)
<1>1. /\ Len(s) \in Nat /\ Len(t) = Len(s) - 1
      /\ \A j \in 1..(Len(s) - 1) : t[j] = IF j < i THEN s[j] ELSE s[j + 1]
  BY RemovedAt
<1> HIDE DEF t
<1>2. \A j \in 1..Len(s) : r[s[j]] \in Nat
  <2>1. \A j \in 1..Len(s) : s[j] \in Ids
    OBVIOUS
  <2> QED BY <2>1
<1>3. ASSUME NEW j \in 1..(Len(t) - 1) PROVE r[t[j]] >= r[t[j + 1]]
  <2>1. /\ j \in 1..(Len(s) - 1) /\ j + 1 \in 1..(Len(s) - 1)
        /\ j \in 1..Len(s) /\ j + 1 \in 1..Len(s) /\ (j + 1) + 1 \in 1..Len(s)
    BY <1>1
  <2>2. r[s[j]] >= r[s[j + 1]] /\ r[s[j + 1]] >= r[s[(j + 1) + 1]]
    BY <2>1 DEF SortedBy
  <2>3. r[s[j]] >= r[s[(j + 1) + 1]]
    BY <1>2, <2>1, <2>2
  <2>4. t[j] = s[j] \/ t[j] = s[j + 1]
    BY <1>1, <2>1
  <2>5. t[j + 1] = s[j + 1] \/ t[j + 1] = s[(j + 1) + 1]
    BY <1>1, <2>1
  <2>6. j + 1 < i => j < i
    BY <2>1
  <2>7. t[j] = s[j + 1] => t[j + 1] = s[(j + 1) + 1] \/ t[j] = s[j]
    BY <1>1, <2>1, <2>6
  <2> QED BY <2>2, <2>3, <2>4, <2>5, <2>7
<1> QED BY <1>1, <1>3 DEF SortedBy, t

\* A node put at a valid position of a sorted sequence leaves it sorted,
\* by the ratios that include its own.
LEMMA InsertedSorted ==
    ASSUME NEW s \in Seq(Ids), nicr \in [Ids -> Nat], SortedBy(s, nicr),
           NEW x \in Ids, \A j \in 1..Len(s) : s[j] # x, NEW ratio \in Nat,
           NEW i \in 1..(Len(s) + 1), TL!ValidPosition(s, ratio, i)
    PROVE  SortedBy(InsertAt(s, i, x), [nicr EXCEPT ![x] = ratio])
<1> DEFINE t == InsertAt(s, i, x)
           r == [nicr EXCEPT ![x] = ratio]
<1>1. /\ Len(s) \in Nat /\ Len(t) = Len(s) + 1
      /\ \A j \in 1..(Len(s) + 1) :
             t[j] = IF j < i THEN s[j] ELSE IF j = i THEN x ELSE s[j - 1]
  BY InsertedAt
<1>2. /\ r[x] = ratio
      /\ \A j \in 1..Len(s) : r[s[j]] = nicr[s[j]] /\ nicr[s[j]] \in Nat
  <2>1. \A j \in 1..Len(s) : s[j] \in Ids
    OBVIOUS
  <2> QED BY <2>1
<1> HIDE DEF t, r
<1>3. ASSUME NEW j \in 1..(Len(t) - 1) PROVE r[t[j]] >= r[t[j + 1]]
  <2>1. j \in 1..Len(s) /\ j \in 1..(Len(s) + 1) /\ j + 1 \in 1..(Len(s) + 1)
    BY <1>1
  <2>2. CASE j + 1 < i
    <3>1. t[j] = s[j] /\ t[j + 1] = s[j + 1] /\ j \in 1..(Len(s) - 1)
          /\ j + 1 \in 1..Len(s)
      BY <1>1, <2>1, <2>2
    <3>2. nicr[s[j]] >= nicr[s[j + 1]]
      BY <3>1 DEF SortedBy
    <3> QED BY <1>2, <2>1, <3>1, <3>2
  <2>3. CASE j + 1 = i
    <3>1. t[j] = s[i - 1] /\ t[j + 1] = x /\ i # 1 /\ i - 1 = j
      BY <1>1, <2>1, <2>3
    <3>2. nicr[s[i - 1]] >= ratio
      BY <3>1 DEF TL!ValidPosition
    <3> QED BY <1>2, <2>1, <3>1, <3>2
  <2>4. CASE j = i
    <3>1. t[j] = x /\ t[j + 1] = s[i] /\ i # Len(s) + 1
      <4>1. ~(j + 1 < i) /\ j + 1 # i /\ (j + 1) - 1 = i
        BY <2>1, <2>4
      <4> QED BY <1>1, <2>1, <2>4, <4>1
    <3>2. ratio >= nicr[s[i]]
      BY <3>1 DEF TL!ValidPosition
    <3> QED BY <1>2, <2>1, <2>4, <3>1, <3>2
  <2>5. CASE j > i
    <3>1. t[j] = s[j - 1] /\ t[j + 1] = s[j]
      <4>1. /\ ~(j < i) /\ j # i /\ ~(j + 1 < i) /\ j + 1 # i /\ (j + 1) - 1 = j
        BY <2>1, <2>5
      <4> QED BY <1>1, <2>1, <4>1
    <3>2. j - 1 \in 1..(Len(s) - 1) /\ (j - 1) + 1 = j /\ j - 1 \in 1..Len(s)
      BY <2>1, <2>5
    <3>3. nicr[s[j - 1]] >= nicr[s[j]]
      BY <3>2 DEF SortedBy
    <3> QED BY <1>2, <2>1, <3>1, <3>2, <3>3
  <2> QED BY <2>1, <2>2, <2>3, <2>4, <2>5
<1>4. SortedBy(t, r)
  BY <1>1, <1>3 DEF SortedBy
<1> QED BY <1>4 DEF t, r

\* The ratio of a node that is not in the sequence does not matter.
LEMMA OutsideDoesNotMatter ==
    ASSUME NEW s \in Seq(Ids), NEW r \in [Ids -> Nat], SortedBy(s, r), NEW x \in Ids,
           \A j \in 1..Len(s) : s[j] # x, NEW ratio
    PROVE  SortedBy(s, [r EXCEPT ![x] = ratio])
<1> DEFINE q == [r EXCEPT ![x] = ratio]
<1>1. \A j \in 1..Len(s) : q[s[j]] = r[s[j]]
  OBVIOUS
<1> HIDE DEF q
<1>2. \A j \in 1..(Len(s) - 1) : j \in 1..Len(s) /\ j + 1 \in 1..Len(s)
  OBVIOUS
<1>3. SortedBy(s, q)
  BY <1>1, <1>2 DEF SortedBy
<1> QED BY <1>3 DEF q

NoRepetition(s) == \A j, k \in 1..Len(s) : s[j] = s[k] => j = k

\* A node that occurs once does not occur in the sequence without it.
LEMMA RemovedIsGone ==
    ASSUME NEW s \in Seq(Ids), NoRepetition(s), NEW i \in 1..Len(s)
    PROVE  \A j \in 1..Len(RemoveAt(s, i)) : RemoveAt(s, i)[j] # s[i]
<1> DEFINE t == RemoveAt(s, i)
<1>1. /\ Len(s) \in Nat /\ Len(t) = Len(s) - 1
      /\ \A j \in 1..(Len(s) - 1) : t[j] = IF j < i THEN s[j] ELSE s[j + 1]
  BY RemovedAt
<1> HIDE DEF t
<1>2. ASSUME NEW j \in 1..Len(t) PROVE t[j] # s[i]
  <2>1. j \in 1..(Len(s) - 1) /\ j \in 1..Len(s) /\ j + 1 \in 1..Len(s)
    BY <1>1
  <2>2. j < i => s[j] # s[i]
    BY <2>1 DEF NoRepetition
  <2>3. ~(j < i) => s[j + 1] # s[i]
    <3>1. ~(j < i) => j + 1 # i
      BY <2>1
    <3> QED BY <2>1, <3>1 DEF NoRepetition
  <2> QED BY <1>1, <2>1, <2>2, <2>3
<1> QED BY <1>2 DEF t

\* A call of the list's owner leaves a sorted list sorted.
LEMMA NextKeepsOrder ==
    LinksInv /\ [Next]_vars => [~redistribute => (Sorted => Sorted')]_vars
<1> SUFFICES ASSUME LinksInv, [Next]_vars, ~redistribute, SortedBy(listed, nicr)
             PROVE  SortedBy(listed', nicr') \/ UNCHANGED vars
  BY DEF Sorted, SortedBy
<1>1. nicr \in [Ids -> Nat]
  BY DEF LinksInv
<1>2. /\ listed \in Seq(Ids) /\ Len(listed) \in Nat
      /\ ToSet(listed) = {x \in Ids : exists[x]}
      /\ \A i \in 1..Len(listed) : listed[i] \in Ids /\ exists[listed[i]]
      /\ NoRepetition(listed)
  BY ListedFacts DEF NoRepetition
<1>3. ASSUME NEW x \in Ids, NEW ratio \in Ratios,
             NEW prev \in Ids \cup {NoId}, NEW next \in Ids \cup {NoId},
             insert(x, ratio, prev, next)
      PROVE  SortedBy(listed', nicr')
  <2>1. PICK i \in 1..(Len(listed) + 1) : /\ TL!ValidPosition(listed, ratio, i)
                                          /\ listed' = InsertAt(listed, i, x)
    BY <1>3, InsertLinks
  <2>2. x \notin ToSet(listed)
    BY <1>3, InsertLinks
  <2>3. \A j \in 1..Len(listed) : listed[j] # x
    BY <1>2, <2>2
  <2>4. nicr' = [nicr EXCEPT ![x] = ratio] /\ ratio \in Nat
    BY <1>3, ListAssumption DEF insert
  <2>5. SortedBy(InsertAt(listed, i, x), [nicr EXCEPT ![x] = ratio])
    BY <1>1, <1>2, <2>1, <2>3, <2>4, InsertedSorted
  <2> QED BY <2>1, <2>4, <2>5
<1>4. ASSUME NEW x \in Ids, NEW ratio \in Ratios,
             NEW prev \in Ids \cup {NoId}, NEW next \in Ids \cup {NoId},
             reInsert(x, ratio, prev, next)
      PROVE  SortedBy(listed', nicr')
  <2>1. PICK k \in 1..Len(listed) :
            /\ listed[k] = x
            /\ \E i \in 1..Len(listed) :
                   /\ TL!ValidPosition(RemoveAt(listed, k), ratio, i)
                   /\ listed' = InsertAt(RemoveAt(listed, k), i, x)
    BY <1>4, ReInsertLinks
  <2> DEFINE rest == RemoveAt(listed, k)
  <2>2. rest \in Seq(Ids) /\ Len(rest) + 1 = Len(listed) /\ Len(rest) \in Nat
    <3>1. rest \in Seq(Ids) /\ Len(rest) = Len(listed) - 1
      BY <1>2, RemovedAt
    <3> QED BY <1>2, <3>1
  <2>3. SortedBy(rest, nicr)
    BY <1>1, <1>2, RemovedSorted
  <2>4. \A j \in 1..Len(rest) : rest[j] # x
    BY <1>2, <2>1, RemovedIsGone
  <2>5. nicr' = [nicr EXCEPT ![x] = ratio] /\ ratio \in Nat
    BY <1>4, ListAssumption DEF reInsert
  <2>6. PICK i \in 1..Len(listed) : /\ TL!ValidPosition(rest, ratio, i)
                                    /\ listed' = InsertAt(rest, i, x)
    BY <2>1
  <2> HIDE DEF rest
  <2>7. i \in 1..(Len(rest) + 1)
    BY <2>2
  <2>8. SortedBy(InsertAt(rest, i, x), [nicr EXCEPT ![x] = ratio])
    BY <1>1, <2>2, <2>3, <2>4, <2>5, <2>6, <2>7, InsertedSorted
  <2> QED BY <2>5, <2>6, <2>8
<1>5. ASSUME NEW x \in Ids, remove(x) PROVE SortedBy(listed', nicr')
  <2>1. PICK i \in 1..Len(listed) : listed[i] = x /\ listed' = RemoveAt(listed, i)
    BY <1>5, RemoveLinks
  <2> DEFINE rest == RemoveAt(listed, i)
  <2>2. rest \in Seq(Ids)
    BY <1>2, RemovedAt
  <2>3. SortedBy(rest, nicr)
    BY <1>1, <1>2, RemovedSorted
  <2>4. \A j \in 1..Len(rest) : rest[j] # x
    BY <1>2, <2>1, RemovedIsGone
  <2>5. nicr' = [nicr EXCEPT ![x] = MaxRatio]
    BY <1>5 DEF remove
  <2> HIDE DEF rest
  <2>6. SortedBy(rest, [nicr EXCEPT ![x] = MaxRatio])
    BY <1>1, <2>2, <2>3, <2>4, OutsideDoesNotMatter
  <2> QED BY <2>1, <2>5, <2>6 DEF rest
<1> QED BY <1>3, <1>4, <1>5 DEF Next

-----------------------------------------------------------------------------
(* The abstract list *)

\* TroveList uses the same operators on sequences.
LEMMA SameSequences ==
    ASSUME NEW s, NEW i, NEW x
    PROVE  /\ TL!ToSet(s) = ToSet(s)
           /\ TL!InsertAt(s, i, x) = InsertAt(s, i, x)
           /\ TL!RemoveAt(s, i) = RemoveAt(s, i)
  BY DEF TL!ToSet, ToSet, TL!InsertAt, InsertAt, TL!RemoveAt, RemoveAt

\* The position that TroveList's Without chooses is the only one there is.
LEMMA WithoutIs ==
    ASSUME LinksInv, NEW i \in 1..Len(listed)
    PROVE  TL!Without(listed, listed[i]) = RemoveAt(listed, i)
<1>1. \A j \in 1..Len(listed) : listed[j] = listed[i] <=> j = i
  BY ListedFacts
<1>2. (CHOOSE j \in 1..Len(listed) : listed[j] = listed[i]) = i
  BY <1>1
<1> QED BY <1>2, SameSequences DEF TL!Without

\* Every step on the links is a step of the sequence, or does not touch it.
LEMMA NextImplements ==
    LinksInv /\ [Next]_vars => [TL!ListNext]_<<listed, nicr>>
<1> SUFFICES ASSUME LinksInv, [Next]_vars PROVE [TL!ListNext]_<<listed, nicr>>
  OBVIOUS
<1>1. /\ listed \in Seq(Ids) /\ Len(listed) \in Nat /\ size = Len(listed)
      /\ size <= MaxSize
      /\ ToSet(listed) = {x \in Ids : exists[x]}
  BY ListedFacts DEF LinksInv
<1>2. ASSUME NEW x \in Ids, NEW ratio \in Ratios,
             NEW prev \in Ids \cup {NoId}, NEW next \in Ids \cup {NoId},
             insert(x, ratio, prev, next)
      PROVE  TL!InsertTrove(x, ratio)
  <2>1. PICK i \in 1..(Len(listed) + 1) : /\ TL!ValidPosition(listed, ratio, i)
                                          /\ listed' = InsertAt(listed, i, x)
    BY <1>2, InsertLinks
  <2>2. x \notin ToSet(listed)
    BY <1>2, InsertLinks
  <2>3. ratio > 0 /\ nicr' = [nicr EXCEPT ![x] = ratio] /\ size # MaxSize
    BY <1>2 DEF insert
  <2>4. Len(listed) < MaxSize
    BY <1>1, <2>3, ListAssumption
  <2>5. TL!PutInto(listed, x, ratio)
    BY <2>1, <2>3, SameSequences DEF TL!PutInto
  <2> QED BY <2>2, <2>4, <2>5, SameSequences DEF TL!InsertTrove
<1>3. ASSUME NEW x \in Ids, NEW ratio \in Ratios,
             NEW prev \in Ids \cup {NoId}, NEW next \in Ids \cup {NoId},
             reInsert(x, ratio, prev, next)
      PROVE  TL!MoveTrove(x, ratio)
  <2>1. PICK k \in 1..Len(listed) :
            /\ listed[k] = x
            /\ \E i \in 1..Len(listed) :
                   /\ TL!ValidPosition(RemoveAt(listed, k), ratio, i)
                   /\ listed' = InsertAt(RemoveAt(listed, k), i, x)
    BY <1>3, ReInsertLinks
  <2>2. RemoveAt(listed, k) = TL!Without(listed, x)
    BY <2>1, WithoutIs
  <2>3. Len(RemoveAt(listed, k)) + 1 = Len(listed)
    <3>1. Len(RemoveAt(listed, k)) = Len(listed) - 1
      BY <1>1, RemovedAt
    <3> QED BY <1>1, <3>1
  <2>4. ratio > 0 /\ nicr' = [nicr EXCEPT ![x] = ratio] /\ exists[x]
    BY <1>3 DEF reInsert, contains, data, List
  <2>5. TL!PutInto(TL!Without(listed, x), x, ratio)
    BY <2>1, <2>2, <2>3, <2>4, SameSequences DEF TL!PutInto
  <2> QED BY <1>1, <2>4, <2>5, SameSequences DEF TL!MoveTrove
<1>4. ASSUME NEW x \in Ids, remove(x) PROVE TL!RemoveTrove(x)
  <2>1. PICK i \in 1..Len(listed) : listed[i] = x /\ listed' = RemoveAt(listed, i)
    BY <1>4, RemoveLinks
  <2>2. listed' = TL!Without(listed, x)
    BY <2>1, WithoutIs
  <2>3. exists[x] /\ nicr' = [nicr EXCEPT ![x] = MaxRatio]
    BY <1>4 DEF remove, contains, data, List
  <2> QED BY <1>1, <2>2, <2>3, SameSequences DEF TL!RemoveTrove
<1>5. ASSUME redistribute PROVE TL!Redistribute
  <2>1. PICK r \in [{x \in Ids : exists[x]} -> Ratios \ {0}] :
            nicr' = [x \in Ids |-> IF exists[x] THEN r[x] ELSE nicr[x]]
    BY <1>5 DEF redistribute
  <2>2. r \in [ToSet(listed) -> Ratios \ {0}]
    BY <1>1, <2>1
  <2>3. nicr' = [x \in Ids |-> IF x \in ToSet(listed) THEN r[x] ELSE nicr[x]]
    BY <1>1, <2>1
  <2>4. listed' = listed
    BY <1>5, RedistributeLinks
  <2> QED BY <2>2, <2>3, <2>4, SameSequences DEF TL!Redistribute
<1>6. CASE UNCHANGED vars
  BY <1>6 DEF vars, dataVars, listed
<1>7. Next => TL!ListNext
  BY <1>2, <1>3, <1>4, <1>5 DEF Next, TL!ListNext
<1> QED BY <1>6, <1>7

-----------------------------------------------------------------------------
(* The theorems *)

\* The links are those of a sequence of the members in every state.
LEMMA LinksInvariance == Spec => []LinksInv
  BY InitLinks, NextLinks, PTL DEF Spec

\* The list is always well formed: from the head every member is reached
\* exactly once, the way back is the mirror image, `size' counts the members
\* and stays within the maximum, and who is not a member points nowhere.
THEOREM ListInvariance == Spec => []ListInv
<1>1. LinksInv => ListInv
  <2> SUFFICES ASSUME LinksInv PROVE ListInv
    OBVIOUS
  <2>1. /\ data.head = head /\ data.tail = tail /\ data.size = size
        /\ data.exists = exists /\ data.nextId = nextId /\ data.prevId = prevId
    BY DEF data, List
  <2>2. /\ exists \in [Ids -> BOOLEAN]
        /\ nextId \in [Ids -> Ids \cup {NoId}]
        /\ prevId \in [Ids -> Ids \cup {NoId}]
        /\ nicr \in [Ids -> Nat]
    BY <2>1 DEF LinksInv, Represents, ListTypes
  <2>3. /\ head = NodeAt(listed, 1) /\ tail = NodeAt(listed, Len(listed))
        /\ \A i \in 1..Len(listed) : prevId[listed[i]] = NodeAt(listed, i - 1)
        /\ Len(listed) = Cardinality(Members(data))
        /\ \A x \in Ids : ~exists[x] => nextId[x] = NoId /\ prevId[x] = NoId
    BY <2>1 DEF LinksInv, Represents, LinkedAs, OthersPointNowhere, Lists
  <2>4. /\ listed \in Seq(Ids) /\ Len(listed) \in Nat /\ size = Len(listed)
        /\ ToSet(listed) = {x \in Ids : exists[x]}
        /\ \A i \in 1..Len(listed) : listed[i] \in Ids
    BY ListedFacts
  <2>5. TypeOK
    <3>1. head \in Ids \cup {NoId} /\ tail \in Ids \cup {NoId}
      BY <2>3, <2>4 DEF NodeAt
    <3>2. size \in 0..MaxSize
      BY <2>4, ListAssumption DEF LinksInv
    <3> QED BY <2>2, <3>1, <3>2 DEF TypeOK
  <2>6. Cardinality(ToSet(listed)) = size
    BY <2>1, <2>3, <2>4 DEF Members
  <2>7. /\ head = (IF size = 0 THEN NoId ELSE Head(listed))
        /\ tail = (IF size = 0 THEN NoId ELSE Last(listed))
    BY <2>3, <2>4 DEF NodeAt, Last
  <2>8. ASSUME NEW i \in 1..size
        PROVE  prevId[listed[i]] = IF i = 1 THEN NoId ELSE listed[i - 1]
    BY <2>3, <2>4 DEF NodeAt
  <2>9. \A x \in Ids \ ToSet(listed) : nextId[x] = NoId /\ prevId[x] = NoId
    BY <2>3, <2>4
  <2>10. WellLinked
    BY <2>4, <2>6, <2>7, <2>8, <2>9 DEF WellLinked
  <2> QED BY <2>5, <2>10 DEF ListInv
<1> QED BY <1>1, LinksInvariance, PTL

\* Whatever the hints and however unsorted the list, the search ends at a
\* place that _validInsertPosition accepts.
THEOREM SearchesSucceed == Spec => []SearchSucceeds
<1>1. LinksInv => SearchSucceeds
  <2> SUFFICES ASSUME LinksInv, NEW ratio \in Ratios \ {0},
                      NEW prev \in Ids \cup {NoId}, NEW next \in Ids \cup {NoId}
               PROVE  LET at == insertPlace(data, ratio, prev, next)
                      IN validInsertPosition(data, ratio, at.prev, at.next)
    BY DEF SearchSucceeds
  <2>1. Represents(data, listed) /\ nicr \in [Ids -> Nat]
    BY DEF LinksInv
  <2>2. ratio \in Nat /\ ratio < MaxRatio
    BY ListAssumption
  <2>3. ValidAnswer(data, ratio, insertPlace(data, ratio, prev, next))
    BY <2>1, <2>2, PlaceFound
  <2> QED BY <2>3 DEF ValidAnswer
<1> QED BY <1>1, LinksInvariance, PTL

\* insert, remove and reInsert keep a sorted list sorted, whatever the hints:
\* only a redistribution, which changes ratios behind the list's back, does not.
THEOREM OrderKept == Spec => CallsKeepOrder
  BY LinksInvariance, NextKeepsOrder, PTL DEF Spec, CallsKeepOrder

\* The linked list with hints implements the sequence that TroveManager and
\* the model of the protocol rely on.
THEOREM LinksImplementTheList == Spec => ImplementsTroveList
<1>1. Init => TL!ListInit
  <2> SUFFICES ASSUME Init PROVE TL!ListInit
    OBVIOUS
  <2>1. LinksInv
    BY InitLinks
  <2>2. Len(listed) = 0 /\ listed \in Seq(Ids)
    BY <2>1, ListedFacts DEF Init
  <2>3. listed = <<>>
    BY <2>2
  <2> QED BY <2>3 DEF TL!ListInit, Init
<1> QED
  BY <1>1, LinksInvariance, NextImplements, PTL
     DEF Spec, ImplementsTroveList, TL!ListSpec
=============================================================================
