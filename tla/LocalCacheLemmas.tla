--------------------------- MODULE LocalCacheLemmas ---------------------------
(***************************************************************************)
(* What the methods of LocalCache do to a well-formed cache, for every     *)
(* capacity: each keeps the map and the list in agreement and within the   *)
(* capacity, and changes no entry but the one it is about.                 *)
(***************************************************************************)
EXTENDS LocalCacheOps, TLAPS

\* The map and the list agree; inside Set there may be an entry too many.
Linked(lc) ==
  /\ lc \in LocalCacheType
  /\ MapMatchesList(lc)

\* What every method may assume and must restore.
WellFormed(lc) == Linked(lc) /\ WithinCapacity(lc)

-----------------------------------------------------------------------------
(* A well-formed cache: the pointer of a version leads to its only element. *)
LEMMA ElementFacts ==
  ASSUME NEW lc, Linked(lc), NEW v \in lc.versionsMap
  PROVE  /\ ElementOf(lc, v) \in 1..Len(lc.OrderedVsList)
         /\ lc.OrderedVsList[ElementOf(lc, v)].version = v
         /\ LcGet(lc, v) = lc.OrderedVsList[ElementOf(lc, v)].vehicle_signals
<1>1. \E i \in 1..Len(lc.OrderedVsList) : lc.OrderedVsList[i].version = v
  BY DEF Linked, MapMatchesList
<1> QED
  BY <1>1 DEF ElementOf, LcGet

(* The types of a cache's parts. *)
LEMMA CacheParts ==
  ASSUME NEW lc, lc \in LocalCacheType
  PROVE  /\ lc.versionsMap \subseteq Versions
         /\ lc.OrderedVsList \in Seq(Entry)
         /\ Len(lc.OrderedVsList) \in Nat
         /\ \A i \in 1..Len(lc.OrderedVsList) :
              /\ lc.OrderedVsList[i] \in Entry
              /\ lc.OrderedVsList[i].version \in Versions
              /\ lc.OrderedVsList[i].vehicle_signals \in Bytes
         /\ lc = [versionsMap |-> lc.versionsMap, OrderedVsList |-> lc.OrderedVsList]
<1>1. lc.versionsMap \subseteq Versions /\ lc.OrderedVsList \in Seq(Entry)
  BY DEF LocalCacheType
<1>2. \A i \in 1..Len(lc.OrderedVsList) : lc.OrderedVsList[i] \in Entry
  BY <1>1
<1> QED
  BY <1>1, <1>2 DEF LocalCacheType, Entry

(* An element found in the list is the one Get finds. *)
LEMMA GetAt ==
  ASSUME NEW lc, Linked(lc), NEW i \in 1..Len(lc.OrderedVsList)
  PROVE  /\ lc.OrderedVsList[i].version \in lc.versionsMap
         /\ ElementOf(lc, lc.OrderedVsList[i].version) = i
         /\ LcGet(lc, lc.OrderedVsList[i].version) = lc.OrderedVsList[i].vehicle_signals
<1>1. lc.OrderedVsList[i].version \in lc.versionsMap
  BY DEF Linked, MapMatchesList
<1>2. ElementOf(lc, lc.OrderedVsList[i].version) = i
  BY <1>1, ElementFacts DEF Linked, MapMatchesList
<1> QED
  BY <1>1, <1>2, ElementFacts

-----------------------------------------------------------------------------
(* container/list *)

(* MoveToFront permutes the list. *)
LEMMA MoveToFrontFacts ==
  ASSUME NEW S, NEW l \in Seq(S), NEW i \in 1..Len(l)
  PROVE  /\ MoveToFront(l, i) \in Seq(S)
         /\ Len(MoveToFront(l, i)) = Len(l)
         /\ Len(l) \in Nat \ {0}
         /\ MoveToFront(l, i)[1] = l[i]
         /\ \A j \in 1..Len(l) : 1 < j /\ j <= i => MoveToFront(l, i)[j] = l[j - 1]
         /\ \A j \in 1..Len(l) : i < j => MoveToFront(l, i)[j] = l[j]
  BY DEF MoveToFront

(* Remove closes the gap. *)
LEMMA RemoveFacts ==
  ASSUME NEW S, NEW l \in Seq(S), NEW i \in 1..Len(l)
  PROVE  /\ Remove(l, i) \in Seq(S)
         /\ Len(Remove(l, i)) = Len(l) - 1
         /\ Len(l) \in Nat \ {0}
         /\ \A j \in 1..(Len(l) - 1) : j < i => Remove(l, i)[j] = l[j]
         /\ \A j \in 1..(Len(l) - 1) : i <= j => Remove(l, i)[j] = l[j + 1]
  BY DEF Remove

-----------------------------------------------------------------------------
(* The methods. *)

(* Where the element at place j of a list with element e moved to the front
   was before. *)
Origin(e, j) == IF j = 1 THEN e ELSE IF j <= e THEN j - 1 ELSE j

(* A list with the versions of l, element e moved to the front. *)
MovedFrom(l, e, l2) ==
  /\ l2 \in Seq(Entry)
  /\ Len(l2) = Len(l)
  /\ \A j \in 1..Len(l) : l2[j].version = l[Origin(e, j)].version

(* Moving is a permutation. *)
LEMMA OriginFacts ==
  ASSUME NEW n \in Nat, NEW e \in 1..n
  PROVE  /\ \A j \in 1..n : Origin(e, j) \in 1..n
         /\ \A j, k \in 1..n : Origin(e, j) = Origin(e, k) => j = k
         /\ \A i \in 1..n : \E j \in 1..n : Origin(e, j) = i
<1>1. \A j \in 1..n : Origin(e, j) \in 1..n
  BY DEF Origin
<1>2. \A j, k \in 1..n : Origin(e, j) = Origin(e, k) => j = k
  BY DEF Origin
<1>3. ASSUME NEW i \in 1..n PROVE \E j \in 1..n : Origin(e, j) = i
  <2>1. CASE i = e
    <3>1. 1 \in 1..n /\ Origin(e, 1) = i
      BY <2>1 DEF Origin
    <3> QED
      BY <3>1
  <2>2. CASE i < e
    <3>1. i + 1 \in 1..n /\ Origin(e, i + 1) = i
      BY <2>2 DEF Origin
    <3> QED
      BY <3>1
  <2>3. CASE i > e
    <3>1. Origin(e, i) = i
      BY <2>3 DEF Origin
    <3> QED
      BY <3>1
  <2> QED
    BY <2>1, <2>2, <2>3
<1> QED
  BY <1>1, <1>2, <1>3

(* MoveToFront moves. *)
LEMMA MoveToFrontMoves ==
  ASSUME NEW l \in Seq(Entry), NEW e \in 1..Len(l)
  PROVE  /\ MovedFrom(l, e, MoveToFront(l, e))
         /\ \A j \in 1..Len(l) : MoveToFront(l, e)[j] = l[Origin(e, j)]
<1>1. \A j \in 1..Len(l) : MoveToFront(l, e)[j] = l[Origin(e, j)]
  BY DEF MoveToFront, Origin
<1> QED
  BY <1>1, MoveToFrontFacts DEF MovedFrom

(* A cache whose list was reordered by a move is well-formed. *)
LEMMA MovedWellFormed ==
  ASSUME NEW lc, WellFormed(lc), NEW e \in 1..Len(lc.OrderedVsList),
         NEW l2, MovedFrom(lc.OrderedVsList, e, l2)
  PROVE  /\ WellFormed([lc EXCEPT !.OrderedVsList = l2])
         /\ [lc EXCEPT !.OrderedVsList = l2].versionsMap = lc.versionsMap
         /\ [lc EXCEPT !.OrderedVsList = l2].OrderedVsList = l2
<1> DEFINE l == lc.OrderedVsList
           n == Len(l)
           new == [lc EXCEPT !.OrderedVsList = l2]
<1>1. /\ n \in Nat /\ lc.versionsMap \subseteq Versions
      /\ new = [versionsMap |-> lc.versionsMap, OrderedVsList |-> l2]
  BY CacheParts DEF WellFormed, Linked, LocalCacheType
<1>2. new.versionsMap = lc.versionsMap /\ new.OrderedVsList = l2
  BY <1>1
<1>3. new \in LocalCacheType
  BY <1>1 DEF LocalCacheType, MovedFrom
<1>4. WithinCapacity(new)
  BY <1>2 DEF WithinCapacity, WellFormed, MovedFrom
<1>5. \A j \in 1..n : Origin(e, j) \in 1..n /\ l2[j].version = l[Origin(e, j)].version
  BY <1>1, OriginFacts DEF MovedFrom
<1>6. lc.versionsMap = {l2[j].version : j \in 1..n}
  <2>1. lc.versionsMap = {l[i].version : i \in 1..n}
    BY DEF WellFormed, Linked, MapMatchesList
  <2>2. \A j \in 1..n : l2[j].version \in lc.versionsMap
    BY <1>5, <2>1
  <2>3. ASSUME NEW v \in lc.versionsMap PROVE \E j \in 1..n : l2[j].version = v
    <3>1. PICK i \in 1..n : l[i].version = v
      BY <2>1
    <3>2. PICK j \in 1..n : Origin(e, j) = i
      BY <1>1, OriginFacts
    <3> QED
      BY <1>5, <3>1, <3>2
  <2> QED
    BY <2>2, <2>3
<1>7. \A j, k \in 1..n : l2[j].version = l2[k].version => j = k
  <2> SUFFICES ASSUME NEW j \in 1..n, NEW k \in 1..n, l2[j].version = l2[k].version
               PROVE  j = k
    OBVIOUS
  <2>1. Origin(e, j) = Origin(e, k)
    BY <1>5 DEF WellFormed, Linked, MapMatchesList
  <2> QED
    BY <1>1, <2>1, OriginFacts
<1>8. MapMatchesList(new)
  BY <1>2, <1>6, <1>7 DEF MapMatchesList, MovedFrom
<1> QED
  BY <1>2, <1>3, <1>4, <1>8 DEF WellFormed, Linked

(* LocalCache.Get keeps the cache well-formed and every entry as it is. *)
LEMMA AfterGetFacts ==
  ASSUME NEW lc, WellFormed(lc), NEW v
  PROVE  /\ WellFormed(LcAfterGet(lc, v))
         /\ LcAfterGet(lc, v).versionsMap = lc.versionsMap
         /\ \A w \in lc.versionsMap : LcGet(LcAfterGet(lc, v), w) = LcGet(lc, w)
         /\ v \in lc.versionsMap =>
              MovedFrom(lc.OrderedVsList, ElementOf(lc, v), LcAfterGet(lc, v).OrderedVsList)
<1>1. CASE v \notin lc.versionsMap
  BY <1>1 DEF LcAfterGet
<1>2. CASE v \in lc.versionsMap
  <2> DEFINE l == lc.OrderedVsList
             e == ElementOf(lc, v)
             l2 == MoveToFront(l, e)
             new == LcAfterGet(lc, v)
  <2>1. e \in 1..Len(l) /\ l \in Seq(Entry) /\ Len(l) \in Nat
    BY <1>2, ElementFacts, CacheParts DEF WellFormed, Linked
  <2>2. MovedFrom(l, e, l2) /\ \A j \in 1..Len(l) : l2[j] = l[Origin(e, j)]
    BY <2>1, MoveToFrontMoves
  <2>3. new = [lc EXCEPT !.OrderedVsList = l2]
    BY <1>2 DEF LcAfterGet
  <2> HIDE DEF new, l2, e
  <2>4. WellFormed(new) /\ new.versionsMap = lc.versionsMap /\ new.OrderedVsList = l2
    BY <2>1, <2>2, <2>3, MovedWellFormed
  <2>5. ASSUME NEW w \in lc.versionsMap PROVE LcGet(new, w) = LcGet(lc, w)
    <3> DEFINE i == ElementOf(lc, w)
    <3>1. i \in 1..Len(l) /\ l[i].version = w /\ LcGet(lc, w) = l[i].vehicle_signals
      BY ElementFacts DEF WellFormed
    <3>2. PICK j \in 1..Len(l) : Origin(e, j) = i
      BY <2>1, <3>1, OriginFacts
    <3>3. l2[j] = l[i] /\ j \in 1..Len(new.OrderedVsList)
      BY <2>2, <2>4, <3>2 DEF MovedFrom
    <3> QED
      BY <2>4, <3>1, <3>3, GetAt DEF WellFormed
  <2> QED
    BY <2>2, <2>4, <2>5 DEF new, e
<1> QED
  BY <1>1, <1>2

(* LocalCache.Set of a version that is there: its bytes change, nothing else. *)
LEMMA SetOldFacts ==
  ASSUME NEW lc, WellFormed(lc), NEW v \in lc.versionsMap, NEW b \in Bytes
  PROVE  /\ WellFormed(LcSet(lc, v, b))
         /\ LcSet(lc, v, b).versionsMap = lc.versionsMap
         /\ MovedFrom(lc.OrderedVsList, ElementOf(lc, v), LcSet(lc, v, b).OrderedVsList)
         /\ \A w \in lc.versionsMap :
              LcGet(LcSet(lc, v, b), w) = IF w = v THEN b ELSE LcGet(lc, w)
<1> DEFINE l == lc.OrderedVsList
           n == Len(l)
           e == ElementOf(lc, v)
           m == MoveToFront(l, e)
           l2 == [m EXCEPT ![1].vehicle_signals = b]
           new == LcSet(lc, v, b)
<1>1. e \in 1..n /\ l \in Seq(Entry) /\ n \in Nat /\ l[e].version = v /\ v \in Versions
  BY ElementFacts, CacheParts DEF WellFormed, Linked
<1>2. MovedFrom(l, e, m) /\ \A j \in 1..n : m[j] = l[Origin(e, j)]
  BY <1>1, MoveToFrontMoves
<1>3. new = [lc EXCEPT !.OrderedVsList = l2]
  BY DEF LcSet
<1>4. /\ m \in Seq(Entry) /\ Len(m) = n /\ 1 \in 1..n
      /\ m[1] \in Entry /\ m[1].version = v
  <2>1. m \in Seq(Entry) /\ Len(m) = n /\ 1 \in 1..n
    BY <1>1, <1>2 DEF MovedFrom
  <2>2. m[1] = l[e]
    BY <1>2, <2>1 DEF Origin
  <2> QED
    BY <1>1, <2>1, <2>2
<1> HIDE DEF m, e
<1>5. /\ [m[1] EXCEPT !.vehicle_signals = b] \in Entry
      /\ [m[1] EXCEPT !.vehicle_signals = b].version = v
      /\ [m[1] EXCEPT !.vehicle_signals = b].vehicle_signals = b
  BY <1>4 DEF Entry
<1>6. /\ l2 \in Seq(Entry) /\ Len(l2) = n
      /\ l2[1].version = v /\ l2[1].vehicle_signals = b
      /\ \A j \in 1..n : j # 1 => l2[j] = m[j]
  BY <1>4, <1>5
<1>7. MovedFrom(l, e, l2)
  BY <1>1, <1>2, <1>4, <1>6 DEF MovedFrom
<1> HIDE DEF new, l2
<1>8. WellFormed(new) /\ new.versionsMap = lc.versionsMap /\ new.OrderedVsList = l2
  BY <1>1, <1>3, <1>7, MovedWellFormed DEF l2
<1>9. ASSUME NEW w \in lc.versionsMap
      PROVE  LcGet(new, w) = IF w = v THEN b ELSE LcGet(lc, w)
  <2>1. CASE w = v
    <3>1. 1 \in 1..Len(new.OrderedVsList)
      BY <1>4, <1>6, <1>8
    <3> QED
      BY <1>6, <1>8, <2>1, <3>1, GetAt DEF WellFormed
  <2>2. CASE w # v
    <3> DEFINE i == ElementOf(lc, w)
    <3>1. i \in 1..n /\ l[i].version = w /\ LcGet(lc, w) = l[i].vehicle_signals
      BY ElementFacts DEF WellFormed
    <3>2. PICK j \in 1..n : Origin(e, j) = i
      BY <1>1, <3>1, OriginFacts
    <3>3. j # 1
      BY <1>1, <2>2, <3>1, <3>2 DEF Origin
    <3>4. l2[j] = l[i] /\ j \in 1..Len(new.OrderedVsList)
      BY <1>2, <1>6, <1>8, <3>2, <3>3
    <3> QED
      BY <1>8, <2>2, <3>1, <3>4, GetAt DEF WellFormed
  <2> QED
    BY <2>1, <2>2
<1> QED
  BY <1>7, <1>8, <1>9 DEF new, e

(* Where the element at place j of a list without its element e was before. *)
Kept(e, j) == IF j < e THEN j ELSE j + 1

(* Removing an element from the list and its version from the map. *)
LEMMA RemovedLinked ==
  ASSUME NEW lc, Linked(lc), NEW e \in 1..Len(lc.OrderedVsList), NEW new,
         new = [versionsMap   |-> lc.versionsMap \ {lc.OrderedVsList[e].version},
                OrderedVsList |-> Remove(lc.OrderedVsList, e)]
  PROVE  /\ Linked(new)
         /\ new.versionsMap = lc.versionsMap \ {lc.OrderedVsList[e].version}
         /\ Len(new.OrderedVsList) = Len(lc.OrderedVsList) - 1
         /\ \A j \in 1..Len(new.OrderedVsList) :
              new.OrderedVsList[j] = lc.OrderedVsList[Kept(e, j)]
         /\ \A w \in new.versionsMap : LcGet(new, w) = LcGet(lc, w)
<1> DEFINE l == lc.OrderedVsList
           n == Len(l)
           l2 == new.OrderedVsList
           At(j) == Kept(e, j)
<1>1. /\ n \in Nat \ {0} /\ l \in Seq(Entry) /\ lc.versionsMap \subseteq Versions
      /\ lc.versionsMap = {l[i].version : i \in 1..n}
      /\ \A i, j \in 1..n : l[i].version = l[j].version => i = j
  BY CacheParts DEF Linked, MapMatchesList
<1>2. /\ l2 \in Seq(Entry) /\ Len(l2) = n - 1
      /\ \A j \in 1..(n - 1) : At(j) \in 1..n /\ At(j) # e /\ l2[j] = l[At(j)]
  <2>1. l2 = Remove(l, e)
    OBVIOUS
  <2> HIDE DEF l2, l, n
  <2>2. n = Len(l) /\ e \in 1..Len(l)
    BY DEF l, n
  <2>3. /\ Remove(l, e) \in Seq(Entry)
        /\ Len(Remove(l, e)) = n - 1
        /\ \A j \in 1..(n - 1) : j < e => Remove(l, e)[j] = l[j]
        /\ \A j \in 1..(n - 1) : e <= j => Remove(l, e)[j] = l[j + 1]
    BY <1>1, <2>2, RemoveFacts
  <2> QED
    BY <1>1, <2>1, <2>2, <2>3 DEF Kept
<1>3. \A i \in 1..n : i # e => \E j \in 1..(n - 1) : At(j) = i
  <2> SUFFICES ASSUME NEW i \in 1..n, i # e PROVE \E j \in 1..(n - 1) : At(j) = i
    OBVIOUS
  <2>1. CASE i < e
    <3>1. i \in 1..(n - 1) /\ At(i) = i
      BY <1>1, <2>1 DEF Kept
    <3> QED
      BY <3>1
  <2>2. CASE i > e
    <3>1. i - 1 \in 1..(n - 1) /\ At(i - 1) = i
      BY <1>1, <2>2 DEF Kept
    <3> QED
      BY <3>1
  <2> QED
    BY <2>1, <2>2
<1>4. new.versionsMap = lc.versionsMap \ {l[e].version}
  OBVIOUS
<1>5. new \in LocalCacheType
  <2>1. new.versionsMap \subseteq Versions
    BY <1>1, <1>4
  <2> QED
    BY <1>2, <2>1 DEF LocalCacheType
<1>6. ASSUME NEW w \in new.versionsMap
      PROVE  \E j \in 1..(n - 1) : l2[j].version = w /\ l2[j] = l[ElementOf(lc, w)]
  <2>1. w \in lc.versionsMap /\ w # l[e].version
    BY <1>4
  <2>2. ElementOf(lc, w) \in 1..n /\ l[ElementOf(lc, w)].version = w
    BY <2>1, ElementFacts
  <2>3. PICK j \in 1..(n - 1) : At(j) = ElementOf(lc, w)
    BY <1>3, <2>1, <2>2
  <2> QED
    BY <1>2, <2>2, <2>3
<1>7. new.versionsMap = {l2[j].version : j \in 1..(n - 1)}
  <2>1. ASSUME NEW j \in 1..(n - 1) PROVE l2[j].version \in new.versionsMap
    <3>1. At(j) \in 1..n /\ At(j) # e /\ l2[j] = l[At(j)]
      BY <1>2
    <3> HIDE DEF At, l2, l, n
    <3>2. l[At(j)].version \in lc.versionsMap
      BY <1>1, <3>1
    <3>3. e \in 1..n
      BY DEF n, l
    <3>4. l[At(j)].version # l[e].version
      BY <1>1, <3>1, <3>3
    <3> QED
      BY <1>4, <3>1, <3>2, <3>4
  <2> QED
    BY <1>6, <2>1
<1>8. \A j, k \in 1..(n - 1) : l2[j].version = l2[k].version => j = k
  <2> SUFFICES ASSUME NEW j \in 1..(n - 1), NEW k \in 1..(n - 1), l2[j].version = l2[k].version
               PROVE  j = k
    OBVIOUS
  <2>1. At(j) \in 1..n /\ At(k) \in 1..n /\ l[At(j)].version = l[At(k)].version
    BY <1>2
  <2>2. At(j) = At(k)
    <3> HIDE DEF At, l, n
    <3> QED
      BY <1>1, <2>1
  <2> QED
    BY <1>1, <2>2 DEF Kept
<1>9. Linked(new)
  BY <1>2, <1>5, <1>7, <1>8 DEF Linked, MapMatchesList
<1>10. ASSUME NEW w \in new.versionsMap PROVE LcGet(new, w) = LcGet(lc, w)
  <2>1. PICK j \in 1..(n - 1) : l2[j].version = w /\ l2[j] = l[ElementOf(lc, w)]
    BY <1>6
  <2>2. LcGet(new, w) = l2[j].vehicle_signals
    BY <1>2, <1>9, <2>1, GetAt
  <2>3. LcGet(lc, w) = l[ElementOf(lc, w)].vehicle_signals
    BY <1>4, ElementFacts
  <2> QED
    BY <2>1, <2>2, <2>3
<1> QED
  BY <1>2, <1>4, <1>9, <1>10

(* LocalCache.Delete: the entry of v leaves the map and the list, nothing
   else changes. *)
LEMMA AfterDeleteFacts ==
  ASSUME NEW lc, WellFormed(lc), NEW v
  PROVE  /\ WellFormed(LcAfterDelete(lc, v))
         /\ LcAfterDelete(lc, v).versionsMap = lc.versionsMap \ {v}
         /\ \A w \in LcAfterDelete(lc, v).versionsMap :
              LcGet(LcAfterDelete(lc, v), w) = LcGet(lc, w)
         /\ LcAfterDelete(lc, v) # lc =>
              \E e \in 1..Len(lc.OrderedVsList) :
                /\ Len(LcAfterDelete(lc, v).OrderedVsList) = Len(lc.OrderedVsList) - 1
                /\ \A j \in 1..Len(LcAfterDelete(lc, v).OrderedVsList) :
                     LcAfterDelete(lc, v).OrderedVsList[j] = lc.OrderedVsList[Kept(e, j)]
<1>1. CASE v \notin lc.versionsMap
  BY <1>1 DEF LcAfterDelete
<1>2. CASE v \in lc.versionsMap
  <2> DEFINE e == ElementOf(lc, v)
             new == [versionsMap   |-> lc.versionsMap \ {v},
                     OrderedVsList |-> Remove(lc.OrderedVsList, e)]
  <2>1. e \in 1..Len(lc.OrderedVsList) /\ lc.OrderedVsList[e].version = v
    BY <1>2, ElementFacts DEF WellFormed
  <2>2. LcAfterDelete(lc, v) = new
    BY <1>2 DEF LcAfterDelete
  <2> HIDE DEF e
  <2>3. new = [versionsMap   |-> lc.versionsMap \ {lc.OrderedVsList[e].version},
               OrderedVsList |-> Remove(lc.OrderedVsList, e)]
    BY <2>1
  <2> HIDE DEF new
  <2>4. /\ Linked(new)
        /\ new.versionsMap = lc.versionsMap \ {v}
        /\ Len(new.OrderedVsList) = Len(lc.OrderedVsList) - 1
        /\ \A j \in 1..Len(new.OrderedVsList) :
             new.OrderedVsList[j] = lc.OrderedVsList[Kept(e, j)]
        /\ \A w \in new.versionsMap : LcGet(new, w) = LcGet(lc, w)
    BY <2>1, <2>3, RemovedLinked DEF WellFormed
  <2>5. Len(lc.OrderedVsList) \in Nat /\ WithinCapacity(lc)
    BY CacheParts DEF WellFormed, Linked
  <2>6. WithinCapacity(new)
    BY <2>4, <2>5, CapacityAssumption DEF WithinCapacity, noCapacityLimit
  <2> QED
    BY <2>1, <2>2, <2>4, <2>6 DEF WellFormed
<1> QED
  BY <1>1, <1>2

(* The first half of LocalCache.Set of a new version: its entry is in the map
   and at the front of the list. *)
LEMMA PushedLinked ==
  ASSUME NEW lc, Linked(lc), NEW v \in Versions \ lc.versionsMap, NEW b \in Bytes,
         NEW new,
         new = [versionsMap   |-> lc.versionsMap \cup {v},
                OrderedVsList |-> PushFront(lc.OrderedVsList,
                                            [version |-> v, vehicle_signals |-> b])]
  PROVE  /\ Linked(new)
         /\ new.versionsMap = lc.versionsMap \cup {v}
         /\ Len(new.OrderedVsList) = Len(lc.OrderedVsList) + 1
         /\ new.OrderedVsList[1].version = v
         /\ \A j \in 1..Len(lc.OrderedVsList) : new.OrderedVsList[j + 1] = lc.OrderedVsList[j]
         /\ LcGet(new, v) = b
         /\ \A w \in lc.versionsMap : LcGet(new, w) = LcGet(lc, w)
<1> DEFINE l == lc.OrderedVsList
           n == Len(l)
           l2 == new.OrderedVsList
           en == [version |-> v, vehicle_signals |-> b]
<1>1. /\ n \in Nat /\ l \in Seq(Entry) /\ lc.versionsMap \subseteq Versions
      /\ lc.versionsMap = {l[i].version : i \in 1..n}
      /\ \A i, j \in 1..n : l[i].version = l[j].version => i = j
  BY CacheParts DEF Linked, MapMatchesList
<1>2. l2 = PushFront(l, en) /\ en \in Entry /\ en.version = v /\ en.vehicle_signals = b
  BY DEF Entry
<1>3. new.versionsMap = lc.versionsMap \cup {v}
  OBVIOUS
<1> HIDE DEF en, l2
<1>4. /\ l2 \in Seq(Entry) /\ Len(l2) = n + 1 /\ l2[1] = en
      /\ \A j \in 2..(n + 1) : l2[j] = l[j - 1]
      /\ \A j \in 1..n : l2[j + 1] = l[j]
  <2> HIDE DEF l
  <2>0. l \in Seq(Entry) /\ en \in Entry
    BY <1>1, <1>2
  <2>1. /\ PushFront(l, en) \in Seq(Entry)
        /\ Len(PushFront(l, en)) = Len(l) + 1
        /\ PushFront(l, en)[1] = en
        /\ \A j \in 2..(Len(l) + 1) : PushFront(l, en)[j] = l[j - 1]
        /\ \A j \in 1..Len(l) : PushFront(l, en)[j + 1] = l[j]
    BY <2>0 DEF PushFront
  <2> QED
    BY <1>2, <2>1
<1>5. new \in LocalCacheType
  <2>1. new.versionsMap \subseteq Versions
    BY <1>1, <1>3
  <2> QED
    BY <1>4, <2>1 DEF LocalCacheType, l2
<1>6. new.versionsMap = {l2[j].version : j \in 1..(n + 1)}
  <2>1. \A j \in 1..(n + 1) : l2[j].version \in new.versionsMap
    <3> SUFFICES ASSUME NEW j \in 1..(n + 1) PROVE l2[j].version \in new.versionsMap
      OBVIOUS
    <3>1. CASE j = 1
      BY <1>2, <1>3, <1>4, <3>1
    <3>2. CASE j # 1
      <4>1. j \in 2..(n + 1) /\ j - 1 \in 1..n
        BY <1>1, <3>2
      <4> QED
        BY <1>1, <1>3, <1>4, <4>1
    <3> QED
      BY <3>1, <3>2
  <2>2. ASSUME NEW w \in new.versionsMap PROVE \E j \in 1..(n + 1) : l2[j].version = w
    <3>1. CASE w = v
      <4>1. 1 \in 1..(n + 1)
        BY <1>1
      <4> QED
        BY <1>2, <1>4, <3>1, <4>1
    <3>2. CASE w \in lc.versionsMap
      <4>1. PICK i \in 1..n : l[i].version = w
        BY <1>1, <3>2
      <4>2. i + 1 \in 1..(n + 1) /\ l2[i + 1].version = w
        BY <1>1, <1>4, <4>1
      <4> QED
        BY <4>2
    <3> QED
      BY <1>3, <3>1, <3>2
  <2> QED
    BY <2>1, <2>2
<1>7. ASSUME NEW j \in 1..(n + 1), NEW k \in 1..(n + 1), l2[j].version = l2[k].version
      PROVE  j = k
  <2>1. ASSUME NEW i \in 2..(n + 1) PROVE i - 1 \in 1..n /\ l2[i] = l[i - 1]
                                          /\ l2[i].version # v
    <3>1. i - 1 \in 1..n
      BY <1>1
    <3> QED
      BY <1>1, <1>4, <3>1
  <2>2. CASE j # 1 /\ k # 1
    <3>1. j \in 2..(n + 1) /\ k \in 2..(n + 1)
      BY <1>1, <2>2
    <3>2. j - 1 = k - 1
      BY <1>1, <1>7, <2>1, <3>1
    <3> QED
      BY <1>1, <3>1, <3>2
  <2>3. CASE j = 1 /\ k # 1
    <3>1. k \in 2..(n + 1)
      BY <1>1, <2>3
    <3> QED
      BY <1>2, <1>4, <1>7, <2>1, <2>3, <3>1
  <2>4. CASE j # 1 /\ k = 1
    <3>1. j \in 2..(n + 1)
      BY <1>1, <2>4
    <3> QED
      BY <1>2, <1>4, <1>7, <2>1, <2>4, <3>1
  <2> QED
    BY <2>2, <2>3, <2>4
<1>8. Linked(new)
  BY <1>4, <1>5, <1>6, <1>7 DEF Linked, MapMatchesList, l2
<1>9. LcGet(new, v) = b
  <2>1. 1 \in 1..Len(new.OrderedVsList)
    BY <1>1, <1>4 DEF l2
  <2> QED
    BY <1>2, <1>4, <1>8, <2>1, GetAt DEF l2
<1>10. ASSUME NEW w \in lc.versionsMap PROVE LcGet(new, w) = LcGet(lc, w)
  <2> DEFINE i == ElementOf(lc, w)
  <2>1. i \in 1..n /\ l[i].version = w /\ LcGet(lc, w) = l[i].vehicle_signals
    BY ElementFacts
  <2> HIDE DEF i
  <2>2. i + 1 \in 1..Len(l2) /\ l2[i + 1] = l[i]
    BY <1>1, <1>4, <2>1
  <2> QED
    BY <1>8, <2>1, <2>2, GetAt DEF l2
<1> QED
  BY <1>2, <1>3, <1>4, <1>8, <1>9, <1>10 DEF l2

(* LocalCache.evict, called with at most one entry too many: what is left is
   within the capacity, and unchanged. *)
LEMMA EvictFacts ==
  ASSUME NEW lc, Linked(lc), Len(lc.OrderedVsList) >= 1,
         Capacity # noCapacityLimit =>
           Len(lc.OrderedVsList) <= (IF Capacity > 0 THEN Capacity ELSE 0) + 1
  PROVE  /\ WellFormed(evict(lc))
         /\ evict(lc).versionsMap \subseteq lc.versionsMap
         /\ \A w \in evict(lc).versionsMap : LcGet(evict(lc), w) = LcGet(lc, w)
         /\ Len(evict(lc).OrderedVsList) <= Len(lc.OrderedVsList)
         /\ \A j \in 1..Len(evict(lc).OrderedVsList) :
              evict(lc).OrderedVsList[j] = lc.OrderedVsList[j]
         /\ \A w \in lc.versionsMap \ evict(lc).versionsMap :
              /\ w = lc.OrderedVsList[Len(lc.OrderedVsList)].version
              /\ Len(evict(lc).OrderedVsList) = Len(lc.OrderedVsList) - 1
<1> DEFINE n == Len(lc.OrderedVsList)
<1>1. n \in Nat /\ n \in 1..n
  BY CacheParts DEF Linked
<1>2. CASE ~(Capacity # noCapacityLimit /\ n > Capacity)
  <2>1. WithinCapacity(lc)
    BY <1>1, <1>2, CapacityAssumption DEF WithinCapacity, noCapacityLimit
  <2>2. evict(lc) = lc
    BY <1>2 DEF evict
  <2> QED
    BY <1>1, <2>1, <2>2 DEF WellFormed
<1>3. CASE Capacity # noCapacityLimit /\ n > Capacity
  <2> DEFINE new == [versionsMap   |-> lc.versionsMap \ {lc.OrderedVsList[n].version},
                     OrderedVsList |-> Remove(lc.OrderedVsList, n)]
  <2>1. evict(lc) = new
    BY <1>3 DEF evict
  <2> HIDE DEF new
  <2>2. /\ Linked(new)
        /\ new.versionsMap = lc.versionsMap \ {lc.OrderedVsList[n].version}
        /\ Len(new.OrderedVsList) = n - 1
        /\ \A j \in 1..(n - 1) : new.OrderedVsList[j] = lc.OrderedVsList[Kept(n, j)]
        /\ \A w \in new.versionsMap : LcGet(new, w) = LcGet(lc, w)
    BY <1>1, RemovedLinked DEF new
  <2>3. WithinCapacity(new)
    BY <1>1, <1>3, <2>2, CapacityAssumption DEF WithinCapacity, noCapacityLimit
  <2>4. \A j \in 1..Len(new.OrderedVsList) : new.OrderedVsList[j] = lc.OrderedVsList[j]
    BY <1>1, <2>2 DEF Kept
  <2> QED
    BY <1>1, <2>1, <2>2, <2>3, <2>4 DEF WellFormed
<1> QED
  BY <1>2, <1>3

(* LocalCache.Set: afterwards the cache holds nothing but old entries and the
   new one. *)
LEMMA SetFacts ==
  ASSUME NEW lc, WellFormed(lc), NEW v \in Versions, NEW b \in Bytes
  PROVE  /\ WellFormed(LcSet(lc, v, b))
         /\ LcSet(lc, v, b).versionsMap \subseteq lc.versionsMap \cup {v}
         /\ \A w \in LcSet(lc, v, b).versionsMap :
              LcGet(LcSet(lc, v, b), w) = IF w = v THEN b ELSE LcGet(lc, w)
<1>1. CASE v \in lc.versionsMap
  BY <1>1, SetOldFacts
<1>2. CASE v \notin lc.versionsMap
  <2> DEFINE new == [versionsMap   |-> lc.versionsMap \cup {v},
                     OrderedVsList |-> PushFront(lc.OrderedVsList,
                                         [version |-> v, vehicle_signals |-> b])]
  <2>1. LcSet(lc, v, b) = evict(new)
    BY <1>2 DEF LcSet
  <2> HIDE DEF new
  <2>2. /\ Linked(new)
        /\ new.versionsMap = lc.versionsMap \cup {v}
        /\ Len(new.OrderedVsList) = Len(lc.OrderedVsList) + 1
        /\ LcGet(new, v) = b
        /\ \A w \in lc.versionsMap : LcGet(new, w) = LcGet(lc, w)
    BY <1>2, PushedLinked DEF new, WellFormed
  <2>3. /\ Len(lc.OrderedVsList) \in Nat
        /\ Capacity # noCapacityLimit =>
             Len(lc.OrderedVsList) <= (IF Capacity > 0 THEN Capacity ELSE 0)
    BY CacheParts DEF WellFormed, Linked, WithinCapacity
  <2>4. /\ Len(new.OrderedVsList) >= 1
        /\ Capacity # noCapacityLimit =>
             Len(new.OrderedVsList) <= (IF Capacity > 0 THEN Capacity ELSE 0) + 1
    BY <2>2, <2>3, CapacityAssumption
  <2>5. /\ WellFormed(evict(new))
        /\ evict(new).versionsMap \subseteq new.versionsMap
        /\ \A w \in evict(new).versionsMap : LcGet(evict(new), w) = LcGet(new, w)
    BY <2>2, <2>4, EvictFacts
  <2> QED
    BY <2>1, <2>2, <2>5
<1> QED
  BY <1>1, <1>2

(* A new cache is well formed. *)
LEMMA NewFacts ==
  /\ WellFormed(NewLocalCache)
  /\ NewLocalCache.versionsMap = {}
  BY CapacityAssumption
     DEF WellFormed, Linked, LocalCacheType, NewLocalCache, MapMatchesList,
         WithinCapacity, noCapacityLimit
=============================================================================
