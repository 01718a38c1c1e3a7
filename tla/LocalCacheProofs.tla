--------------------------- MODULE LocalCacheProofs ---------------------------
(***************************************************************************)
(* Proofs about LocalCache, for all versions, catalogs and capacities and  *)
(* any number of accesses.  The inductive invariant is IInv: the map and   *)
(* the list agree, the capacity holds, the list is ordered by last access, *)
(* and no access has a number above the counter (without which the entry   *)
(* an access moves to the front need not be the latest one).               *)
(***************************************************************************)
EXTENDS LocalCache, LocalCacheLemmas

\* The versions of a list are in the order of their last uses.
Ordered(l, use) ==
  \A i, j \in 1..Len(l) : i < j => use[l[i].version] > use[l[j].version]

LEMMA InitOK == Init => IInv
<1> SUFFICES ASSUME Init PROVE IInv
  OBVIOUS
<1>1. WellFormed(lc) /\ lc.OrderedVsList = << >>
  BY NewFacts DEF Init, NewLocalCache
<1> QED
  BY <1>1 DEF Init, IInv, TypeOK, Consistent, Bounded, OrderedByLastUse, WellFormed, Linked

(* What an access to v does to the history. *)
LEMMA AccessedFacts ==
  ASSUME IInv, NEW v \in Versions, Accessed(v)
  PROVE  /\ uses' \in Nat
         /\ lastUse' \in [Versions -> Nat]
         /\ lastUse'[v] = uses + 1
         /\ \A w \in Versions : w # v => lastUse'[w] = lastUse[w] /\ lastUse'[w] < lastUse'[v]
         /\ \A w \in Versions : lastUse'[w] <= uses'
  BY DEF IInv, TypeOK, Accessed

(* IInv in terms of the lemmas about the operations. *)
LEMMA IInvParts ==
  ASSUME IInv
  PROVE  /\ WellFormed(lc)
         /\ Ordered(lc.OrderedVsList, lastUse)
         /\ \A i \in 1..Len(lc.OrderedVsList) : lc.OrderedVsList[i].version \in Versions
         /\ Len(lc.OrderedVsList) \in Nat
<1>1. WellFormed(lc)
  BY DEF IInv, TypeOK, Consistent, Bounded, WellFormed, Linked
<1> QED
  BY <1>1, CacheParts DEF IInv, OrderedByLastUse, Ordered, WellFormed, Linked

(* Moving the accessed entry to the front keeps the order. *)
LEMMA MovedOrdered ==
  ASSUME IInv, NEW v \in lc.versionsMap, Accessed(v), NEW l2,
         MovedFrom(lc.OrderedVsList, ElementOf(lc, v), l2)
  PROVE  Ordered(l2, lastUse')
<1> DEFINE l == lc.OrderedVsList
           n == Len(l)
           e == ElementOf(lc, v)
<1>1. /\ Ordered(l, lastUse) /\ n \in Nat /\ WellFormed(lc)
      /\ \A i \in 1..n : l[i].version \in Versions
  BY IInvParts
<1>2. e \in 1..n /\ l[e].version = v
  BY <1>1, ElementFacts DEF WellFormed
<1>3. \A i \in 1..n : i # e => l[i].version # v
  BY <1>1, <1>2 DEF WellFormed, Linked, MapMatchesList
<1>4. \A w \in Versions : w # v => lastUse'[w] = lastUse[w] /\ lastUse'[w] < lastUse'[v]
  BY <1>1, <1>2, AccessedFacts
<1>5. Len(l2) = n /\ \A j \in 1..n : l2[j].version = l[Origin(e, j)].version
  BY DEF MovedFrom
<1> HIDE DEF e, n, l
<1> SUFFICES ASSUME NEW i \in 1..n, NEW j \in 1..n, i < j
             PROVE  lastUse'[l2[i].version] > lastUse'[l2[j].version]
  BY <1>5 DEF Ordered
<1>6. /\ Origin(e, i) \in 1..n /\ Origin(e, j) \in 1..n /\ Origin(e, j) # e
      /\ i = 1 => Origin(e, i) = e
      /\ i # 1 => Origin(e, i) # e /\ Origin(e, i) < Origin(e, j)
  BY <1>1, <1>2 DEF Origin
<1>7. l[Origin(e, j)].version \in Versions \ {v}
  BY <1>1, <1>3, <1>6
<1>8. CASE i = 1
  <2>1. l2[i].version = v
    BY <1>2, <1>5, <1>6, <1>8
  <2>2. lastUse'[l[Origin(e, j)].version] < lastUse'[v]
    BY <1>4, <1>7
  <2>3. uses' \in Nat /\ lastUse' \in [Versions -> Nat] /\ v \in Versions
    BY <1>1, <1>2, AccessedFacts
  <2> QED
    BY <1>5, <1>7, <2>1, <2>2, <2>3
<1>9. CASE i # 1
  <2>1. l[Origin(e, i)].version \in Versions \ {v}
    BY <1>1, <1>3, <1>6, <1>9
  <2>2. lastUse[l[Origin(e, i)].version] > lastUse[l[Origin(e, j)].version]
    BY <1>1, <1>6, <1>9 DEF Ordered, n
  <2> QED
    BY <1>4, <1>5, <1>7, <2>1, <2>2
<1> QED
  BY <1>8, <1>9

(* Get *)
LEMMA GetOK ==
  ASSUME IInv, NEW v \in Versions, Get(v)
  PROVE  IInv' /\ lc'.versionsMap = lc.versionsMap
<1>1. WellFormed(lc) /\ Ordered(lc.OrderedVsList, lastUse)
  BY IInvParts
<1>2. lc' = LcAfterGet(lc, v) /\ Accessed(v)
  BY DEF Get
<1>3. WellFormed(LcAfterGet(lc, v)) /\ LcAfterGet(lc, v).versionsMap = lc.versionsMap
  BY <1>1, AfterGetFacts
<1>4. Ordered(lc'.OrderedVsList, lastUse')
  <2>1. CASE v \in lc.versionsMap
    BY <1>1, <1>2, <2>1, AfterGetFacts, MovedOrdered
  <2>2. CASE v \notin lc.versionsMap
    <3>1. lc' = lc
      BY <1>2, <2>2 DEF LcAfterGet
    <3>2. \A i \in 1..Len(lc.OrderedVsList) :
            lc.OrderedVsList[i].version \in Versions \ {v}
      BY <1>1, <2>2, IInvParts DEF WellFormed, Linked, MapMatchesList
    <3>3. \A w \in Versions : w # v => lastUse'[w] = lastUse[w]
      BY <1>2, AccessedFacts
    <3> QED
      BY <1>1, <3>1, <3>2, <3>3 DEF Ordered
  <2> QED
    BY <2>1, <2>2
<1>5. TypeOK' /\ \A w \in Versions : lastUse'[w] <= uses'
  BY <1>2, <1>3, AccessedFacts DEF TypeOK, WellFormed, Linked
<1> QED
  BY <1>2, <1>3, <1>4, <1>5
     DEF IInv, Consistent, Bounded, OrderedByLastUse, Ordered, WellFormed, Linked

(* Set, and what it drops. *)
LEMMA SetOK ==
  ASSUME IInv, NEW v \in Versions, NEW b \in Bytes, Set(v, b)
  PROVE  /\ IInv'
         /\ \A u \in lc.versionsMap \ lc'.versionsMap :
              \A w \in lc'.versionsMap : lastUse'[u] < lastUse'[w]
<1>1. WellFormed(lc) /\ Ordered(lc.OrderedVsList, lastUse)
  BY IInvParts
<1>2. lc' = LcSet(lc, v, b) /\ Accessed(v)
  BY DEF Set
<1>3. WellFormed(LcSet(lc, v, b))
  BY <1>1, SetFacts
<1>4. /\ Ordered(lc'.OrderedVsList, lastUse')
      /\ \A u \in lc.versionsMap \ lc'.versionsMap :
           \A w \in lc'.versionsMap : lastUse'[u] < lastUse'[w]
  <2>1. CASE v \in lc.versionsMap
    BY <1>1, <1>2, <2>1, SetOldFacts, MovedOrdered
  <2>2. CASE v \notin lc.versionsMap
    <3> DEFINE l == lc.OrderedVsList
               n == Len(l)
               new == [versionsMap   |-> lc.versionsMap \cup {v},
                       OrderedVsList |-> PushFront(l, [version |-> v, vehicle_signals |-> b])]
               p == new.OrderedVsList
               k == Len(lc'.OrderedVsList)
    <3>1. lc' = evict(new)
      BY <1>2, <2>2 DEF LcSet
    <3> HIDE DEF new
    <3>2. /\ Linked(new)
          /\ new.versionsMap = lc.versionsMap \cup {v}
          /\ Len(p) = n + 1 /\ p[1].version = v
          /\ \A j \in 1..n : p[j + 1] = l[j]
      BY <1>1, <2>2, PushedLinked DEF new, WellFormed
    <3>3. /\ n \in Nat
          /\ Capacity # noCapacityLimit => n <= (IF Capacity > 0 THEN Capacity ELSE 0)
          /\ \A i \in 1..n : l[i].version \in Versions \ {v}
      BY <1>1, <2>2, IInvParts DEF WellFormed, Linked, MapMatchesList, WithinCapacity
    <3>4. /\ Len(p) >= 1
          /\ Capacity # noCapacityLimit => Len(p) <= (IF Capacity > 0 THEN Capacity ELSE 0) + 1
      BY <3>2, <3>3, CapacityAssumption
    <3>5. /\ k <= Len(p)
          /\ \A j \in 1..k : lc'.OrderedVsList[j] = p[j]
          /\ \A u \in new.versionsMap \ lc'.versionsMap :
               u = p[Len(p)].version /\ k = Len(p) - 1
      BY <3>1, <3>2, <3>4, EvictFacts
    <3>6. /\ \A w \in Versions : w # v => lastUse'[w] = lastUse[w] /\ lastUse'[w] < lastUse'[v]
          /\ lastUse' \in [Versions -> Nat]
      BY <1>2, AccessedFacts
    <3>7. k \in Nat /\ Linked(lc')
      BY <1>2, <1>3, CacheParts DEF WellFormed, Linked
    <3> HIDE DEF p, k, l, n
    <3>8. ASSUME NEW i \in 1..(n + 1), NEW j \in 1..(n + 1), i < j
          PROVE  lastUse'[p[i].version] > lastUse'[p[j].version]
      <4>1. j - 1 \in 1..n /\ p[j] = l[j - 1]
        <5>1. j - 1 \in 1..n /\ (j - 1) + 1 = j
          BY <3>3, <3>8
        <5> QED
          BY <3>2, <5>1
      <4>2. l[j - 1].version \in Versions \ {v}
        BY <3>3, <4>1
      <4>3. CASE i = 1
        BY <3>2, <3>6, <4>1, <4>2, <4>3
      <4>4. CASE i # 1
        <5>1. i - 1 \in 1..n /\ (i - 1) + 1 = i /\ i - 1 < j - 1
          BY <3>3, <3>8, <4>4
        <5>2. p[i] = l[i - 1] /\ l[i - 1].version \in Versions \ {v}
          BY <3>2, <3>3, <5>1
        <5>3. lastUse[l[i - 1].version] > lastUse[l[j - 1].version]
          BY <1>1, <4>1, <5>1 DEF Ordered, l, n
        <5> QED
          BY <3>6, <4>1, <4>2, <5>2, <5>3
      <4> QED
        BY <4>3, <4>4
    <3>9. Ordered(lc'.OrderedVsList, lastUse')
      BY <3>2, <3>3, <3>5, <3>7, <3>8 DEF Ordered, k
    <3>10. ASSUME NEW u \in lc.versionsMap \ lc'.versionsMap, NEW w \in lc'.versionsMap
           PROVE  lastUse'[u] < lastUse'[w]
      <4>1. u = p[n + 1].version /\ k = n
        BY <3>2, <3>3, <3>5
      <4>2. PICK i \in 1..k : lc'.OrderedVsList[i].version = w
        BY <3>7 DEF Linked, MapMatchesList, k
      <4>3. i \in 1..(n + 1) /\ n + 1 \in 1..(n + 1) /\ i < n + 1 /\ p[i].version = w
        BY <3>3, <3>5, <4>1, <4>2
      <4>4. lastUse'[p[i].version] > lastUse'[p[n + 1].version]
        BY <3>8, <4>3
      <4>5. u \in Versions /\ w \in Versions
        BY <1>1, <3>7, CacheParts DEF WellFormed, Linked
      <4> QED
        BY <3>6, <4>1, <4>3, <4>4, <4>5
    <3> QED
      BY <3>9, <3>10
  <2> QED
    BY <2>1, <2>2
<1>5. TypeOK' /\ \A w \in Versions : lastUse'[w] <= uses'
  BY <1>2, <1>3, AccessedFacts DEF TypeOK, WellFormed, Linked
<1> QED
  BY <1>2, <1>3, <1>4, <1>5
     DEF IInv, Consistent, Bounded, OrderedByLastUse, Ordered, WellFormed, Linked

(* Delete *)
LEMMA DeleteOK ==
  ASSUME IInv, NEW v \in Versions, Delete(v)
  PROVE  IInv' /\ uses' = uses
<1>1. /\ WellFormed(lc) /\ Ordered(lc.OrderedVsList, lastUse)
      /\ Len(lc.OrderedVsList) \in Nat
  BY IInvParts
<1>2. lc' = LcAfterDelete(lc, v) /\ uses' = uses /\ lastUse' = lastUse
  BY DEF Delete
<1>3. WellFormed(LcAfterDelete(lc, v))
  BY <1>1, AfterDeleteFacts
<1>4. Ordered(lc'.OrderedVsList, lastUse')
  <2>1. CASE lc' = lc
    BY <1>1, <1>2, <2>1
  <2>2. CASE lc' # lc
    <3>1. PICK e \in 1..Len(lc.OrderedVsList) :
            /\ Len(lc'.OrderedVsList) = Len(lc.OrderedVsList) - 1
            /\ \A j \in 1..Len(lc'.OrderedVsList) :
                 lc'.OrderedVsList[j] = lc.OrderedVsList[Kept(e, j)]
      BY <1>1, <1>2, <2>2, AfterDeleteFacts
    <3>2. ASSUME NEW i \in 1..Len(lc'.OrderedVsList), NEW j \in 1..Len(lc'.OrderedVsList), i < j
          PROVE  /\ Kept(e, i) \in 1..Len(lc.OrderedVsList)
                 /\ Kept(e, j) \in 1..Len(lc.OrderedVsList)
                 /\ Kept(e, i) < Kept(e, j)
      BY <1>1, <3>1, <3>2 DEF Kept
    <3> QED
      BY <1>1, <1>2, <3>1, <3>2 DEF Ordered
  <2> QED
    BY <2>1, <2>2
<1> QED
  BY <1>2, <1>3, <1>4
     DEF IInv, TypeOK, Consistent, Bounded, OrderedByLastUse, Ordered, WellFormed, Linked

LEMMA NextOK == IInv /\ [Next]_vars => IInv'
<1> SUFFICES ASSUME IInv, [Next]_vars PROVE IInv'
  OBVIOUS
<1>1. CASE UNCHANGED vars
  BY <1>1 DEF vars, IInv, TypeOK, Consistent, Bounded, OrderedByLastUse
<1>2. CASE Next
  BY <1>2, GetOK, SetOK, DeleteOK DEF Next
<1> QED
  BY <1>1, <1>2

(* IInv holds in every reachable state. *)
THEOREM Invariance == Spec => []IInv
  BY InitOK, NextOK, PTL DEF Spec

(* The fields keep their types whatever methods are called. *)
THEOREM TypeCorrect == Spec => []TypeOK
<1>1. IInv => TypeOK
  BY DEF IInv
<1> QED
  BY <1>1, Invariance, PTL

(* versionsMap and OrderedVsList always agree: Get, Set, Delete and evict
   never leave a map key without a list element or the other way round. *)
THEOREM AlwaysConsistent == Spec => []Consistent
<1>1. IInv => Consistent
  BY DEF IInv
<1> QED
  BY <1>1, Invariance, PTL

(* The cache stays within its capacity, whatever integer that is: evicting one
   entry per new version is enough. *)
THEOREM AlwaysBounded == Spec => []Bounded
<1>1. IInv => Bounded
  BY DEF IInv
<1> QED
  BY <1>1, Invariance, PTL

(* OrderedVsList is in the order of the last accesses. *)
THEOREM AlwaysOrdered == Spec => []OrderedByLastUse
<1>1. IInv => OrderedByLastUse
  BY DEF IInv
<1> QED
  BY <1>1, Invariance, PTL

(* An entry that Set evicts was used before all that stay. *)
THEOREM EvictionIsLRU == Spec => EvictsLeastRecentlyUsed
<1> DEFINE Good == \A v \in lc.versionsMap :
                     (v \notin lc'.versionsMap /\ uses' # uses)
                       => \A w \in lc'.versionsMap : lastUse'[v] < lastUse'[w]
<1>1. IInv /\ [Next]_vars => [Good]_vars
  <2> SUFFICES ASSUME IInv, Next PROVE Good
    OBVIOUS
  <2>1. ASSUME NEW v \in Versions, Get(v) PROVE Good
    BY <2>1, GetOK
  <2>2. ASSUME NEW v \in Versions, NEW b \in Bytes, Set(v, b) PROVE Good
    BY <2>2, SetOK
  <2>3. ASSUME NEW v \in Versions, Delete(v) PROVE Good
    BY <2>3, DeleteOK
  <2> QED
    BY <2>1, <2>2, <2>3 DEF Next
<1> QED
  BY <1>1, Invariance, PTL DEF Spec, EvictsLeastRecentlyUsed
=============================================================================
