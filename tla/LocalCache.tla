------------------------------ MODULE LocalCache ------------------------------
(***************************************************************************)
(* One LocalCache (mcg/vs_cache/vs_cache_local.go) as request handlers and *)
(* notification goroutines use it: any method, on any version, in any      *)
(* order, each one under the mutex.                                        *)
(***************************************************************************)
EXTENDS LocalCacheOps

CONSTANT MaxUses    \* bound on the number of accesses that are explored

VARIABLES
  lc,        \* the cache
  uses,      \* how many accesses were made (history)
  lastUse    \* lastUse[v]: number of the last access to v, 0 for none (history)

vars == <<lc, uses, lastUse>>

TypeOK ==
  /\ lc \in LocalCacheType
  /\ uses \in Nat
  /\ lastUse \in [Versions -> Nat]

Init ==
  /\ lc = NewLocalCache
  /\ uses = 0
  /\ lastUse = [v \in Versions |-> 0]

Accessed(v) ==
  /\ uses < MaxUses
  /\ uses' = uses + 1
  /\ lastUse' = [lastUse EXCEPT ![v] = uses + 1]

Get(v) ==
  /\ lc' = LcAfterGet(lc, v)
  /\ Accessed(v)

Set(v, b) ==
  /\ lc' = LcSet(lc, v, b)
  /\ Accessed(v)

\* A handler's DELETE, or the invalidation of a notification.
Delete(v) ==
  /\ lc' = LcAfterDelete(lc, v)
  /\ UNCHANGED <<uses, lastUse>>

Next ==
  \E v \in Versions :
    \/ Get(v)
    \/ \E b \in Bytes : Set(v, b)
    \/ Delete(v)

Spec == Init /\ [][Next]_vars

-----------------------------------------------------------------------------
(* Every pointer of versionsMap leads to the list element of its version and
   every element is reachable from the map, whatever methods ran. *)
Consistent == MapMatchesList(lc)

(* The cache never outgrows its capacity, whatever integer was configured. *)
Bounded == WithinCapacity(lc)

(* The list is ordered by last access, front to back, so what evict takes
   from the back is the entry that was left alone the longest. *)
OrderedByLastUse ==
  \A i, j \in 1..Len(lc.OrderedVsList) :
    i < j => lastUse[lc.OrderedVsList[i].version] > lastUse[lc.OrderedVsList[j].version]

(* No access drops the entry of a version that was used more recently than
   one it keeps: an entry that leaves the cache during a Set was the least
   recently used one. *)
EvictsLeastRecentlyUsed ==
  [][ \A v \in lc.versionsMap :
        (v \notin lc'.versionsMap /\ uses' # uses)
          => \A w \in lc'.versionsMap : lastUse'[v] < lastUse'[w] ]_vars

(* The inductive invariant behind Consistent, Bounded and OrderedByLastUse:
   the order is kept because no version was accessed later than now. *)
IInv ==
  /\ TypeOK
  /\ Consistent
  /\ Bounded
  /\ OrderedByLastUse
  /\ \A v \in Versions : lastUse[v] <= uses

=============================================================================
