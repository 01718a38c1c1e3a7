---------------------------- MODULE LocalCacheOps ----------------------------
(***************************************************************************)
(* The data structure of LocalCache (mcg/vs_cache/vs_cache_local.go): the  *)
(* map from catalog versions to list elements, the list of entries ordered *)
(* by last access, and what each method does to the two under the mutex.   *)
(*                                                                         *)
(* A cache is a value `lc`, so that the module of one cache (LocalCache)   *)
(* and the module of many replicas (CatalogCache) share the operations.    *)
(* The mutex is taken first and released last by every method, so a method *)
(* is one indivisible step of whoever calls it.                            *)
(***************************************************************************)
EXTENDS Integers, Sequences

CONSTANTS
  Versions,   \* catalog version identifiers
  Bytes,      \* the serialized catalogs a client may store
  NilBytes,   \* Go's nil slice: what Get returns for a missing version, and
              \* what a request body without "vehicle_signals" decodes to
  Capacity    \* MCG_LOCALCACHE_CAP as strconv.Atoi reads it: any integer

\* main.go:117-124 passes on whatever integer the environment holds; a
\* negative capacity is not rejected.
ASSUME CapacityAssumption == Capacity \in Int

noCapacityLimit == 0

(***************************************************************************)
(* `versionsMap` is the set of keys of the Go map; the element a key       *)
(* points to is the one that carries the key (see ElementOf).  The front   *)
(* of OrderedVsList is position 1.                                         *)
(***************************************************************************)
Entry == [version : Versions, vehicle_signals : Bytes]

LocalCacheType == [versionsMap : SUBSET Versions, OrderedVsList : Seq(Entry)]

NewLocalCache == [versionsMap |-> {}, OrderedVsList |-> << >>]

-----------------------------------------------------------------------------
(* container/list, as vs_cache_local.go uses it. *)

PushFront(l, e) ==
  [j \in 1..(Len(l) + 1) |-> IF j = 1 THEN e ELSE l[j - 1]]

Remove(l, i) ==
  [j \in 1..(Len(l) - 1) |-> IF j < i THEN l[j] ELSE l[j + 1]]

MoveToFront(l, i) ==
  [j \in 1..Len(l) |-> IF j = 1 THEN l[i] ELSE IF j <= i THEN l[j - 1] ELSE l[j]]

\* The position of the element that versionsMap[version] points to.
ElementOf(lc, version) ==
  CHOOSE i \in 1..Len(lc.OrderedVsList) :
    lc.OrderedVsList[i].version = version

-----------------------------------------------------------------------------
(* The methods.  Get and Delete have a result and an effect. *)

\* Mutant: Get does not refresh the entry.
LcAfterGetInPlace(lc, version) == lc

\* The entry moves to the front; a miss changes nothing.
LcAfterGet(lc, version) ==
  IF version \in lc.versionsMap
  THEN [lc EXCEPT !.OrderedVsList = MoveToFront(@, ElementOf(lc, version))]
  ELSE lc

LcGet(lc, version) ==
  IF version \in lc.versionsMap
  THEN lc.OrderedVsList[ElementOf(lc, version)].vehicle_signals
  ELSE NilBytes

\* Mutant: off by one.
evictTooLate(lc) ==
  LET n == Len(lc.OrderedVsList)
  IN  IF Capacity # noCapacityLimit /\ n > Capacity + 1
      THEN [versionsMap   |-> lc.versionsMap \ {lc.OrderedVsList[n].version},
            OrderedVsList |-> Remove(lc.OrderedVsList, n)]
      ELSE lc

\* At most one entry leaves, from the back; the new entry itself when the
\* capacity is negative.
evict(lc) ==
  LET n == Len(lc.OrderedVsList)
  IN  IF Capacity # noCapacityLimit /\ n > Capacity
      THEN [versionsMap   |-> lc.versionsMap \ {lc.OrderedVsList[n].version},
            OrderedVsList |-> Remove(lc.OrderedVsList, n)]
      ELSE lc

\* Mutant: Set overwrites an entry where it is.
LcSetInPlace(lc, version, vehicle_signals) ==
  IF version \in lc.versionsMap
  THEN [lc EXCEPT !.OrderedVsList[ElementOf(lc, version)].vehicle_signals = vehicle_signals]
  ELSE evict([versionsMap   |-> lc.versionsMap \cup {version},
              OrderedVsList |-> PushFront(lc.OrderedVsList,
                                          [version         |-> version,
                                           vehicle_signals |-> vehicle_signals])])

\* Mutant: a new entry is made without its value.
LcSetUnfilled(lc, version, vehicle_signals) ==
  IF version \in lc.versionsMap
  THEN LET moved == MoveToFront(lc.OrderedVsList, ElementOf(lc, version))
       IN  [lc EXCEPT !.OrderedVsList =
                        [moved EXCEPT ![1].vehicle_signals = vehicle_signals]]
  ELSE evict([versionsMap   |-> lc.versionsMap \cup {version},
              OrderedVsList |-> PushFront(lc.OrderedVsList,
                                          [version         |-> version,
                                           vehicle_signals |-> NilBytes])])

LcSet(lc, version, vehicle_signals) ==
  IF version \in lc.versionsMap
  THEN LET moved == MoveToFront(lc.OrderedVsList, ElementOf(lc, version))
       IN  [lc EXCEPT !.OrderedVsList =
                        [moved EXCEPT ![1].vehicle_signals = vehicle_signals]]
  ELSE evict([versionsMap   |-> lc.versionsMap \cup {version},
              OrderedVsList |-> PushFront(lc.OrderedVsList,
                                          [version         |-> version,
                                           vehicle_signals |-> vehicle_signals])])

LcDeleted(lc, version) == version \in lc.versionsMap

\* Mutant: the list element stays.
LcAfterDeleteMapOnly(lc, version) == [lc EXCEPT !.versionsMap = @ \ {version}]

LcAfterDelete(lc, version) ==
  IF version \in lc.versionsMap
  THEN [versionsMap   |-> lc.versionsMap \ {version},
        OrderedVsList |-> Remove(lc.OrderedVsList, ElementOf(lc, version))]
  ELSE lc

-----------------------------------------------------------------------------
(***************************************************************************)
(* What every method relies on when it follows a pointer of the map into   *)
(* the list or drops the entry of a list element from the map.             *)
(***************************************************************************)

\* The map has exactly the versions of the list, each in one element.
MapMatchesList(lc) ==
  /\ lc.versionsMap = {lc.OrderedVsList[i].version : i \in 1..Len(lc.OrderedVsList)}
  /\ \A i, j \in 1..Len(lc.OrderedVsList) :
       lc.OrderedVsList[i].version = lc.OrderedVsList[j].version => i = j

\* A limited cache holds no more than its capacity, and nothing at all when
\* the capacity is negative.
WithinCapacity(lc) ==
  Capacity # noCapacityLimit =>
    Len(lc.OrderedVsList) <= (IF Capacity > 0 THEN Capacity ELSE 0)
=============================================================================
