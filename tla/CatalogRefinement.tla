--------------------------- MODULE CatalogRefinement ---------------------------
(***************************************************************************)
(* A cache with one store - Redis alone behind any number of replicas, or  *)
(* the LocalCache of a single process - implements CatalogStore.  (With    *)
(* both enabled it does not: see DeletedIsGone and UpdatedEverywhere.)     *)
(***************************************************************************)
EXTENDS CatalogCache

\* The one store holds this.
StoredCatalog ==
  IF EnableRedCache THEN redis
  ELSE LET r == CHOOSE r \in Replicas : TRUE
       IN  [v \in Versions |-> IF Holds(r, v) THEN Copy(r, v) ELSE Absent]

\* A request that changed Redis has only to report it.
PastRedis(c) == EnableRedCache /\ c.pc \in {"localset", "localdel"}

CallState(c) ==
  CASE c.pc = "idle"                   -> "idle"
    [] c.pc = "done" \/ PastRedis(c)   -> "done"
    [] OTHER                           -> "pending"

CallAnswer(c) ==
  IF ~PastRedis(c) THEN c.answer
  ELSE IF c.pc = "localset" \/ c.deleted THEN "ok" ELSE "notfound"

CallOf(c) ==
  [state |-> CallState(c), op |-> c.op, version |-> c.version, bytes |-> c.bytes,
   answer |-> CallAnswer(c)]

Calls == [q \in Requests |-> CallOf(req[q])]

Store == INSTANCE CatalogStore
           WITH catalog <- StoredCatalog,
                call    <- Calls,
                Lossy   <- ~EnableRedCache /\ (Capacity # noCapacityLimit \/ MaxFaults > 0)

(* Every answer of the single-store configurations is one an atomic catalog
   store could give at some instant between call and answer, whatever
   handlers, replicas, WATCH conflicts, lost replies and crashes come in
   between. *)
ImplementsCatalogStore == Store!Spec
=============================================================================
