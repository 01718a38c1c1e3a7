----------------------------- MODULE CatalogCache -----------------------------
(***************************************************************************)
(* The vehicle signal catalog cache of MCG (mcg/vs_cache) as a set of      *)
(* service replicas that share one Redis.  Every replica has request       *)
(* handlers (POST /vs, DELETE /vs/{version}, the catalog lookup of the     *)
(* compile endpoints) that run concurrently, an optional LocalCache, and   *)
(* one goroutine that receives Redis keyspace notifications and            *)
(* invalidates the LocalCache.                                             *)
(*                                                                         *)
(* One step is one Redis command (or the MULTI/EXEC block, which Redis     *)
(* runs as one) or one LocalCache method: between two of them any other    *)
(* handler, goroutine or replica may run.  With EnableRedCache false there *)
(* is no Redis, with EnableLocalCache false no LocalCache: the four        *)
(* configurations of NewCache.                                             *)
(***************************************************************************)
EXTENDS LocalCacheOps, FiniteSets

CONSTANTS
  Replicas,          \* service processes
  Requests,          \* request slots: how many requests are open at a time
  BadBytes,          \* catalogs that do not parse as a FileDescriptorSet
  Absent,            \* no such key in Redis
  NoVersion,         \* no notification is being handled
  EnableLocalCache,
  EnableRedCache,
  IsRedisCluster,    \* Redis is a cluster, not one server
  Ops,               \* what clients ask for: subset of {"set", "delete", "get"}
  SerialSets,        \* TRUE: clients never overlap two POSTs of one version
  MaxRequests,       \* bound on the number of requests
  MaxFaults          \* bound on lost connections, lost replies and crashes

ASSUME ConfigAssumption ==
  /\ EnableLocalCache \in BOOLEAN
  /\ EnableRedCache \in BOOLEAN
  /\ IsRedisCluster \in BOOLEAN
  /\ SerialSets \in BOOLEAN
  /\ Ops \subseteq {"set", "delete", "get"}

ASSUME BytesAssumption ==
  /\ Absent \notin Bytes \cup {NilBytes}
  /\ BadBytes \cap Bytes = {}
  /\ {"ok", "notfound", "error", "none"} \cap Bytes = {}
  /\ NoVersion \notin Versions

ASSUME BoundsAssumption == MaxRequests \in Nat /\ MaxFaults \in Nat

VARIABLES
  redis,         \* redis[v]: value of the key sdv:vehicle_signal:{v}
  writer,        \* writer[v]: client id under sdv:vehicle_signal_writer:{v},
                 \* 0 when the key does not exist
  up,            \* replicas that run
  lc,            \* lc[r]: the LocalCache of r
  clientId,      \* clientId[r]: RedisCache.ClientId of r
  nextId,        \* no connection has had this id or a higher one
  subscribed,    \* replicas whose PSUBSCRIBE is in force
  events,        \* events[r]: notifications r has not handled, oldest first
  invalidating,  \* the version r is about to drop from its LocalCache
  req,           \* req[q]: the request in slot q
  committed,     \* committed[v]: all values Redis ever had for v (history)
  issued,        \* requests so far
  faults         \* faults so far

redisVars   == <<redis, writer, committed>>
replicaVars == <<up, lc, clientId, nextId, subscribed>>
notifyVars  == <<events, invalidating>>
boundVars   == <<issued, faults>>
vars == <<redisVars, replicaVars, notifyVars, req, boundVars>>

IsActive == EnableLocalCache \/ EnableRedCache
Notifies == EnableLocalCache /\ EnableRedCache

\* The HTTP answer: a catalog, or what became of the request.
Answers == Bytes \cup {"ok", "notfound", "error", "none"}

Request ==
  [pc : {"idle", "check", "watch", "exec", "localset", "del", "localdel",
         "localget", "redisget", "done"},
   op : Ops \cup {"none"}, at : Replicas \cup {NoVersion},
   version : Versions \cup {NoVersion}, bytes : Bytes \cup BadBytes \cup {Absent},
   dirty : BOOLEAN, deleted : BOOLEAN, answer : Answers]

Idle == [pc |-> "idle", op |-> "none", at |-> NoVersion, version |-> NoVersion,
         bytes |-> Absent, dirty |-> FALSE, deleted |-> FALSE, answer |-> "none"]

TypeOK ==
  /\ redis \in [Versions -> Bytes \cup {Absent}]
  /\ writer \in [Versions -> Nat]
  /\ up \subseteq Replicas
  /\ lc \in [Replicas -> LocalCacheType]
  /\ clientId \in [Replicas -> Nat]
  /\ nextId \in Nat
  /\ subscribed \subseteq up
  /\ events \in [Replicas -> Seq(Versions)]
  /\ invalidating \in [Replicas -> Versions \cup {NoVersion}]
  /\ req \in [Requests -> Request]
  /\ committed \in [Versions -> SUBSET Bytes]
  /\ issued \in Nat
  /\ faults \in Nat

Init ==
  /\ redis = [v \in Versions |-> Absent]
  /\ writer = [v \in Versions |-> 0]
  /\ up = {}
  /\ lc = [r \in Replicas |-> NewLocalCache]
  /\ clientId = [r \in Replicas |-> 0]
  /\ nextId = 1
  /\ subscribed = {}
  /\ events = [r \in Replicas |-> << >>]
  /\ invalidating = [r \in Replicas |-> NoVersion]
  /\ req = [q \in Requests |-> Idle]
  /\ committed = [v \in Versions |-> {}]
  /\ issued = 0
  /\ faults = 0

Fault == faults < MaxFaults /\ faults' = faults + 1

-----------------------------------------------------------------------------
(* Redis: what the commands of vs_cache_redis.go do on the server. *)

\* A keyspace event for v reaches the subscribed replicas, and no one else
\* ever: publish/subscribe keeps nothing for a client that is away.
Publish(v) ==
  events' = [r \in Replicas |-> IF r \in subscribed THEN Append(events[r], v)
                                                    ELSE events[r]]

\* The version key changed: transactions that WATCH it will fail.  The
\* request in slot q goes on as `next`.
Touch(v, q, next) ==
  req' = [p \in Requests |->
            IF p = q THEN next
            ELSE IF req[p].pc = "exec" /\ req[p].version = v
                 THEN [req[p] EXCEPT !.dirty = TRUE]
                 ELSE req[p]]

-----------------------------------------------------------------------------
(* Life of a replica. *)

\* What CLIENT ID may answer.  A server numbers its connections; the nodes of
\* a cluster number theirs independently, and the client asks any of them.
FreshIds == IF IsRedisCluster THEN 1..nextId ELSE {nextId}

\* Mutant: start-up fails after PSUBSCRIBE and does not cancel it.
NewCacheLeaking(r) ==
  /\ Notifies
  /\ r \notin up
  /\ \E id \in FreshIds : clientId' = [clientId EXCEPT ![r] = id]
  /\ nextId' = nextId + 1
  /\ subscribed' = subscribed \cup {r}
  /\ UNCHANGED <<redisVars, up, lc, notifyVars, req, boundVars>>

\* NewCache.  With both caches enabled SetupNotifications takes the id of the
\* connection as ClientId and sends PSUBSCRIBE without waiting for the answer:
\* requests may come in before the subscription is in force.
NewCache(r) ==
  /\ r \notin up
  /\ up' = up \cup {r}
  /\ lc' = [lc EXCEPT ![r] = NewLocalCache]
  /\ IF Notifies
     THEN /\ \E id \in FreshIds : clientId' = [clientId EXCEPT ![r] = id]
          /\ nextId' = nextId + 1
          /\ \/ subscribed' = subscribed \cup {r} /\ UNCHANGED faults
             \/ subscribed' = subscribed /\ Fault
     ELSE UNCHANGED <<clientId, nextId, subscribed, faults>>
  /\ UNCHANGED <<redisVars, notifyVars, req, issued>>

\* The subscription connection breaks; go-redis subscribes again later.
Disconnect(r) ==
  /\ r \in subscribed
  /\ subscribed' = subscribed \ {r}
  /\ Fault
  /\ UNCHANGED <<redisVars, up, lc, clientId, nextId, notifyVars, req, issued>>

Resubscribe(r) ==
  /\ Notifies
  /\ r \in up \ subscribed
  /\ subscribed' = subscribed \cup {r}
  /\ UNCHANGED <<redisVars, up, lc, clientId, nextId, notifyVars, req, boundVars>>

\* The process dies with everything in its memory.
Crash(r) ==
  /\ r \in up
  /\ Fault
  /\ up' = up \ {r}
  /\ subscribed' = subscribed \ {r}
  /\ lc' = [lc EXCEPT ![r] = NewLocalCache]
  /\ events' = [events EXCEPT ![r] = << >>]
  /\ invalidating' = [invalidating EXCEPT ![r] = NoVersion]
  /\ req' = [q \in Requests |-> IF req[q].at = r THEN Idle ELSE req[q]]
  /\ UNCHANGED <<redisVars, clientId, nextId, issued>>

-----------------------------------------------------------------------------
(* Requests. *)

FirstStep(op) ==
  CASE op = "set"    -> "check"
    [] op = "delete" -> IF EnableRedCache THEN "del" ELSE "localdel"
    [] op = "get"    -> IF EnableLocalCache THEN "localget" ELSE "redisget"

\* Environment: a client sends a request to some replica.  Without any cache
\* the answer is the NoCache error.
Invoke(q, r, op, v, b) ==
  /\ req[q].pc = "idle"
  /\ r \in up
  /\ issued < MaxRequests
  /\ op # "set" => b = Absent
  /\ op = "set" => b \in Bytes \cup BadBytes
  /\ (SerialSets /\ op = "set") =>
       \A p \in Requests :
         req[p].op = "set" /\ req[p].version = v => req[p].pc = "done"
  /\ req' = [req EXCEPT ![q] =
               [Idle EXCEPT !.pc = IF IsActive THEN FirstStep(op) ELSE "done",
                            !.answer = IF IsActive THEN "none" ELSE "error",
                            !.op = op, !.at = r, !.version = v, !.bytes = b]]
  /\ issued' = issued + 1
  /\ UNCHANGED <<redisVars, replicaVars, notifyVars, faults>>

Answered(q, a) == [req[q] EXCEPT !.pc = "done", !.answer = a]

\* The client has the answer; the slot is free.
Return(q) ==
  /\ req[q].pc = "done"
  /\ req' = [req EXCEPT ![q] = Idle]
  /\ UNCHANGED <<redisVars, replicaVars, notifyVars, boundVars>>

\* A Redis command fails before it has an effect: the caller returns the
\* error at once.
RedisError(q) ==
  /\ req[q].pc \in {"watch", "exec", "del", "redisget"}
  /\ Fault
  /\ req' = [req EXCEPT ![q] = Answered(q, "error")]
  /\ UNCHANGED <<redisVars, replicaVars, notifyVars, issued>>

-----------------------------------------------------------------------------
(* Cache.Set, from HandleSignalAdd. *)

\* A catalog that does not parse is refused before any store is touched.
CheckBytes(q) ==
  /\ req[q].pc = "check"
  /\ req' = [req EXCEPT ![q] =
               IF req[q].bytes \in BadBytes THEN Answered(q, "error")
               ELSE [@ EXCEPT !.pc = IF EnableRedCache THEN "watch" ELSE "localset"]]
  /\ UNCHANGED <<redisVars, replicaVars, notifyVars, boundVars>>

RedisWatch(q) ==
  /\ req[q].pc = "watch"
  /\ req' = [req EXCEPT ![q].pc = "exec"]
  /\ UNCHANGED <<redisVars, replicaVars, notifyVars, boundVars>>

\* Mutant: the failed transaction goes unnoticed.
RedisExecConflictIgnored(q) ==
  /\ req[q].pc = "exec"
  /\ req[q].dirty
  /\ req' = [req EXCEPT ![q].pc = "localset"]
  /\ UNCHANGED <<redisVars, replicaVars, notifyVars, boundVars>>

\* A watched key changed since WATCH: EXEC does nothing, and the TxFailedErr
\* goes back to the client; there is no retry.
RedisExecConflict(q) ==
  /\ req[q].pc = "exec"
  /\ req[q].dirty
  /\ req' = [req EXCEPT ![q] = Answered(q, "error")]
  /\ UNCHANGED <<redisVars, replicaVars, notifyVars, boundVars>>

\* MULTI; SET writer key; SET version key; EXEC.  The event of the writer key
\* does not match the pattern of the subscriptions.
ExecWrites(q) ==
  LET v == req[q].version
  IN  /\ req[q].pc = "exec"
      /\ ~req[q].dirty
      /\ redis' = [redis EXCEPT ![v] = req[q].bytes]
      /\ writer' = [writer EXCEPT ![v] = clientId[req[q].at]]
      /\ committed' = [committed EXCEPT ![v] = @ \cup {req[q].bytes}]
      /\ Publish(v)
      /\ UNCHANGED <<replicaVars, invalidating, issued>>

RedisExec(q) ==
  /\ ExecWrites(q)
  /\ Touch(req[q].version, q, [req[q] EXCEPT !.pc = "localset"])
  /\ UNCHANGED faults

\* The transaction took place and the connection broke before the reply: Set
\* returns the error and skips the LocalCache.
RedisExecReplyLost(q) ==
  /\ ExecWrites(q)
  /\ Touch(req[q].version, q, Answered(q, "error"))
  /\ Fault

LocalSet(q) ==
  LET r == req[q].at
  IN  /\ req[q].pc = "localset"
      /\ lc' = IF EnableLocalCache
               THEN [lc EXCEPT ![r] = LcSet(@, req[q].version, req[q].bytes)]
               ELSE lc
      /\ req' = [req EXCEPT ![q] = Answered(q, "ok")]
      /\ UNCHANGED <<redisVars, up, clientId, nextId, subscribed, notifyVars, boundVars>>

-----------------------------------------------------------------------------
(* Cache.Delete, from HandleSignalDelete. *)

\* DEL of the version key, which exists; the writer key stays.  The request
\* goes on as `next`.
DelRemoves(q, next) ==
  LET v == req[q].version
  IN  /\ req[q].pc = "del"
      /\ redis[v] # Absent
      /\ redis' = [redis EXCEPT ![v] = Absent]
      /\ Publish(v)
      /\ Touch(v, q, next)
      /\ UNCHANGED <<writer, committed, replicaVars, invalidating, issued>>

RedisDel(q) ==
  /\ DelRemoves(q, [req[q] EXCEPT !.pc = "localdel", !.deleted = TRUE])
  /\ UNCHANGED faults

\* Mutant: `deletedCount >= 0`.
RedisDelNothingDeleted(q) ==
  /\ req[q].pc = "del"
  /\ redis[req[q].version] = Absent
  /\ req' = [req EXCEPT ![q].pc = "localdel", ![q].deleted = TRUE]
  /\ UNCHANGED <<redisVars, replicaVars, notifyVars, boundVars>>

\* Mutant: a DEL that removed nothing is tried again.
RedisDelNothingRetried(q) ==
  /\ req[q].pc = "del"
  /\ redis[req[q].version] = Absent
  /\ UNCHANGED vars

RedisDelNothing(q) ==
  /\ req[q].pc = "del"
  /\ redis[req[q].version] = Absent
  /\ req' = [req EXCEPT ![q].pc = "localdel"]
  /\ UNCHANGED <<redisVars, replicaVars, notifyVars, boundVars>>

\* The key is gone but the reply is lost: go-redis sends the DEL again.
RedisDelReplyLost(q) ==
  /\ DelRemoves(q, req[q])
  /\ Fault

\* `deleted = deleted || ca.LocCache.Delete(key)`: Go does not evaluate the
\* right operand when Redis had the key.
LocalDelete(q) ==
  LET r == req[q].at
      v == req[q].version
      evaluated == EnableLocalCache /\ ~req[q].deleted
      deleted == req[q].deleted \/ (evaluated /\ LcDeleted(lc[r], v))
  IN  /\ req[q].pc = "localdel"
      /\ lc' = IF evaluated THEN [lc EXCEPT ![r] = LcAfterDelete(@, v)] ELSE lc
      /\ req' = [req EXCEPT ![q] = Answered(q, IF deleted THEN "ok" ELSE "notfound")]
      /\ UNCHANGED <<redisVars, up, clientId, nextId, subscribed, notifyVars, boundVars>>

-----------------------------------------------------------------------------
(* Cache.Get.  What Redis returns is not put into the LocalCache. *)

Found(bytes) == IF bytes \in {NilBytes, Absent} THEN "notfound" ELSE bytes

LocalGet(q) ==
  LET r == req[q].at
      got == LcGet(lc[r], req[q].version)
  IN  /\ req[q].pc = "localget"
      /\ lc' = [lc EXCEPT ![r] = LcAfterGet(@, req[q].version)]
      /\ req' = [req EXCEPT ![q] =
                   IF got = NilBytes /\ EnableRedCache THEN [@ EXCEPT !.pc = "redisget"]
                   ELSE Answered(q, Found(got))]
      /\ UNCHANGED <<redisVars, up, clientId, nextId, subscribed, notifyVars, boundVars>>

RedisGet(q) ==
  /\ req[q].pc = "redisget"
  /\ req' = [req EXCEPT ![q] = Answered(q, Found(redis[req[q].version]))]
  /\ UNCHANGED <<redisVars, replicaVars, notifyVars, boundVars>>

-----------------------------------------------------------------------------
(* The notification goroutine of SetupNotifications. *)

\* Mutant: the comparison of the ids is the wrong way round.
ReadWriterIdInverted(r) ==
  /\ invalidating[r] = NoVersion
  /\ events[r] # << >>
  /\ events' = [events EXCEPT ![r] = Tail(@)]
  /\ LET v == Head(events[r])
     IN  invalidating' = [invalidating EXCEPT ![r] =
                            IF writer[v] = clientId[r] THEN v ELSE NoVersion]
  /\ UNCHANGED <<redisVars, replicaVars, req, boundVars>>

\* Takes the next notification and GETs the writer key, which by now may name
\* a later writer than the one the notification is about.  The same client:
\* nothing to do.
ReadWriterId(r) ==
  /\ invalidating[r] = NoVersion
  /\ events[r] # << >>
  /\ events' = [events EXCEPT ![r] = Tail(@)]
  /\ LET v == Head(events[r])
     IN  invalidating' = [invalidating EXCEPT ![r] =
                            IF writer[v] = clientId[r] THEN NoVersion ELSE v]
  /\ UNCHANGED <<redisVars, replicaVars, req, boundVars>>

\* The GET fails: the error is logged and the notification is gone.
ReadWriterIdError(r) ==
  /\ invalidating[r] = NoVersion
  /\ events[r] # << >>
  /\ Fault
  /\ events' = [events EXCEPT ![r] = Tail(@)]
  /\ UNCHANGED <<redisVars, replicaVars, invalidating, req, issued>>

\* Mutant: the callback does nothing.
InvalidateNothing(r) ==
  /\ invalidating[r] # NoVersion
  /\ invalidating' = [invalidating EXCEPT ![r] = NoVersion]
  /\ UNCHANGED <<redisVars, replicaVars, events, req, boundVars>>

Invalidate(r) ==
  /\ invalidating[r] # NoVersion
  /\ lc' = [lc EXCEPT ![r] = LcAfterDelete(@, invalidating[r])]
  /\ invalidating' = [invalidating EXCEPT ![r] = NoVersion]
  /\ UNCHANGED <<redisVars, up, clientId, nextId, subscribed, events, req, boundVars>>

-----------------------------------------------------------------------------
RequestStep(q) ==
  \/ CheckBytes(q)
  \/ RedisWatch(q)
  \/ RedisExecConflict(q)
  \/ RedisExec(q)
  \/ LocalSet(q)
  \/ RedisDel(q)
  \/ RedisDelNothing(q)
  \/ LocalDelete(q)
  \/ LocalGet(q)
  \/ RedisGet(q)
  \/ Return(q)

NotificationStep(r) ==
  \/ ReadWriterId(r)
  \/ Invalidate(r)

Next ==
  \/ \E q \in Requests, r \in Replicas, op \in Ops, v \in Versions,
        b \in Bytes \cup BadBytes \cup {Absent} : Invoke(q, r, op, v, b)
  \/ \E q \in Requests :
       \/ RequestStep(q)
       \/ RedisError(q)
       \/ RedisExecReplyLost(q)
       \/ RedisDelReplyLost(q)
  \/ \E r \in Replicas :
       \/ NewCache(r)
       \/ Disconnect(r)
       \/ Resubscribe(r)
       \/ Crash(r)
       \/ NotificationStep(r)
       \/ ReadWriterIdError(r)

Spec == Init /\ [][Next]_vars

(***************************************************************************)
(* A handler and a notification goroutine that can go on does go on (the   *)
(* Go scheduler runs every runnable goroutine) and go-redis keeps trying   *)
(* to subscribe.  Clients need not send anything, and nothing has to fail. *)
(***************************************************************************)
Fairness ==
  /\ \A q \in Requests : WF_vars(RequestStep(q))
  /\ \A r \in Replicas : WF_vars(NotificationStep(r)) /\ WF_vars(Resubscribe(r))

FairSpec == Spec /\ Fairness
-----------------------------------------------------------------------------
(* A replica that holds v, and what it holds. *)
Holds(r, v) == v \in lc[r].versionsMap
Copy(r, v) == LcGet(lc[r], v)
Stale(r, v) == Holds(r, v) /\ Copy(r, v) # redis[v]

\* A request that is past its Redis command and will still change lc[r].
PendingLocalSet(r, v) ==
  \E q \in Requests : /\ req[q].pc = "localset"
                      /\ req[q].at = r
                      /\ req[q].version = v

\* A notification that will make r drop its copy of v.
PendingInvalidation(r, v) ==
  \/ invalidating[r] = v
  \/ /\ \E i \in 1..Len(events[r]) : events[r][i] = v
     /\ writer[v] # clientId[r]

\* r was the last to store v, and v was then deleted from Redis.
DeletedLastWriter(r, v) == redis[v] = Absent /\ writer[v] = clientId[r]

(* No replica keeps, and no lookup answers, a catalog that Redis never held
   under that version: a POST that was refused, lost a WATCH conflict or
   failed in Redis leaves no trace in a LocalCache, and no copy ends up under
   another version (Cache.Set: Redis first, then LocCache). *)
ServedWasCommitted ==
  EnableRedCache =>
    /\ \A r \in Replicas : \A v \in lc[r].versionsMap : Copy(r, v) \in committed[v]
    /\ \A q \in Requests :
         req[q].op = "get" /\ req[q].answer \in Bytes
           => req[q].answer \in committed[req[q].version]

(* With working notifications and POSTs of one version that do not overlap,
   a LocalCache disagrees with Redis only while the correction is on its way
   - the replica's own LocCache.Set, or a notification whose writer id is
   somebody else's - or because the last writer's copy survived a DELETE. *)
StaleOnlyInTransit ==
  \A r \in Replicas, v \in Versions :
    Stale(r, v) => \/ PendingLocalSet(r, v)
                   \/ PendingInvalidation(r, v)
                   \/ DeletedLastWriter(r, v)

(* Every request is answered: no chain of WATCH conflicts, cache misses or
   notifications keeps a handler waiting. *)
RequestsEnd == \A q \in Requests : req[q].pc # "idle" ~> req[q].pc = "idle"

(* Once clients stop, every LocalCache agrees with Redis for good, but for
   the copies the last writers keep of deleted versions. *)
Convergence ==
  <>[](\A r \in Replicas, v \in Versions : Stale(r, v) => DeletedLastWriter(r, v))

Quiescent ==
  /\ \A q \in Requests : req[q].pc = "idle"
  /\ \A r \in Replicas : events[r] = << >> /\ invalidating[r] = NoVersion

(* DELETE answers that the catalog was deleted: when everything has settled
   no replica serves a version that Redis no longer has. *)
DeletedIsGone ==
  Quiescent => \A r \in Replicas, v \in Versions : redis[v] = Absent => ~Holds(r, v)

(* POST answers that the catalog was updated: when everything has settled no
   replica serves anything but the catalog Redis has. *)
UpdatedEverywhere ==
  Quiescent => \A r \in Replicas, v \in Versions : ~Stale(r, v)
=============================================================================
