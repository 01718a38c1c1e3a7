-------------------------- MODULE CatalogCacheProofs --------------------------
(***************************************************************************)
(* Proofs about CatalogCache, for every number of replicas, open requests, *)
(* versions and catalogs, every capacity and configuration, and any number *)
(* of crashes, lost connections and lost replies.                          *)
(*                                                                         *)
(* The inductive invariant follows a catalog on its way: what Redis has    *)
(* was committed; a request that is about to write its LocalCache carries  *)
(* what it committed; so every LocalCache, and every answer, has only      *)
(* committed catalogs.  The two parts after it, on notifications and on    *)
(* CatalogStore, say at their start what their argument is.                *)
(***************************************************************************)
EXTENDS CatalogRefinement, LocalCacheLemmas

GoodRequest(x, com) ==
  /\ x \in Request
  /\ x # Idle => x.at \in Replicas /\ x.version \in Versions
  /\ x.pc = "check" => x.bytes \in Bytes \cup BadBytes
  /\ x.pc \in {"watch", "exec", "localset"} => x.bytes \in Bytes
  /\ EnableRedCache =>
       /\ x.pc = "localset" => x.bytes \in com[x.version]
       /\ (x.op = "get" /\ x.answer \in Bytes) => x.answer \in com[x.version]

GoodCache(c, com) ==
  /\ WellFormed(c)
  /\ EnableRedCache => \A v \in c.versionsMap : LcGet(c, v) \in com[v]

IInv ==
  /\ TypeOK
  /\ \A v \in Versions : redis[v] # Absent => redis[v] \in committed[v]
  /\ \A r \in Replicas : GoodCache(lc[r], committed)
  /\ \A q \in Requests : GoodRequest(req[q], committed)

Steps == {"idle", "check", "watch", "exec", "localset", "del", "localdel",
          "localget", "redisget", "done"}

-----------------------------------------------------------------------------
(* Requests. *)

LEMMA IdleGood == ASSUME NEW com PROVE GoodRequest(Idle, com)
  BY BytesAssumption DEF GoodRequest, Idle, Request, Answers

LEMMA NotIdle == \A x : x.pc # "idle" => x # Idle
  BY DEF Idle

(* Answering a request. *)
LEMMA AnsweredGood ==
  ASSUME NEW com, NEW q \in Requests, GoodRequest(req[q], com), req[q] # Idle,
         NEW a \in Answers,
         EnableRedCache /\ req[q].op = "get" /\ a \in Bytes => a \in com[req[q].version]
  PROVE  GoodRequest(Answered(q, a), com)
<1> DEFINE x == req[q]
           y == Answered(q, a)
<1>1. /\ y \in Request /\ y.pc = "done" /\ y.answer = a /\ y.op = x.op
      /\ y.at = x.at /\ y.version = x.version
  BY DEF GoodRequest, Request, Answered
<1> QED
  BY <1>1 DEF GoodRequest

(* A request that goes on to its next step. *)
LEMMA MovedGood ==
  ASSUME NEW com, NEW x, GoodRequest(x, com), x # Idle, NEW p \in Steps,
         p \in {"check", "watch", "exec", "localset"} => x.bytes \in Bytes,
         EnableRedCache /\ p = "localset" => x.bytes \in com[x.version]
  PROVE  GoodRequest([x EXCEPT !.pc = p], com)
<1> DEFINE y == [x EXCEPT !.pc = p]
<1>1. /\ y \in Request /\ y.pc = p /\ y.answer = x.answer /\ y.op = x.op
      /\ y.at = x.at /\ y.version = x.version /\ y.bytes = x.bytes
  BY DEF GoodRequest, Request, Steps
<1> HIDE DEF y
<1>2. GoodRequest(y, com)
  BY <1>1 DEF GoodRequest
<1> QED
  BY <1>2 DEF y

(* Marking a transaction as failed, or a key as deleted. *)
LEMMA FlagGood ==
  ASSUME NEW com, NEW x, GoodRequest(x, com), x # Idle
  PROVE  /\ GoodRequest([x EXCEPT !.dirty = TRUE], com)
         /\ GoodRequest([x EXCEPT !.deleted = TRUE], com)
<1> DEFINE y == [x EXCEPT !.dirty = TRUE]
           z == [x EXCEPT !.deleted = TRUE]
<1>1. /\ y \in Request /\ y.pc = x.pc /\ y.answer = x.answer /\ y.op = x.op
      /\ y.at = x.at /\ y.version = x.version /\ y.bytes = x.bytes
  BY DEF GoodRequest, Request
<1>2. /\ z \in Request /\ z.pc = x.pc /\ z.answer = x.answer /\ z.op = x.op
      /\ z.at = x.at /\ z.version = x.version /\ z.bytes = x.bytes
  BY DEF GoodRequest, Request
<1> HIDE DEF y, z
<1>3. GoodRequest(y, com) /\ GoodRequest(z, com)
  BY <1>1, <1>2 DEF GoodRequest
<1> QED
  BY <1>3 DEF y, z

(* More committed catalogs do no harm. *)
LEMMA GrownGood ==
  ASSUME NEW com, NEW more, \A v \in Versions : com[v] \subseteq more[v]
  PROVE  /\ \A x : GoodRequest(x, com) => GoodRequest(x, more)
         /\ \A c : GoodCache(c, com) => GoodCache(c, more)
<1>1. ASSUME NEW x, GoodRequest(x, com) PROVE GoodRequest(x, more)
  <2>1. CASE x = Idle
    BY <2>1, IdleGood
  <2>2. CASE x # Idle
    BY <1>1, <2>2 DEF GoodRequest
  <2> QED
    BY <2>1, <2>2
<1>2. ASSUME NEW c, GoodCache(c, com) PROVE GoodCache(c, more)
  <2>1. c.versionsMap \subseteq Versions
    BY <1>2, CacheParts DEF GoodCache, WellFormed, Linked
  <2> QED
    BY <1>2, <2>1 DEF GoodCache
<1> QED
  BY <1>1, <1>2

(* The LocalCache methods keep a good cache good. *)
LEMMA NewGood == ASSUME NEW com PROVE GoodCache(NewLocalCache, com)
  BY NewFacts DEF GoodCache

LEMMA GetGood ==
  ASSUME NEW com, NEW c, GoodCache(c, com), NEW v
  PROVE  GoodCache(LcAfterGet(c, v), com)
  BY AfterGetFacts DEF GoodCache

LEMMA DeleteGood ==
  ASSUME NEW com, NEW c, GoodCache(c, com), NEW v
  PROVE  GoodCache(LcAfterDelete(c, v), com)
<1>1. WellFormed(c)
  BY DEF GoodCache
<1>2. /\ WellFormed(LcAfterDelete(c, v))
      /\ LcAfterDelete(c, v).versionsMap = c.versionsMap \ {v}
      /\ \A w \in LcAfterDelete(c, v).versionsMap :
           LcGet(LcAfterDelete(c, v), w) = LcGet(c, w)
  BY <1>1, AfterDeleteFacts
<1> QED
  BY <1>2 DEF GoodCache

LEMMA SetGood ==
  ASSUME NEW com, NEW c, GoodCache(c, com), NEW v \in Versions, NEW b \in Bytes,
         EnableRedCache => b \in com[v]
  PROVE  GoodCache(LcSet(c, v, b), com)
<1>1. WellFormed(c)
  BY DEF GoodCache
<1>2. /\ WellFormed(LcSet(c, v, b))
      /\ LcSet(c, v, b).versionsMap \subseteq c.versionsMap \cup {v}
      /\ \A w \in LcSet(c, v, b).versionsMap :
           LcGet(LcSet(c, v, b), w) = IF w = v THEN b ELSE LcGet(c, w)
  BY <1>1, SetFacts
<1> QED
  BY <1>2 DEF GoodCache

-----------------------------------------------------------------------------
(* Steps of a request that leave Redis alone. *)

LEMMA RequestStepOK ==
  ASSUME IInv, NEW q \in Requests, NEW x, GoodRequest(x, committed),
         req' = [req EXCEPT ![q] = x],
         lc' \in [Replicas -> LocalCacheType],
         \A r \in Replicas : GoodCache(lc'[r], committed),
         UNCHANGED <<redisVars, up, clientId, nextId, subscribed, notifyVars>>,
         issued' \in Nat, faults' \in Nat
  PROVE  IInv'
<1>1. redis' = redis /\ committed' = committed
  BY DEF redisVars
<1>2. \A p \in Requests : GoodRequest(req'[p], committed)
  BY DEF IInv, TypeOK
<1>3. TypeOK'
  BY DEF IInv, TypeOK, redisVars, notifyVars, GoodRequest
<1> QED
  BY <1>1, <1>2, <1>3 DEF IInv

(* The same without a change to a LocalCache. *)
LEMMA PlainRequestStepOK ==
  ASSUME IInv, NEW q \in Requests, NEW x, GoodRequest(x, committed),
         req' = [req EXCEPT ![q] = x],
         UNCHANGED <<redisVars, replicaVars, notifyVars>>,
         issued' \in Nat, faults' \in Nat
  PROVE  IInv'
<1>1. /\ lc' \in [Replicas -> LocalCacheType]
      /\ \A r \in Replicas : GoodCache(lc'[r], committed)
      /\ UNCHANGED <<redisVars, up, clientId, nextId, subscribed, notifyVars>>
  BY DEF IInv, TypeOK, replicaVars
<1> QED
  BY <1>1, RequestStepOK

LEMMA FaultFacts == ASSUME IInv, Fault PROVE faults' \in Nat
  BY DEF IInv, TypeOK, Fault

LEMMA BoundFacts ==
  ASSUME IInv PROVE /\ issued \in Nat /\ faults \in Nat
                    /\ UNCHANGED boundVars => issued' \in Nat /\ faults' \in Nat
  BY DEF IInv, TypeOK, boundVars

(* An open request has a replica and a version. *)
LEMMA OpenFacts ==
  ASSUME IInv, NEW q \in Requests, req[q].pc # "idle"
  PROVE  /\ req[q] # Idle /\ req[q] \in Request /\ GoodRequest(req[q], committed)
         /\ req[q].at \in Replicas /\ req[q].version \in Versions
  BY NotIdle DEF IInv, GoodRequest

LEMMA InvokeOK ==
  ASSUME IInv, NEW q \in Requests, NEW r \in Replicas, NEW op \in Ops,
         NEW v \in Versions, NEW b \in Bytes \cup BadBytes \cup {Absent},
         Invoke(q, r, op, v, b)
  PROVE  IInv'
<1> DEFINE x == [Idle EXCEPT !.pc = IF IsActive THEN FirstStep(op) ELSE "done",
                             !.answer = IF IsActive THEN "none" ELSE "error",
                             !.op = op, !.at = r, !.version = v, !.bytes = b]
           p == IF IsActive THEN FirstStep(op) ELSE "done"
<1>1. /\ FirstStep(op) \in {"check", "del", "localdel", "localget", "redisget"}
      /\ FirstStep(op) = "check" => op = "set"
  BY ConfigAssumption DEF FirstStep
<1>2. p \in Steps \ {"idle", "watch", "exec", "localset"}
  BY <1>1 DEF Steps
<1> HIDE DEF p
<1>3. /\ x \in Request /\ x.pc = p /\ x.at = r /\ x.version = v
      /\ x.answer \in {"none", "error"} /\ x.bytes = b
      /\ p = "check" => b \in Bytes \cup BadBytes
  BY <1>1, <1>2 DEF Invoke, Idle, Request, Steps, Answers, p
<1> HIDE DEF x
<1>4. x.answer \notin Bytes
  BY <1>3, BytesAssumption
<1>5. GoodRequest(x, committed)
  BY <1>2, <1>3, <1>4 DEF GoodRequest
<1>6. /\ req' = [req EXCEPT ![q] = x] /\ issued' = issued + 1
      /\ UNCHANGED <<redisVars, replicaVars, notifyVars, faults>>
  BY DEF Invoke, x
<1>7. issued' \in Nat /\ faults' \in Nat
  BY <1>6, BoundFacts
<1>8. UNCHANGED <<redisVars, replicaVars, notifyVars>>
  BY <1>6
<1> QED
  BY <1>5, <1>6, <1>7, <1>8, PlainRequestStepOK

LEMMA ReturnOK ==
  ASSUME IInv, NEW q \in Requests, Return(q) PROVE IInv'
  BY IdleGood, PlainRequestStepOK, BoundFacts DEF Return

(* Answering "error" is always all right. *)
LEMMA ErrorGood ==
  ASSUME IInv, NEW q \in Requests, req[q].pc # "idle",
         NEW a \in {"ok", "notfound", "error", "none"}
  PROVE  GoodRequest(Answered(q, a), committed)
<1>1. a \in Answers /\ a \notin Bytes
  BY BytesAssumption DEF Answers
<1> QED
  BY <1>1, OpenFacts, AnsweredGood

LEMMA RedisErrorOK ==
  ASSUME IInv, NEW q \in Requests, RedisError(q) PROVE IInv'
<1>1. GoodRequest(Answered(q, "error"), committed)
  BY ErrorGood DEF RedisError
<1> QED
  BY <1>1, PlainRequestStepOK, BoundFacts, FaultFacts DEF RedisError

LEMMA RedisExecConflictOK ==
  ASSUME IInv, NEW q \in Requests, RedisExecConflict(q) PROVE IInv'
<1>1. GoodRequest(Answered(q, "error"), committed)
  BY ErrorGood DEF RedisExecConflict
<1> QED
  BY <1>1, PlainRequestStepOK, BoundFacts DEF RedisExecConflict

LEMMA CheckBytesOK ==
  ASSUME IInv, NEW q \in Requests, CheckBytes(q) PROVE IInv'
<1> DEFINE p == IF EnableRedCache THEN "watch" ELSE "localset"
<1>1. req[q].pc = "check" /\ req[q].pc # "idle"
  BY DEF CheckBytes
<1>2. CASE req[q].bytes \in BadBytes
  <2>1. GoodRequest(Answered(q, "error"), committed)
    BY <1>1, ErrorGood
  <2>2. req' = [req EXCEPT ![q] = Answered(q, "error")]
    BY <1>2 DEF CheckBytes
  <2> QED
    BY <2>1, <2>2, PlainRequestStepOK, BoundFacts DEF CheckBytes
<1>3. CASE req[q].bytes \notin BadBytes
  <2>1. req[q].bytes \in Bytes
    BY <1>1, <1>3, OpenFacts DEF GoodRequest
  <2>2. GoodRequest([req[q] EXCEPT !.pc = p], committed)
    BY <1>1, <2>1, OpenFacts, MovedGood DEF Steps
  <2>3. req' = [req EXCEPT ![q] = [req[q] EXCEPT !.pc = p]]
    BY <1>3 DEF CheckBytes, IInv, TypeOK
  <2> QED
    BY <2>2, <2>3, PlainRequestStepOK, BoundFacts DEF CheckBytes
<1> QED
  BY <1>2, <1>3

LEMMA RedisWatchOK ==
  ASSUME IInv, NEW q \in Requests, RedisWatch(q) PROVE IInv'
<1>1. req[q].pc = "watch" /\ req[q].pc # "idle"
  BY DEF RedisWatch
<1>2. GoodRequest([req[q] EXCEPT !.pc = "exec"], committed)
  BY <1>1, OpenFacts, MovedGood DEF Steps, GoodRequest
<1>3. req' = [req EXCEPT ![q] = [req[q] EXCEPT !.pc = "exec"]]
  BY DEF RedisWatch, IInv, TypeOK
<1> QED
  BY <1>2, <1>3, PlainRequestStepOK, BoundFacts DEF RedisWatch

LEMMA RedisDelNothingOK ==
  ASSUME IInv, NEW q \in Requests, RedisDelNothing(q) PROVE IInv'
<1>1. req[q].pc = "del" /\ req[q].pc # "idle"
  BY DEF RedisDelNothing
<1>2. GoodRequest([req[q] EXCEPT !.pc = "localdel"], committed)
  BY <1>1, OpenFacts, MovedGood DEF Steps
<1>3. req' = [req EXCEPT ![q] = [req[q] EXCEPT !.pc = "localdel"]]
  BY DEF RedisDelNothing, IInv, TypeOK
<1> QED
  BY <1>2, <1>3, PlainRequestStepOK, BoundFacts DEF RedisDelNothing

LEMMA FoundFacts ==
  ASSUME NEW b \in Bytes \cup {NilBytes, Absent}
  PROVE  /\ Found(b) \in Answers
         /\ Found(b) \in Bytes => Found(b) = b /\ b \in Bytes
  BY BytesAssumption DEF Found, Answers

LEMMA RedisGetOK ==
  ASSUME IInv, NEW q \in Requests, RedisGet(q) PROVE IInv'
<1> DEFINE b == redis[req[q].version]
<1>1. req[q].pc # "idle"
  BY DEF RedisGet
<1>2. req[q].version \in Versions /\ GoodRequest(req[q], committed) /\ req[q] # Idle
  BY <1>1, OpenFacts
<1>3. b \in Bytes \cup {Absent} /\ (b # Absent => b \in committed[req[q].version])
  BY <1>2 DEF IInv, TypeOK
<1> HIDE DEF b
<1>4. /\ Found(b) \in Answers
      /\ Found(b) \in Bytes => Found(b) = b /\ b \in Bytes
  BY <1>3, FoundFacts
<1>5. GoodRequest(Answered(q, Found(b)), committed)
  BY <1>2, <1>3, <1>4, BytesAssumption, AnsweredGood
<1> QED
  BY <1>5, PlainRequestStepOK, BoundFacts DEF RedisGet, b

-----------------------------------------------------------------------------
(* Steps of a request that use the LocalCache. *)

LEMMA CacheFacts ==
  ASSUME IInv, NEW r \in Replicas, NEW c, GoodCache(c, committed)
  PROVE  /\ [lc EXCEPT ![r] = c] \in [Replicas -> LocalCacheType]
         /\ \A s \in Replicas : GoodCache([lc EXCEPT ![r] = c][s], committed)
<1>1. c \in LocalCacheType
  BY DEF GoodCache, WellFormed, Linked
<1> QED
  BY <1>1 DEF IInv, TypeOK

LEMMA SameCacheFacts ==
  ASSUME IInv
  PROVE  /\ lc \in [Replicas -> LocalCacheType]
         /\ \A s \in Replicas : GoodCache(lc[s], committed)
  BY DEF IInv, TypeOK

LEMMA LocalSetOK ==
  ASSUME IInv, NEW q \in Requests, LocalSet(q) PROVE IInv'
<1> DEFINE r == req[q].at
           c == LcSet(lc[r], req[q].version, req[q].bytes)
<1>1. req[q].pc = "localset" /\ req[q].pc # "idle"
  BY DEF LocalSet
<1>2. /\ r \in Replicas /\ req[q].version \in Versions /\ req[q].bytes \in Bytes
      /\ EnableRedCache => req[q].bytes \in committed[req[q].version]
  BY <1>1, OpenFacts DEF GoodRequest
<1>3. GoodCache(c, committed)
  BY <1>2, SameCacheFacts, SetGood
<1>4. lc' = IF EnableLocalCache THEN [lc EXCEPT ![r] = c] ELSE lc
  BY DEF LocalSet
<1> HIDE DEF c, r
<1>5. /\ lc' \in [Replicas -> LocalCacheType]
      /\ \A s \in Replicas : GoodCache(lc'[s], committed)
  BY <1>2, <1>3, <1>4, CacheFacts, SameCacheFacts
<1>6. GoodRequest(Answered(q, "ok"), committed)
  BY <1>1, ErrorGood
<1> QED
  BY <1>5, <1>6, RequestStepOK, BoundFacts DEF LocalSet

LEMMA LocalDeleteOK ==
  ASSUME IInv, NEW q \in Requests, LocalDelete(q) PROVE IInv'
<1> DEFINE r == req[q].at
           c == LcAfterDelete(lc[r], req[q].version)
<1>1. req[q].pc = "localdel" /\ req[q].pc # "idle"
  BY DEF LocalDelete
<1>2. r \in Replicas
  BY <1>1, OpenFacts
<1>3. GoodCache(c, committed)
  BY <1>2, SameCacheFacts, DeleteGood
<1>4. lc' = [lc EXCEPT ![r] = c] \/ lc' = lc
  BY DEF LocalDelete
<1>5. PICK a \in {"ok", "notfound"} : req' = [req EXCEPT ![q] = Answered(q, a)]
  BY DEF LocalDelete
<1> HIDE DEF c, r
<1>6. /\ lc' \in [Replicas -> LocalCacheType]
      /\ \A s \in Replicas : GoodCache(lc'[s], committed)
  BY <1>2, <1>3, <1>4, CacheFacts, SameCacheFacts
<1>7. GoodRequest(Answered(q, a), committed)
  BY <1>1, ErrorGood
<1> QED
  BY <1>5, <1>6, <1>7, RequestStepOK, BoundFacts DEF LocalDelete

LEMMA LocalGetOK ==
  ASSUME IInv, NEW q \in Requests, LocalGet(q) PROVE IInv'
<1> DEFINE r == req[q].at
           v == req[q].version
           c == LcAfterGet(lc[r], v)
           got == LcGet(lc[r], v)
<1>1. req[q].pc = "localget" /\ req[q].pc # "idle"
  BY DEF LocalGet
<1>2. r \in Replicas /\ v \in Versions /\ GoodRequest(req[q], committed) /\ req[q] # Idle
  BY <1>1, OpenFacts
<1>3. GoodCache(c, committed) /\ GoodCache(lc[r], committed)
  BY <1>2, SameCacheFacts, GetGood
<1>4. /\ got \in Bytes \cup {NilBytes}
      /\ EnableRedCache /\ got # NilBytes => got \in committed[v]
  <2>1. CASE v \in lc[r].versionsMap
    <3>1. Linked(lc[r]) /\ lc[r] \in LocalCacheType
      BY <1>3 DEF GoodCache, WellFormed, Linked
    <3>2. got \in Bytes
      BY <2>1, <3>1, ElementFacts, CacheParts
    <3> QED
      BY <1>3, <2>1, <3>2 DEF GoodCache
  <2>2. CASE v \notin lc[r].versionsMap
    BY <2>2 DEF LcGet
  <2> QED
    BY <2>1, <2>2
<1>5. /\ lc' = [lc EXCEPT ![r] = c]
      /\ \/ req' = [req EXCEPT ![q] = [req[q] EXCEPT !.pc = "redisget"]]
         \/ req' = [req EXCEPT ![q] = Answered(q, Found(got))]
  BY DEF LocalGet, IInv, TypeOK
<1> HIDE DEF c, r, got, v
<1>6. /\ lc' \in [Replicas -> LocalCacheType]
      /\ \A s \in Replicas : GoodCache(lc'[s], committed)
  BY <1>2, <1>3, <1>5, CacheFacts
<1>7. GoodRequest(Answered(q, Found(got)), committed)
  <2>1. /\ Found(got) \in Answers
        /\ Found(got) \in Bytes => Found(got) = got /\ got # NilBytes
    BY <1>4, FoundFacts, BytesAssumption DEF Found
  <2> QED
    BY <1>2, <1>4, <2>1, AnsweredGood DEF v
<1>8. GoodRequest([req[q] EXCEPT !.pc = "redisget"], committed)
  BY <1>2, MovedGood DEF Steps
<1> QED
  BY <1>5, <1>6, <1>7, <1>8, RequestStepOK, BoundFacts DEF LocalGet

-----------------------------------------------------------------------------
(* Steps that change Redis. *)

(* Publish only adds to the queues. *)
LEMMA PublishFacts ==
  ASSUME IInv, NEW v \in Versions, Publish(v)
  PROVE  events' \in [Replicas -> Seq(Versions)]
  BY DEF IInv, TypeOK, Publish

(* Touch moves one request on and marks others. *)
LEMMA TouchFacts ==
  ASSUME IInv, NEW v, NEW q \in Requests, NEW next, NEW com,
         \A u \in Versions : committed[u] \subseteq com[u],
         GoodRequest(next, com), Touch(v, q, next)
  PROVE  req' \in [Requests -> Request] /\ \A p \in Requests : GoodRequest(req'[p], com)
<1>1. ASSUME NEW p \in Requests PROVE GoodRequest(req'[p], com)
  <2>1. GoodRequest(req[p], com)
    BY GrownGood DEF IInv
  <2>2. CASE p = q
    BY <2>2 DEF Touch
  <2>3. CASE p # q /\ req[p].pc = "exec" /\ req[p].version = v
    <3>1. req'[p] = [req[p] EXCEPT !.dirty = TRUE]
      BY <2>3 DEF Touch
    <3>2. req[p] # Idle
      BY <2>3, NotIdle
    <3> QED
      BY <2>1, <3>1, <3>2, FlagGood
  <2>4. CASE p # q /\ ~(req[p].pc = "exec" /\ req[p].version = v)
    <3>1. req'[p] = req[p]
      BY <2>4 DEF Touch
    <3> QED
      BY <2>1, <3>1
  <2> QED
    BY <2>2, <2>3, <2>4
<1>2. req' = [p \in Requests |-> req'[p]]
  BY DEF Touch
<1> QED
  BY <1>1, <1>2 DEF GoodRequest

(* EXEC, whatever becomes of the request. *)
LEMMA ExecWritesOK ==
  ASSUME IInv, NEW q \in Requests, ExecWrites(q), NEW next,
         Touch(req[q].version, q, next), faults' \in Nat,
         next = [req[q] EXCEPT !.pc = "localset"] \/ next = Answered(q, "error")
  PROVE  IInv'
<1> DEFINE v == req[q].version
           b == req[q].bytes
<1>1. req[q].pc = "exec" /\ req[q].pc # "idle"
  BY DEF ExecWrites
<1>2. /\ req[q] # Idle /\ GoodRequest(req[q], committed) /\ b \in Bytes
      /\ req[q].at \in Replicas /\ v \in Versions
  BY <1>1, OpenFacts DEF GoodRequest
<1>3. /\ committed' \in [Versions -> SUBSET Bytes]
      /\ \A u \in Versions : committed[u] \subseteq committed'[u]
      /\ b \in committed'[v]
      /\ redis' \in [Versions -> Bytes \cup {Absent}]
      /\ \A u \in Versions : redis'[u] # Absent => redis'[u] \in committed'[u]
      /\ writer' \in [Versions -> Nat]
  BY <1>2 DEF ExecWrites, IInv, TypeOK
<1>4. UNCHANGED <<up, lc, clientId, nextId, subscribed, invalidating, issued>>
  BY DEF ExecWrites, replicaVars
<1>5. events' \in [Replicas -> Seq(Versions)]
  BY <1>2, PublishFacts DEF ExecWrites
<1> HIDE DEF v, b
<1>6. GoodRequest(next, committed')
  <2>1. GoodRequest(req[q], committed')
    BY <1>2, <1>3, GrownGood
  <2>2. GoodRequest([req[q] EXCEPT !.pc = "localset"], committed')
    BY <1>2, <1>3, <2>1, MovedGood DEF Steps, v, b
  <2>3. GoodRequest(Answered(q, "error"), committed')
    <3>1. "error" \in Answers /\ "error" \notin Bytes
      BY BytesAssumption DEF Answers
    <3> QED
      BY <1>2, <2>1, <3>1, AnsweredGood
  <2> QED
    BY <2>2, <2>3
<1>7. req' \in [Requests -> Request] /\ \A p \in Requests : GoodRequest(req'[p], committed')
  BY <1>3, <1>6, TouchFacts
<1>8. \A r \in Replicas : GoodCache(lc'[r], committed')
  BY <1>3, <1>4, GrownGood DEF IInv
<1>9. TypeOK'
  BY <1>3, <1>4, <1>5, <1>7 DEF IInv, TypeOK
<1> QED
  BY <1>3, <1>7, <1>8, <1>9 DEF IInv

LEMMA RedisExecOK ==
  ASSUME IInv, NEW q \in Requests, RedisExec(q) PROVE IInv'
  BY ExecWritesOK, BoundFacts DEF RedisExec

LEMMA RedisExecReplyLostOK ==
  ASSUME IInv, NEW q \in Requests, RedisExecReplyLost(q) PROVE IInv'
  BY ExecWritesOK, FaultFacts DEF RedisExecReplyLost

(* DEL, whatever becomes of the request. *)
LEMMA DelRemovesOK ==
  ASSUME IInv, NEW q \in Requests, NEW next, GoodRequest(next, committed),
         DelRemoves(q, next), faults' \in Nat
  PROVE  IInv'
<1> DEFINE v == req[q].version
<1>1. req[q].pc = "del" /\ req[q].pc # "idle"
  BY DEF DelRemoves
<1>2. v \in Versions
  BY <1>1, OpenFacts
<1>3. /\ committed' = committed
      /\ redis' \in [Versions -> Bytes \cup {Absent}]
      /\ \A u \in Versions : redis'[u] # Absent => redis'[u] \in committed'[u]
  BY <1>2 DEF DelRemoves, IInv, TypeOK
<1>4. UNCHANGED <<writer, up, lc, clientId, nextId, subscribed, invalidating, issued>>
  BY DEF DelRemoves, replicaVars
<1>5. events' \in [Replicas -> Seq(Versions)]
  BY <1>2, PublishFacts DEF DelRemoves
<1>6. req' \in [Requests -> Request] /\ \A p \in Requests : GoodRequest(req'[p], committed)
  BY TouchFacts DEF DelRemoves
<1>7. TypeOK'
  BY <1>3, <1>4, <1>5, <1>6 DEF IInv, TypeOK
<1> QED
  BY <1>3, <1>4, <1>6, <1>7 DEF IInv

LEMMA RedisDelOK ==
  ASSUME IInv, NEW q \in Requests, RedisDel(q) PROVE IInv'
<1> DEFINE x == [req[q] EXCEPT !.pc = "localdel"]
           y == [req[q] EXCEPT !.pc = "localdel", !.deleted = TRUE]
<1>1. DelRemoves(q, y) /\ req[q].pc # "idle"
  BY DEF RedisDel, DelRemoves
<1>2. GoodRequest(x, committed) /\ x # Idle /\ y = [x EXCEPT !.deleted = TRUE]
  <2>1. x.pc = "localdel"
    BY <1>1, OpenFacts DEF Request
  <2> QED
    BY <1>1, <2>1, OpenFacts, MovedGood DEF Steps, Idle
<1>3. GoodRequest(y, committed)
  BY <1>2, FlagGood
<1> QED
  BY <1>1, <1>3, DelRemovesOK, BoundFacts DEF RedisDel

LEMMA RedisDelReplyLostOK ==
  ASSUME IInv, NEW q \in Requests, RedisDelReplyLost(q) PROVE IInv'
<1>1. GoodRequest(req[q], committed)
  BY DEF IInv
<1> QED
  BY <1>1, DelRemovesOK, FaultFacts DEF RedisDelReplyLost

-----------------------------------------------------------------------------
(* Replicas and their notifications. *)

(* A step that keeps the requests and what was committed. *)
LEMMA ReplicaStepOK ==
  ASSUME IInv, TypeOK', UNCHANGED <<redis, committed, req>>,
         \A r \in Replicas : GoodCache(lc'[r], committed)
  PROVE  IInv'
  BY DEF IInv

LEMMA NewCacheOK ==
  ASSUME IInv, NEW r \in Replicas, NewCache(r) PROVE IInv'
<1>1. lc' = [lc EXCEPT ![r] = NewLocalCache] /\ UNCHANGED <<redis, committed, req>>
  BY DEF NewCache, redisVars
<1>2. /\ lc' \in [Replicas -> LocalCacheType]
      /\ \A s \in Replicas : GoodCache(lc'[s], committed)
  BY <1>1, NewGood, CacheFacts
<1>3. up' \subseteq Replicas /\ subscribed' \subseteq up' /\ faults' \in Nat
  <2>1. CASE Notifies
    BY <2>1 DEF NewCache, IInv, TypeOK, Fault
  <2>2. CASE ~Notifies
    BY <2>2 DEF NewCache, IInv, TypeOK
  <2> QED
    BY <2>1, <2>2
<1>4. clientId' \in [Replicas -> Nat] /\ nextId' \in Nat
  <2>1. CASE Notifies
    <3>1. PICK id \in FreshIds : clientId' = [clientId EXCEPT ![r] = id]
      BY <2>1 DEF NewCache
    <3>2. id \in Nat /\ nextId' = nextId + 1
      BY <2>1 DEF NewCache, FreshIds, IInv, TypeOK
    <3> QED
      BY <3>1, <3>2 DEF IInv, TypeOK
  <2>2. CASE ~Notifies
    <3>1. clientId' = clientId /\ nextId' = nextId
      BY <2>2 DEF NewCache
    <3> QED
      BY <3>1 DEF IInv, TypeOK
  <2> QED
    BY <2>1, <2>2
<1>5. UNCHANGED <<redisVars, notifyVars, req, issued>>
  BY DEF NewCache
<1>6. TypeOK'
  BY <1>2, <1>3, <1>4, <1>5 DEF IInv, TypeOK, redisVars, notifyVars
<1> QED
  BY <1>1, <1>2, <1>6, ReplicaStepOK

LEMMA SubscriptionOK ==
  ASSUME IInv, NEW r \in Replicas, Disconnect(r) \/ Resubscribe(r) PROVE IInv'
<1>1. UNCHANGED <<redis, committed, req, lc>>
  BY DEF Disconnect, Resubscribe, redisVars
<1>2. TypeOK'
  BY DEF Disconnect, Resubscribe, IInv, TypeOK, redisVars, notifyVars, boundVars, Fault
<1> QED
  BY <1>1, <1>2, SameCacheFacts, ReplicaStepOK

LEMMA CrashOK ==
  ASSUME IInv, NEW r \in Replicas, Crash(r) PROVE IInv'
<1>1. lc' = [lc EXCEPT ![r] = NewLocalCache] /\ UNCHANGED <<redis, writer, committed>>
  BY DEF Crash, redisVars
<1>2. /\ lc' \in [Replicas -> LocalCacheType]
      /\ \A s \in Replicas : GoodCache(lc'[s], committed)
  BY <1>1, NewGood, CacheFacts
<1>3. ASSUME NEW q \in Requests PROVE GoodRequest(req'[q], committed)
  BY IdleGood DEF Crash, IInv
<1>4. req' \in [Requests -> Request]
  BY <1>3 DEF Crash, GoodRequest
<1>5. TypeOK'
  BY <1>1, <1>2, <1>4 DEF Crash, IInv, TypeOK, Fault
<1> QED
  BY <1>1, <1>2, <1>3, <1>5 DEF IInv

LEMMA ReadWriterIdOK ==
  ASSUME IInv, NEW r \in Replicas, ReadWriterId(r) \/ ReadWriterIdError(r) PROVE IInv'
<1>1. UNCHANGED <<redis, committed, req, lc>>
  BY DEF ReadWriterId, ReadWriterIdError, redisVars, replicaVars
<1>2. /\ Head(events[r]) \in Versions
      /\ events' \in [Replicas -> Seq(Versions)]
      /\ faults' \in Nat
  <2>1. events[r] \in Seq(Versions) /\ events[r] # << >>
    BY DEF ReadWriterId, ReadWriterIdError, IInv, TypeOK
  <2>2. Head(events[r]) \in Versions /\ Tail(events[r]) \in Seq(Versions)
    BY <2>1
  <2>3. events' = [events EXCEPT ![r] = Tail(events[r])]
    BY DEF ReadWriterId, ReadWriterIdError
  <2>4. events' \in [Replicas -> Seq(Versions)]
    BY <2>2, <2>3 DEF IInv, TypeOK
  <2>5. faults' \in Nat
    BY FaultFacts, BoundFacts DEF ReadWriterId, ReadWriterIdError
  <2> QED
    BY <2>2, <2>4, <2>5
<1>3. invalidating' \in [Replicas -> Versions \cup {NoVersion}]
  BY <1>2 DEF ReadWriterId, ReadWriterIdError, IInv, TypeOK
<1>4. TypeOK'
  BY <1>2, <1>3 DEF ReadWriterId, ReadWriterIdError, IInv, TypeOK, redisVars, replicaVars,
                    boundVars
<1> QED
  BY <1>1, <1>4, SameCacheFacts, ReplicaStepOK

LEMMA InvalidateOK ==
  ASSUME IInv, NEW r \in Replicas, Invalidate(r) PROVE IInv'
<1>1. /\ lc' = [lc EXCEPT ![r] = LcAfterDelete(lc[r], invalidating[r])]
      /\ UNCHANGED <<redis, committed, req>>
  BY DEF Invalidate, redisVars, IInv, TypeOK
<1>2. GoodCache(LcAfterDelete(lc[r], invalidating[r]), committed)
  BY SameCacheFacts, DeleteGood
<1>3. /\ lc' \in [Replicas -> LocalCacheType]
      /\ \A s \in Replicas : GoodCache(lc'[s], committed)
  BY <1>1, <1>2, CacheFacts
<1>4. TypeOK'
  BY <1>3 DEF Invalidate, IInv, TypeOK, redisVars, boundVars
<1> QED
  BY <1>1, <1>3, <1>4, ReplicaStepOK

-----------------------------------------------------------------------------
LEMMA InitOK == Init => IInv
<1> SUFFICES ASSUME Init PROVE IInv
  OBVIOUS
<1>1. \A r \in Replicas : GoodCache(lc[r], committed)
  BY NewGood DEF Init
<1>2. \A q \in Requests : GoodRequest(req[q], committed)
  BY IdleGood DEF Init
<1>3. TypeOK
  BY <1>1, <1>2 DEF Init, TypeOK, GoodCache, WellFormed, Linked, GoodRequest
<1> QED
  BY <1>1, <1>2, <1>3 DEF IInv, Init

LEMMA NextOK == IInv /\ [Next]_vars => IInv'
<1> SUFFICES ASSUME IInv, [Next]_vars PROVE IInv'
  OBVIOUS
<1>1. CASE UNCHANGED vars
  BY <1>1 DEF vars, redisVars, replicaVars, notifyVars, boundVars, IInv, TypeOK
<1>2. ASSUME NEW q \in Requests, RequestStep(q) PROVE IInv'
  BY <1>2, CheckBytesOK, RedisWatchOK, RedisExecConflictOK, RedisExecOK, LocalSetOK,
     RedisDelOK, RedisDelNothingOK, LocalDeleteOK, LocalGetOK, RedisGetOK, ReturnOK
     DEF RequestStep
<1>3. ASSUME NEW q \in Requests,
             RedisError(q) \/ RedisExecReplyLost(q) \/ RedisDelReplyLost(q)
      PROVE  IInv'
  BY <1>3, RedisErrorOK, RedisExecReplyLostOK, RedisDelReplyLostOK
<1>4. ASSUME NEW r \in Replicas,
             \/ NewCache(r) \/ Disconnect(r) \/ Resubscribe(r) \/ Crash(r)
             \/ NotificationStep(r) \/ ReadWriterIdError(r)
      PROVE  IInv'
  BY <1>4, NewCacheOK, SubscriptionOK, CrashOK, ReadWriterIdOK, InvalidateOK
     DEF NotificationStep
<1> QED
  BY <1>1, <1>2, <1>3, <1>4, InvokeOK DEF Next

(* IInv holds in every reachable state. *)
THEOREM Invariance == Spec => []IInv
  BY InitOK, NextOK, PTL DEF Spec

(* Every variable keeps its type through every interleaving, crash and lost
   reply: in particular no request is left without a replica or a version. *)
THEOREM TypeCorrect == Spec => []TypeOK
<1>1. IInv => TypeOK
  BY DEF IInv
<1> QED
  BY <1>1, Invariance, PTL

(* No LocalCache and no answer ever has a catalog that Redis did not hold
   under that version, for any number of replicas and faults. *)
THEOREM OnlyCommittedIsServed == Spec => []ServedWasCommitted
<1>1. IInv => ServedWasCommitted
  BY DEF IInv, ServedWasCommitted, GoodCache, GoodRequest, Copy
<1> QED
  BY <1>1, Invariance, PTL

-----------------------------------------------------------------------------
(* Where requests, caches and notifications are: a second invariant, which the
   proofs about the two stores together build on. *)

\* A request is in a step of its own operation, in a store that is enabled,
\* and has no answer before it is done.
InStep(x) ==
  /\ x.pc = "idle" => x = Idle
  /\ x.pc \in {"check", "watch", "exec", "localset"} => x.op = "set"
  /\ x.pc \in {"del", "localdel"} => x.op = "delete"
  /\ x.pc \in {"localget", "redisget"} => x.op = "get"
  /\ x.pc # "done" => x.answer = "none"
  /\ x.pc \in {"watch", "exec", "del", "redisget"} => EnableRedCache
  /\ x.pc = "localget" => EnableLocalCache
  /\ x.pc \in {"check", "watch", "exec", "localset", "del"} \/ ~EnableRedCache => x.deleted = FALSE

\* Open requests are with processes that run, nothing is cached in one that
\* does not, and without notifications nothing is invalidated.
StepInv ==
  /\ \A q \in Requests : InStep(req[q])
  /\ \A q \in Requests : req[q].pc # "idle" => req[q].at \in up
  /\ \A r \in Replicas : r \notin up => lc[r] = NewLocalCache
  /\ ~Notifies => /\ subscribed = {}
                  /\ \A r \in Replicas : events[r] = << >> /\ invalidating[r] = NoVersion

-----------------------------------------------------------------------------
(* The steps of requests. *)

LEMMA IdleInStep == InStep(Idle)
  BY DEF InStep, Idle

LEMMA AnsweredInStep ==
  ASSUME IInv, NEW q \in Requests, InStep(req[q]), NEW a
  PROVE  InStep(Answered(q, a))
<1> DEFINE y == Answered(q, a)
<1>1. y.pc = "done" /\ y.deleted = req[q].deleted
  BY DEF Answered, IInv, TypeOK, Request
<1> HIDE DEF y
<1>2. InStep(y)
  BY <1>1 DEF InStep
<1> QED
  BY <1>2 DEF y

(* A step to p, of the same operation. *)
LEMMA MovedInStep ==
  ASSUME NEW x \in Request, InStep(x), NEW p, x.pc # "done", x.pc # "idle",
         \/ p \in {"watch", "exec"} /\ x.op = "set" /\ EnableRedCache /\ x.deleted = FALSE
         \/ p = "localset" /\ x.op = "set" /\ x.deleted = FALSE
         \/ p = "localdel" /\ x.op = "delete" /\ (~EnableRedCache => x.deleted = FALSE)
         \/ p = "redisget" /\ x.op = "get" /\ EnableRedCache
  PROVE  InStep([x EXCEPT !.pc = p])
<1> DEFINE y == [x EXCEPT !.pc = p]
<1>1. y.pc = p /\ y.op = x.op /\ y.answer = x.answer /\ y.deleted = x.deleted
  BY DEF Request
<1> HIDE DEF y
<1>2. x.answer = "none"
  BY DEF InStep
<1>3. InStep(y)
  BY <1>1, <1>2 DEF InStep
<1> QED
  BY <1>3 DEF y

LEMMA DeletedInStep ==
  ASSUME NEW x \in Request, InStep(x), x.pc = "del"
  PROVE  InStep([x EXCEPT !.pc = "localdel", !.deleted = TRUE])
<1> DEFINE y == [x EXCEPT !.pc = "localdel", !.deleted = TRUE]
<1>1. y.pc = "localdel" /\ y.op = x.op /\ y.answer = x.answer
  BY DEF Request
<1> HIDE DEF y
<1>2. x.answer = "none" /\ x.op = "delete" /\ EnableRedCache
  BY DEF InStep
<1>3. InStep(y)
  BY <1>1, <1>2 DEF InStep
<1> QED
  BY <1>3 DEF y

LEMMA DirtyInStep ==
  ASSUME NEW x \in Request, InStep(x), x.pc = "exec"
  PROVE  InStep([x EXCEPT !.dirty = TRUE])
<1> DEFINE y == [x EXCEPT !.dirty = TRUE]
<1>1. y.pc = x.pc /\ y.op = x.op /\ y.answer = x.answer /\ y.deleted = x.deleted
  BY DEF Request
<1> HIDE DEF y
<1>2. InStep(y)
  BY <1>1 DEF InStep
<1> QED
  BY <1>2 DEF y

(* A step that moves one request. *)
LEMMA OneInStep ==
  ASSUME IInv, StepInv, NEW q \in Requests, NEW x, InStep(x), req' = [req EXCEPT ![q] = x]
  PROVE  \A p \in Requests : InStep(req'[p])
  BY DEF IInv, TypeOK, StepInv

LEMMA TouchInStep ==
  ASSUME IInv, StepInv, NEW q \in Requests, NEW x, InStep(x), NEW v, Touch(v, q, x)
  PROVE  \A p \in Requests : InStep(req'[p])
<1> TAKE p \in Requests
<1>1. req[p] \in Request /\ InStep(req[p])
  BY DEF IInv, TypeOK, StepInv
<1>2. req'[p] = IF p = q THEN x
                ELSE IF req[p].pc = "exec" /\ req[p].version = v
                     THEN [req[p] EXCEPT !.dirty = TRUE] ELSE req[p]
  BY DEF Touch
<1> QED
  BY <1>1, <1>2, DirtyInStep

LEMMA InvokeInStep ==
  ASSUME IInv, StepInv, NEW q \in Requests, NEW r \in Replicas, NEW op \in Ops,
         NEW v \in Versions, NEW b \in Bytes \cup BadBytes \cup {Absent},
         Invoke(q, r, op, v, b)
  PROVE  \A p \in Requests : InStep(req'[p])
<1> DEFINE n == IF IsActive THEN FirstStep(op) ELSE "done"
           a == IF IsActive THEN "none" ELSE "error"
           x == [Idle EXCEPT !.pc = n, !.answer = a, !.op = op, !.at = r, !.version = v,
                             !.bytes = b]
<1>1. x.pc = n /\ x.op = op /\ x.answer = a /\ x.deleted = FALSE
  BY DEF Idle
<1>2. req' = [req EXCEPT ![q] = x]
  BY DEF Invoke
<1> HIDE DEF x
<1>3. /\ n \in {"check", "del", "localdel", "localget", "redisget", "done"}
      /\ n # "done" => a = "none"
      /\ n = "check" => op = "set"
      /\ n \in {"del", "localdel"} => op = "delete"
      /\ n \in {"localget", "redisget"} => op = "get"
      /\ n \in {"del", "redisget"} => EnableRedCache
      /\ n = "localget" => EnableLocalCache
  BY ConfigAssumption DEF FirstStep, IsActive
<1> HIDE DEF n, a
<1>4. InStep(x)
  BY <1>1, <1>3 DEF InStep
<1> QED
  BY <1>2, <1>4, OneInStep

(* Every step of a request keeps it in a step of its operation. *)
LEMMA RequestsInStep ==
  ASSUME IInv, StepInv, NEW q \in Requests,
         RequestStep(q) \/ RedisError(q) \/ RedisExecReplyLost(q) \/ RedisDelReplyLost(q)
  PROVE  \A p \in Requests : InStep(req'[p])
<1>0. req[q] \in Request /\ InStep(req[q]) /\ req \in [Requests -> Request]
  BY DEF IInv, TypeOK, StepInv
<1>1. CASE \E a : req' = [req EXCEPT ![q] = Answered(q, a)]
  BY <1>0, <1>1, AnsweredInStep, OneInStep
<1>2. CASE \E a : Touch(req[q].version, q, Answered(q, a))
  BY <1>0, <1>2, AnsweredInStep, TouchInStep
<1>3. CASE CheckBytes(q)
  <2>1. CASE req[q].bytes \in BadBytes
    BY <1>1, <1>3, <2>1 DEF CheckBytes
  <2>2. CASE req[q].bytes \notin BadBytes
    <3> DEFINE p == IF EnableRedCache THEN "watch" ELSE "localset"
    <3>1. req' = [req EXCEPT ![q] = [req[q] EXCEPT !.pc = p]] /\ req[q].pc = "check"
      BY <1>0, <1>3, <2>2 DEF CheckBytes
    <3>2. req[q].op = "set" /\ req[q].deleted = FALSE
      BY <1>0, <3>1 DEF InStep
    <3>3. InStep([req[q] EXCEPT !.pc = p])
      BY <1>0, <3>1, <3>2, MovedInStep
    <3> QED
      BY <3>1, <3>3, OneInStep
  <2> QED
    BY <2>1, <2>2
<1>4. CASE RedisWatch(q)
  <2>1. req' = [req EXCEPT ![q] = [req[q] EXCEPT !.pc = "exec"]] /\ req[q].pc = "watch"
    BY <1>0, <1>4 DEF RedisWatch
  <2>2. req[q].op = "set" /\ req[q].deleted = FALSE /\ EnableRedCache
    BY <1>0, <2>1 DEF InStep
  <2>3. InStep([req[q] EXCEPT !.pc = "exec"])
    BY <1>0, <2>1, <2>2, MovedInStep
  <2> QED
    BY <2>1, <2>3, OneInStep
<1>5. CASE RedisExec(q)
  <2>1. /\ Touch(req[q].version, q, [req[q] EXCEPT !.pc = "localset"])
        /\ req[q].pc = "exec"
    BY <1>5 DEF RedisExec, ExecWrites
  <2>2. req[q].op = "set" /\ req[q].deleted = FALSE
    BY <1>0, <2>1 DEF InStep
  <2>3. InStep([req[q] EXCEPT !.pc = "localset"])
    BY <1>0, <2>1, <2>2, MovedInStep
  <2> QED
    BY <2>1, <2>3, TouchInStep
<1>6. CASE RedisDel(q)
  BY <1>0, <1>6, DeletedInStep, TouchInStep DEF RedisDel, DelRemoves
<1>7. CASE RedisDelNothing(q)
  <2>1. req' = [req EXCEPT ![q] = [req[q] EXCEPT !.pc = "localdel"]] /\ req[q].pc = "del"
    BY <1>0, <1>7 DEF RedisDelNothing
  <2>2. req[q].op = "delete" /\ req[q].deleted = FALSE
    BY <1>0, <2>1 DEF InStep
  <2>3. InStep([req[q] EXCEPT !.pc = "localdel"])
    BY <1>0, <2>1, <2>2, MovedInStep
  <2> QED
    BY <2>1, <2>3, OneInStep
<1>8. CASE LocalGet(q)
  <2> DEFINE got == LcGet(lc[req[q].at], req[q].version)
  <2>1. CASE got = NilBytes /\ EnableRedCache
    <3>1. req' = [req EXCEPT ![q] = [req[q] EXCEPT !.pc = "redisget"]] /\ req[q].pc = "localget"
      BY <1>0, <1>8, <2>1 DEF LocalGet
    <3>2. req[q].op = "get"
      BY <1>0, <3>1 DEF InStep
    <3>3. InStep([req[q] EXCEPT !.pc = "redisget"])
      BY <1>0, <2>1, <3>1, <3>2, MovedInStep
    <3> QED
      BY <3>1, <3>3, OneInStep
  <2>2. CASE ~(got = NilBytes /\ EnableRedCache)
    BY <1>1, <1>8, <2>2 DEF LocalGet
  <2> QED
    BY <2>1, <2>2
<1>9. CASE Return(q)
  BY <1>9, IdleInStep, OneInStep DEF Return
<1>10. CASE RedisDelReplyLost(q)
  BY <1>0, <1>10, TouchInStep DEF RedisDelReplyLost, DelRemoves
<1>11. CASE RedisError(q) \/ RedisExecConflict(q) \/ LocalSet(q) \/ LocalDelete(q) \/ RedisGet(q)
  BY <1>1, <1>11 DEF RedisError, RedisExecConflict, LocalSet, LocalDelete, RedisGet
<1>12. CASE RedisExecReplyLost(q)
  BY <1>2, <1>12 DEF RedisExecReplyLost
<1> QED
  BY <1>3, <1>4, <1>5, <1>6, <1>7, <1>8, <1>9, <1>10, <1>11, <1>12 DEF RequestStep

(* A request stays with its replica until it is over. *)
LEMMA RequestsStay ==
  ASSUME IInv, StepInv, NEW q \in Requests,
         RequestStep(q) \/ RedisError(q) \/ RedisExecReplyLost(q) \/ RedisDelReplyLost(q)
  PROVE  \A p \in Requests : req'[p].pc # "idle" => req'[p].at \in up'
<1> TAKE p \in Requests
<1> USE DEF RequestStep
<1>1. up' = up
  BY DEF CheckBytes, RedisWatch, RedisExecConflict, RedisExec, ExecWrites, LocalSet, RedisDel,
         DelRemoves, RedisDelNothing, LocalDelete, LocalGet, RedisGet, Return, RedisError,
         RedisExecReplyLost, RedisDelReplyLost, replicaVars
<1>2. req \in [Requests -> Request] /\ req[p] \in Request /\ req[q] \in Request
  BY DEF IInv, TypeOK
<1>3. /\ \A a : Answered(q, a).at = req[q].at
      /\ \A n : [req[q] EXCEPT !.pc = n].at = req[q].at
      /\ [req[q] EXCEPT !.pc = "localdel", !.deleted = TRUE].at = req[q].at
      /\ [req[p] EXCEPT !.dirty = TRUE].at = req[p].at
      /\ [req[p] EXCEPT !.dirty = TRUE].pc = req[p].pc
  BY <1>2 DEF Answered, Request
<1>4. \A x : req' = [req EXCEPT ![q] = x] => req'[p] = IF p = q THEN x ELSE req[p]
  BY <1>2
<1>5. \A v, x : Touch(v, q, x) =>
        req'[p] = IF p = q THEN x
                  ELSE IF req[p].pc = "exec" /\ req[p].version = v
                       THEN [req[p] EXCEPT !.dirty = TRUE] ELSE req[p]
  BY DEF Touch
<1>6. req'[p].pc # "idle" => req'[p].at = req[p].at /\ req[p].pc # "idle"
  <2>1. CASE CheckBytes(q)
    BY <1>2, <1>3, <1>4, <2>1 DEF CheckBytes
  <2>2. CASE RedisWatch(q)
    BY <1>2, <1>3, <1>4, <2>2 DEF RedisWatch
  <2>3. CASE RedisExecConflict(q) \/ LocalSet(q) \/ LocalDelete(q) \/ RedisGet(q) \/ RedisError(q)
    <3>1. PICK a : req' = [req EXCEPT ![q] = Answered(q, a)] /\ req[q].pc # "idle"
      BY <2>3 DEF RedisExecConflict, LocalSet, LocalDelete, RedisGet, RedisError
    <3> QED
      BY <1>3, <1>4, <3>1
  <2>4. CASE RedisDelNothing(q)
    BY <1>2, <1>3, <1>4, <2>4 DEF RedisDelNothing
  <2>5. CASE LocalGet(q)
    BY <1>2, <1>3, <1>4, <2>5 DEF LocalGet
  <2>6. CASE Return(q)
    BY <1>4, <2>6 DEF Return, Idle
  <2>7. CASE RedisExec(q)
    <3>1. Touch(req[q].version, q, [req[q] EXCEPT !.pc = "localset"]) /\ req[q].pc = "exec"
      BY <2>7 DEF RedisExec, ExecWrites
    <3> DEFINE x == [req[q] EXCEPT !.pc = "localset"]
    <3>2. x.at = req[q].at
      BY <1>3
    <3> HIDE DEF x
    <3>3. req'[p] = IF p = q THEN x
                    ELSE IF req[p].pc = "exec" /\ req[p].version = req[q].version
                         THEN [req[p] EXCEPT !.dirty = TRUE] ELSE req[p]
      BY <3>1 DEF Touch, x
    <3> QED
      BY <1>3, <3>1, <3>2, <3>3
  <2>8. CASE RedisExecReplyLost(q)
    <3>1. Touch(req[q].version, q, Answered(q, "error")) /\ req[q].pc = "exec"
      BY <2>8 DEF RedisExecReplyLost, ExecWrites
    <3> DEFINE x == Answered(q, "error")
    <3>2. x.at = req[q].at
      BY <1>3
    <3> HIDE DEF x
    <3>3. req'[p] = IF p = q THEN x
                    ELSE IF req[p].pc = "exec" /\ req[p].version = req[q].version
                         THEN [req[p] EXCEPT !.dirty = TRUE] ELSE req[p]
      BY <3>1 DEF Touch, x
    <3> QED
      BY <1>3, <3>1, <3>2, <3>3
  <2>9. CASE RedisDel(q)
    <3>1. Touch(req[q].version, q, [req[q] EXCEPT !.pc = "localdel", !.deleted = TRUE]) /\ req[q].pc = "del"
      BY <2>9 DEF RedisDel, DelRemoves
    <3> QED
      BY <1>3, <1>5, <3>1
  <2>10. CASE RedisDelReplyLost(q)
    <3>1. Touch(req[q].version, q, req[q]) /\ req[q].pc = "del"
      BY <2>10 DEF RedisDelReplyLost, DelRemoves
    <3> QED
      BY <1>3, <1>5, <3>1
  <2> QED
    BY <2>1, <2>2, <2>3, <2>4, <2>5, <2>6, <2>7, <2>8, <2>9, <2>10
<1> QED
  BY <1>1, <1>6 DEF StepInv

(* Only the replica that serves it has its LocalCache changed by a request. *)
LEMMA RequestsCache ==
  ASSUME IInv, StepInv, NEW q \in Requests,
         RequestStep(q) \/ RedisError(q) \/ RedisExecReplyLost(q) \/ RedisDelReplyLost(q)
  PROVE  /\ \A r \in Replicas : r \notin up' => lc'[r] = NewLocalCache
         /\ UNCHANGED <<up, subscribed>>
         /\ ~Notifies => \A r \in Replicas : events'[r] = << >> /\ invalidating'[r] = NoVersion
<1>1. UNCHANGED <<up, subscribed, invalidating>>
  BY DEF RequestStep, CheckBytes, RedisWatch, RedisExecConflict, RedisExec, ExecWrites,
         LocalSet, RedisDel, DelRemoves, RedisDelNothing, LocalDelete, LocalGet, RedisGet,
         Return, RedisError, RedisExecReplyLost, RedisDelReplyLost, replicaVars, notifyVars
<1>2. (\E v : Publish(v)) \/ UNCHANGED events
  BY DEF RequestStep, CheckBytes, RedisWatch, RedisExecConflict, RedisExec, ExecWrites,
         LocalSet, RedisDel, DelRemoves, RedisDelNothing, LocalDelete, LocalGet, RedisGet,
         Return, RedisError, RedisExecReplyLost, RedisDelReplyLost, notifyVars
<1>3. lc' = lc \/ (req[q].pc # "idle" /\ \E c : lc' = [lc EXCEPT ![req[q].at] = c])
  BY DEF RequestStep, CheckBytes, RedisWatch, RedisExecConflict, RedisExec, ExecWrites,
         LocalSet, RedisDel, DelRemoves, RedisDelNothing, LocalDelete, LocalGet, RedisGet,
         Return, RedisError, RedisExecReplyLost, RedisDelReplyLost, replicaVars
<1>4. \A r \in Replicas : r \notin up => lc'[r] = NewLocalCache
  BY <1>3 DEF StepInv, IInv, TypeOK
<1>5. ~Notifies => \A r \in Replicas : events'[r] = << >>
  BY <1>2 DEF Publish, StepInv
<1> QED
  BY <1>1, <1>4, <1>5 DEF StepInv

LEMMA EmptyAfterDelete ==
  ASSUME NEW v PROVE LcAfterDelete(NewLocalCache, v) = NewLocalCache
  BY DEF LcAfterDelete, NewLocalCache

LEMMA NotificationsStep ==
  ASSUME IInv, StepInv, NEW r \in Replicas, NotificationStep(r) \/ ReadWriterIdError(r)
  PROVE  StepInv' /\ (~Notifies => FALSE)
<1>1. UNCHANGED <<up, subscribed, req>>
  BY DEF NotificationStep, ReadWriterId, Invalidate, ReadWriterIdError, replicaVars
<1>2. Notifies
  BY DEF NotificationStep, ReadWriterId, Invalidate, ReadWriterIdError, StepInv
<1>3. lc' = lc \/ \E v : lc' = [lc EXCEPT ![r] = LcAfterDelete(lc[r], v)]
  BY DEF NotificationStep, ReadWriterId, Invalidate, ReadWriterIdError, replicaVars, IInv, TypeOK
<1>4. \A s \in Replicas : s \notin up => lc'[s] = NewLocalCache
  BY <1>3, EmptyAfterDelete DEF StepInv, IInv, TypeOK
<1> QED
  BY <1>1, <1>2, <1>4 DEF StepInv

LEMMA StepInvInit == Init => StepInv
  BY IdleInStep DEF Init, StepInv, Idle

LEMMA StepInvNext == IInv /\ StepInv /\ [Next]_vars => StepInv'
<1> SUFFICES ASSUME IInv, StepInv, [Next]_vars PROVE StepInv'
  OBVIOUS
<1>1. ASSUME NEW q \in Requests, NEW r \in Replicas, NEW op \in Ops, NEW v \in Versions,
             NEW b \in Bytes \cup BadBytes \cup {Absent}, Invoke(q, r, op, v, b)
      PROVE  StepInv'
  <2>1. \A p \in Requests : InStep(req'[p])
    BY <1>1, InvokeInStep
  <2>2. UNCHANGED <<up, subscribed, lc, events, invalidating>> /\ r \in up
    BY <1>1 DEF Invoke, replicaVars, notifyVars
  <2>3. \A p \in Requests : req'[p].at = IF p = q THEN r ELSE req[p].at
    BY <1>1 DEF Invoke, Idle, IInv, TypeOK
  <2>4. \A p \in Requests : p # q => req'[p] = req[p]
    BY <1>1 DEF Invoke, IInv, TypeOK
  <2> QED
    BY <2>1, <2>2, <2>3, <2>4 DEF StepInv
<1>2. ASSUME NEW q \in Requests,
             RequestStep(q) \/ RedisError(q) \/ RedisExecReplyLost(q) \/ RedisDelReplyLost(q)
      PROVE  StepInv'
  BY <1>2, RequestsInStep, RequestsStay, RequestsCache DEF StepInv
<1>3. ASSUME NEW r \in Replicas, NewCache(r) PROVE StepInv'
  <2>1. UNCHANGED <<req, events, invalidating>> /\ up' = up \cup {r}
        /\ lc' = [lc EXCEPT ![r] = NewLocalCache] /\ (~Notifies => subscribed' = subscribed)
    BY <1>3 DEF NewCache, notifyVars
  <2> QED
    BY <2>1 DEF StepInv, IInv, TypeOK
<1>4. ASSUME NEW r \in Replicas, Disconnect(r) \/ Resubscribe(r) PROVE StepInv'
  <2>1. UNCHANGED <<req, events, invalidating, up, lc>> /\ Notifies
    BY <1>4 DEF Disconnect, Resubscribe, notifyVars, StepInv
  <2> QED
    BY <2>1 DEF StepInv
<1>5. ASSUME NEW r \in Replicas, Crash(r) PROVE StepInv'
  <2>1. \A q \in Requests : req'[q] = IF req[q].at = r THEN Idle ELSE req[q]
    BY <1>5 DEF Crash
  <2>2. \A q \in Requests : /\ InStep(req'[q])
                            /\ req'[q].pc # "idle" => req'[q].at \in up'
    BY <1>5, <2>1, IdleInStep DEF Crash, StepInv, Idle
  <2>3. \A s \in Replicas : s \notin up' => lc'[s] = NewLocalCache
    BY <1>5 DEF Crash, StepInv, IInv, TypeOK
  <2>4. ~Notifies => /\ subscribed' = {}
                     /\ \A s \in Replicas : events'[s] = << >> /\ invalidating'[s] = NoVersion
    BY <1>5 DEF Crash, StepInv, IInv, TypeOK
  <2> QED
    BY <2>2, <2>3, <2>4 DEF StepInv
<1>6. ASSUME NEW r \in Replicas, NotificationStep(r) \/ ReadWriterIdError(r) PROVE StepInv'
  BY <1>6, NotificationsStep
<1>7. CASE UNCHANGED vars
  BY <1>7 DEF vars, replicaVars, notifyVars, StepInv
<1> QED
  BY <1>1, <1>2, <1>3, <1>4, <1>5, <1>6, <1>7 DEF Next

-----------------------------------------------------------------------------
(***************************************************************************)
(* What the keyspace notifications are for: with both caches, a LocalCache *)
(* that disagrees with Redis is about to be corrected.                     *)
(*                                                                         *)
(* The argument follows the writer key: of two replicas only one can find  *)
(* its own id there, so every other one takes the notification as its cue  *)
(* to drop the copy, and that one has its own LocCache.Set still to come.  *)
(***************************************************************************)

\* Both caches, one Redis server, no failure, and no client that overlaps two
\* POSTs of one version.
WorkingNotifications ==
  Notifies /\ ~IsRedisCluster /\ SerialSets /\ MaxFaults = 0

OpenSet(x) == x.op = "set" /\ x.pc # "done"

\* Every process that runs is subscribed, under an id of its own.
OwnIds ==
  /\ faults = 0
  /\ subscribed = up
  /\ \A r \in up : clientId[r] < nextId
  /\ \A r, s \in up : clientId[r] = clientId[s] => r = s

OneOpenSet ==
  \A p, q \in Requests :
    OpenSet(req[p]) /\ OpenSet(req[q]) /\ req[p].version = req[q].version => p = q

\* What a handler is about to put into its LocalCache is what Redis has from
\* it, unless it was deleted since.
SetInHand ==
  \A q \in Requests :
    req[q].pc = "localset" =>
      /\ writer[req[q].version] = clientId[req[q].at]
      /\ redis[req[q].version] \in {req[q].bytes, Absent}

TransitInv == OwnIds /\ OneOpenSet /\ SetInHand /\ StaleOnlyInTransit

-----------------------------------------------------------------------------
(* What the steps of one request leave alone. *)

SameParts(x, y) ==
  y.op = x.op /\ y.at = x.at /\ y.version = x.version /\ y.bytes = x.bytes

(* A change of flags, of the step or of the answer is none of the parts. *)
LEMMA PartsKept ==
  ASSUME NEW x \in Request
  PROVE  /\ \A p : SameParts(x, [x EXCEPT !.pc = p]) /\ [x EXCEPT !.pc = p].pc = p
         /\ SameParts(x, [x EXCEPT !.dirty = TRUE]) /\ [x EXCEPT !.dirty = TRUE].pc = x.pc
         /\ SameParts(x, [x EXCEPT !.pc = "localdel", !.deleted = TRUE])
         /\ [x EXCEPT !.pc = "localdel", !.deleted = TRUE].pc = "localdel"
         /\ \A a : /\ SameParts(x, [x EXCEPT !.pc = "done", !.answer = a])
                   /\ [x EXCEPT !.pc = "done", !.answer = a].pc = "done"
  BY DEF SameParts, Request

(* A step that only moves q: the other requests stay. *)
LEMMA OthersStay ==
  ASSUME IInv, NEW q \in Requests, NEW x, req' = [req EXCEPT ![q] = x]
  PROVE  /\ req'[q] = x
         /\ \A p \in Requests : p # q => req'[p].pc = req[p].pc /\ SameParts(req[p], req'[p])
  BY DEF IInv, TypeOK, SameParts

LEMMA OthersTouched ==
  ASSUME IInv, NEW q \in Requests, NEW x, NEW v, Touch(v, q, x)
  PROVE  /\ req'[q] = x
         /\ \A p \in Requests : p # q => req'[p].pc = req[p].pc /\ SameParts(req[p], req'[p])
<1>1. req'[q] = x
  BY DEF Touch
<1>2. ASSUME NEW p \in Requests, p # q
      PROVE  req'[p].pc = req[p].pc /\ SameParts(req[p], req'[p])
  <2>1. req[p] \in Request
    BY DEF IInv, TypeOK
  <2>2. req'[p] = req[p] \/ req'[p] = [req[p] EXCEPT !.dirty = TRUE]
    BY <1>2 DEF Touch
  <2>3. CASE req'[p] = req[p]
    BY <2>3 DEF SameParts
  <2>4. CASE req'[p] = [req[p] EXCEPT !.dirty = TRUE]
    <3> DEFINE y == [req[p] EXCEPT !.dirty = TRUE]
    <3>1. SameParts(req[p], y) /\ y.pc = req[p].pc
      BY <2>1, PartsKept
    <3> HIDE DEF y
    <3> QED
      BY <2>4, <3>1 DEF y
  <2> QED
    BY <2>2, <2>3, <2>4
<1> QED
  BY <1>1, <1>2

(* A handler's step: the request goes on or ends, and only EXEC brings it to
   its LocCache.Set. *)
LEMMA RequestMoves ==
  ASSUME IInv, EnableRedCache, NEW q \in Requests, RequestStep(q)
  PROVE  /\ \A p \in Requests : p # q => req'[p].pc = req[p].pc /\ SameParts(req[p], req'[p])
         /\ \/ req'[q] = Idle
            \/ SameParts(req[q], req'[q]) /\ req[q].pc \notin {"idle", "done"}
         /\ req'[q].pc = "localset" => RedisExec(q)
<1>1. req[q] \in Request
  BY DEF IInv, TypeOK
<1>2. ASSUME NEW a, req' = [req EXCEPT ![q] = Answered(q, a)], req[q].pc \notin {"idle", "done"}
      PROVE  /\ SameParts(req[q], req'[q]) /\ req'[q].pc = "done"
             /\ \A p \in Requests : p # q => req'[p].pc = req[p].pc /\ SameParts(req[p], req'[p])
  <2> DEFINE y == Answered(q, a)
  <2>1. SameParts(req[q], y) /\ y.pc = "done"
    BY <1>1, PartsKept DEF Answered
  <2> HIDE DEF y
  <2>2. req' = [req EXCEPT ![q] = y]
    BY <1>2 DEF y
  <2> QED
    BY <2>1, <2>2, OthersStay
<1>3. ASSUME NEW n, req' = [req EXCEPT ![q] = [req[q] EXCEPT !.pc = n]],
             req[q].pc \notin {"idle", "done"}
      PROVE  /\ SameParts(req[q], req'[q]) /\ req'[q].pc = n
             /\ \A p \in Requests : p # q => req'[p].pc = req[p].pc /\ SameParts(req[p], req'[p])
  <2> DEFINE y == [req[q] EXCEPT !.pc = n]
  <2>1. SameParts(req[q], y) /\ y.pc = n
    BY <1>1 DEF SameParts, Request
  <2> HIDE DEF y
  <2>2. req' = [req EXCEPT ![q] = y]
    BY <1>3 DEF y
  <2> QED
    BY <2>1, <2>2, OthersStay
<1>4. req \in [Requests -> Request]
  BY DEF IInv, TypeOK
<1>5. CASE CheckBytes(q)
  <2>1. \/ req' = [req EXCEPT ![q] = Answered(q, "error")]
        \/ req' = [req EXCEPT ![q] = [req[q] EXCEPT !.pc = "watch"]]
    BY <1>4, <1>5 DEF CheckBytes
  <2> QED
    BY <1>2, <1>3, <1>5, <2>1 DEF CheckBytes
<1>6. CASE RedisWatch(q) \/ RedisDelNothing(q)
  <2>1. \/ req' = [req EXCEPT ![q] = [req[q] EXCEPT !.pc = "exec"]]
        \/ req' = [req EXCEPT ![q] = [req[q] EXCEPT !.pc = "localdel"]]
    BY <1>4, <1>6 DEF RedisWatch, RedisDelNothing
  <2> QED
    BY <1>3, <1>6, <2>1 DEF RedisWatch, RedisDelNothing
<1>7. CASE RedisExecConflict(q) \/ LocalSet(q) \/ LocalDelete(q) \/ RedisGet(q)
  <2>1. PICK a : req' = [req EXCEPT ![q] = Answered(q, a)]
    BY <1>7 DEF RedisExecConflict, LocalSet, LocalDelete, RedisGet
  <2>2. req[q].pc \notin {"idle", "done"}
    BY <1>7 DEF RedisExecConflict, LocalSet, LocalDelete, RedisGet
  <2> QED
    BY <1>2, <2>1, <2>2
<1>8. CASE LocalGet(q)
  <2>1. \/ \E a : req' = [req EXCEPT ![q] = Answered(q, a)]
        \/ req' = [req EXCEPT ![q] = [req[q] EXCEPT !.pc = "redisget"]]
    BY <1>4, <1>8 DEF LocalGet
  <2> QED
    BY <1>2, <1>3, <1>8, <2>1 DEF LocalGet
<1>9. CASE Return(q)
  <2>1. req' = [req EXCEPT ![q] = Idle] /\ Idle.pc # "localset"
    BY <1>9 DEF Return, Idle
  <2> QED
    BY <2>1, OthersStay
<1>10. CASE RedisExec(q)
  <2> DEFINE y == [req[q] EXCEPT !.pc = "localset"]
  <2>1. Touch(req[q].version, q, y) /\ req[q].pc = "exec"
    BY <1>10 DEF RedisExec, ExecWrites
  <2>2. SameParts(req[q], y)
    BY <1>1, PartsKept
  <2> HIDE DEF y
  <2> QED
    BY <1>10, <2>1, <2>2, OthersTouched
<1>11. CASE RedisDel(q)
  <2> DEFINE y == [req[q] EXCEPT !.pc = "localdel", !.deleted = TRUE]
  <2>1. Touch(req[q].version, q, y) /\ req[q].pc = "del"
    BY <1>11 DEF RedisDel, DelRemoves
  <2>2. SameParts(req[q], y) /\ y.pc = "localdel"
    BY <1>1, PartsKept
  <2> HIDE DEF y
  <2> QED
    BY <2>1, <2>2, OthersTouched
<1> QED
  BY <1>5, <1>6, <1>7, <1>8, <1>9, <1>10, <1>11 DEF RequestStep

-----------------------------------------------------------------------------
(* Ids and subscriptions. *)

LEMMA NoFault == ASSUME WorkingNotifications, OwnIds PROVE ~Fault
  BY DEF WorkingNotifications, OwnIds, Fault

(* Without faults only these steps are left. *)
LEMMA WorkingSteps ==
  ASSUME WorkingNotifications, IInv, OwnIds, Next
  PROVE  \/ \E q \in Requests, r \in Replicas, op \in Ops, v \in Versions,
               b \in Bytes \cup BadBytes \cup {Absent} : Invoke(q, r, op, v, b)
         \/ \E q \in Requests : RequestStep(q)
         \/ \E r \in Replicas : NewCache(r) \/ ReadWriterId(r) \/ Invalidate(r)
<1>1. ~Fault /\ subscribed = up
  BY NoFault DEF OwnIds
<1>2. \A q \in Requests : ~RedisError(q) /\ ~RedisExecReplyLost(q) /\ ~RedisDelReplyLost(q)
  BY <1>1 DEF RedisError, RedisExecReplyLost, RedisDelReplyLost
<1>3. \A r \in Replicas : ~Disconnect(r) /\ ~Resubscribe(r) /\ ~Crash(r) /\ ~ReadWriterIdError(r)
  BY <1>1 DEF Disconnect, Resubscribe, Crash, ReadWriterIdError
<1> QED
  BY <1>2, <1>3 DEF Next, NotificationStep

(* Nothing but the start of a process changes ids and subscriptions. *)
LEMMA RequestKeepsReplicas ==
  ASSUME NEW q \in Requests, RequestStep(q)
  PROVE  UNCHANGED <<up, clientId, nextId, subscribed, invalidating, faults>>
  BY DEF RequestStep, CheckBytes, RedisWatch, RedisExecConflict, RedisExec, ExecWrites,
         LocalSet, RedisDel, DelRemoves, RedisDelNothing, LocalDelete, LocalGet, RedisGet,
         Return, replicaVars, notifyVars, boundVars

LEMMA NewCacheIds ==
  ASSUME WorkingNotifications, OwnIds, NEW r \in Replicas, NewCache(r)
  PROVE  /\ r \notin up /\ up' = up \cup {r} /\ subscribed' = subscribed \cup {r}
         /\ clientId' = [clientId EXCEPT ![r] = nextId] /\ nextId' = nextId + 1
         /\ lc' = [lc EXCEPT ![r] = NewLocalCache]
         /\ UNCHANGED <<redis, writer, req, events, invalidating, faults>>
<1>1. ~Fault
  BY NoFault
<1>2. FreshIds = {nextId} /\ Notifies
  BY DEF WorkingNotifications, FreshIds
<1> QED
  BY <1>1, <1>2 DEF NewCache, redisVars, notifyVars

LEMMA NewCacheOwnIds ==
  ASSUME WorkingNotifications, IInv, OwnIds, NEW r \in Replicas, NewCache(r)
  PROVE  OwnIds'
<1>1. /\ clientId \in [Replicas -> Nat] /\ nextId \in Nat /\ up \subseteq Replicas
  BY DEF IInv, TypeOK
<1>2. \A s \in up : clientId'[s] = clientId[s]
  BY <1>1, NewCacheIds
<1>3. clientId'[r] = nextId /\ nextId' = nextId + 1 /\ up' = up \cup {r}
  BY <1>1, NewCacheIds
<1>4. \A s \in up : clientId[s] < nextId /\ clientId[s] \in Nat
  BY <1>1 DEF OwnIds
<1>5. \A s \in up' : clientId'[s] < nextId'
  BY <1>1, <1>2, <1>3, <1>4
<1>6. \A s, t \in up' : clientId'[s] = clientId'[t] => s = t
  BY <1>1, <1>2, <1>3, <1>4 DEF OwnIds
<1> QED
  BY <1>3, <1>5, <1>6, NewCacheIds DEF OwnIds

-----------------------------------------------------------------------------
(* POSTs of one version do not overlap. *)

LEMMA RequestOneOpenSet ==
  ASSUME IInv, EnableRedCache, OneOpenSet, NEW q \in Requests, RequestStep(q)
  PROVE  OneOpenSet'
<1>1. ASSUME NEW p \in Requests, OpenSet(req'[p])
      PROVE  OpenSet(req[p]) /\ req'[p].version = req[p].version
  <2>1. CASE p = q
    BY <1>1, <2>1, RequestMoves DEF OpenSet, SameParts, Idle
  <2>2. CASE p # q
    BY <1>1, <2>2, RequestMoves DEF OpenSet, SameParts
  <2> QED
    BY <2>1, <2>2
<1> QED
  BY <1>1 DEF OneOpenSet

LEMMA InvokeMoves ==
  ASSUME IInv, NEW q \in Requests, NEW r, NEW op \in Ops, NEW v, NEW b,
         Invoke(q, r, op, v, b)
  PROVE  /\ \A p \in Requests : p # q => req'[p] = req[p]
         /\ req'[q].op = op /\ req'[q].version = v /\ req'[q].pc # "localset"
         /\ req[q].pc = "idle"
<1> DEFINE n == IF IsActive THEN FirstStep(op) ELSE "done"
           a == IF IsActive THEN "none" ELSE "error"
           x == [Idle EXCEPT !.pc = n, !.answer = a, !.op = op, !.at = r, !.version = v,
                             !.bytes = b]
<1>1. req' = [req EXCEPT ![q] = x] /\ req[q].pc = "idle"
  BY DEF Invoke
<1>2. n # "localset"
  BY ConfigAssumption DEF FirstStep
<1> HIDE DEF n, a
<1>3. x.pc = n /\ x.op = op /\ x.version = v
  BY DEF Idle
<1> HIDE DEF x
<1> QED
  BY <1>1, <1>2, <1>3 DEF IInv, TypeOK

LEMMA InvokeOneOpenSet ==
  ASSUME WorkingNotifications, IInv, OneOpenSet, NEW q \in Requests, NEW r \in Replicas,
         NEW op \in Ops, NEW v \in Versions, NEW b \in Bytes \cup BadBytes \cup {Absent},
         Invoke(q, r, op, v, b)
  PROVE  OneOpenSet'
<1>1. /\ \A p \in Requests : p # q => req'[p] = req[p]
      /\ req'[q].op = op /\ req'[q].version = v
  BY InvokeMoves
<1>2. op = "set" => \A p \in Requests :
        req[p].op = "set" /\ req[p].version = v => req[p].pc = "done"
  BY DEF Invoke, WorkingNotifications
<1> QED
  BY <1>1, <1>2 DEF OneOpenSet, OpenSet

-----------------------------------------------------------------------------
(* What a handler is about to put into its LocalCache. *)

LEMMA RedisExecEffect ==
  ASSUME IInv, NEW q \in Requests, RedisExec(q)
  PROVE  LET v == req[q].version
         IN  /\ req[q].pc = "exec" /\ v \in Versions /\ req[q].at \in Replicas
             /\ redis'[v] = req[q].bytes /\ writer'[v] = clientId[req[q].at]
             /\ \A w \in Versions : w # v => redis'[w] = redis[w] /\ writer'[w] = writer[w]
             /\ \A r \in Replicas : events'[r] = IF r \in subscribed THEN Append(events[r], v)
                                                                     ELSE events[r]
             /\ lc' = lc
             /\ req'[q].pc = "localset" /\ SameParts(req[q], req'[q])
<1>1. req[q].pc = "exec" /\ req[q] \in Request
  BY DEF RedisExec, ExecWrites, IInv, TypeOK
<1>2. req[q].version \in Versions /\ req[q].at \in Replicas
  BY <1>1, NotIdle DEF IInv, GoodRequest
<1>3. redis \in [Versions -> Bytes \cup {Absent}] /\ writer \in [Versions -> Nat]
  BY DEF IInv, TypeOK
<1> DEFINE y == [req[q] EXCEPT !.pc = "localset"]
<1>4. SameParts(req[q], y) /\ y.pc = "localset"
  BY <1>1 DEF SameParts, Request
<1> HIDE DEF y
<1>5. req'[q] = y
  BY DEF RedisExec, Touch, y
<1>6. redis' = [redis EXCEPT ![req[q].version] = req[q].bytes]
      /\ writer' = [writer EXCEPT ![req[q].version] = clientId[req[q].at]]
      /\ Publish(req[q].version) /\ lc' = lc
  BY DEF RedisExec, ExecWrites, replicaVars
<1> QED
  BY <1>1, <1>2, <1>3, <1>4, <1>5, <1>6 DEF Publish

LEMMA RedisDelEffect ==
  ASSUME IInv, NEW q \in Requests, RedisDel(q)
  PROVE  LET v == req[q].version
         IN  /\ v \in Versions /\ redis'[v] = Absent /\ writer' = writer
             /\ \A w \in Versions : w # v => redis'[w] = redis[w]
             /\ \A r \in Replicas : events'[r] = IF r \in subscribed THEN Append(events[r], v)
                                                                     ELSE events[r]
             /\ lc' = lc
<1>1. req[q].pc = "del"
  BY DEF RedisDel, DelRemoves
<1>2. req[q].version \in Versions
  BY <1>1, NotIdle DEF IInv, GoodRequest
<1>3. redis \in [Versions -> Bytes \cup {Absent}]
  BY DEF IInv, TypeOK
<1>4. /\ redis' = [redis EXCEPT ![req[q].version] = Absent] /\ writer' = writer
      /\ Publish(req[q].version) /\ lc' = lc
  BY DEF RedisDel, DelRemoves, replicaVars
<1> QED
  BY <1>2, <1>3, <1>4 DEF Publish

LEMMA OtherStepsKeepRedis ==
  ASSUME NEW q \in Requests, RequestStep(q), ~RedisExec(q), ~RedisDel(q)
  PROVE  UNCHANGED <<redis, writer, events>>
  BY DEF RequestStep, CheckBytes, RedisWatch, RedisExecConflict, LocalSet,
         RedisDelNothing, LocalDelete, LocalGet, RedisGet, Return, redisVars, notifyVars

(* A request in its LocCache.Set step was there before, but for the one that
   EXEC brought there. *)
LEMMA RequestSetInHand ==
  ASSUME IInv, StepInv, EnableRedCache, OneOpenSet, SetInHand,
         NEW q \in Requests, RequestStep(q)
  PROVE  SetInHand'
<1> SUFFICES ASSUME NEW p \in Requests, req'[p].pc = "localset"
             PROVE  /\ writer'[req'[p].version] = clientId'[req'[p].at]
                    /\ redis'[req'[p].version] \in {req'[p].bytes, Absent}
  BY DEF SetInHand
<1>1. clientId' = clientId
  BY RequestKeepsReplicas
<1>2. CASE p = q
  <2>1. RedisExec(q)
    BY <1>2, RequestMoves
  <2> QED
    BY <1>1, <1>2, <2>1, RedisExecEffect DEF SameParts
<1>3. CASE p # q
  <2>1. req[p].pc = "localset" /\ SameParts(req[p], req'[p])
    BY <1>3, RequestMoves
  <2>2. /\ writer[req[p].version] = clientId[req[p].at]
        /\ redis[req[p].version] \in {req[p].bytes, Absent}
    BY <2>1 DEF SetInHand
  <2>3. req[p].version \in Versions
    BY <2>1, NotIdle DEF IInv, GoodRequest
  <2>4. CASE RedisExec(q)
    <3>1. req[q].pc = "exec" /\ OpenSet(req[q]) /\ OpenSet(req[p])
      BY <2>1, <2>4, RedisExecEffect DEF OpenSet, StepInv, InStep
    <3>2. req[p].version # req[q].version
      BY <1>3, <3>1 DEF OneOpenSet
    <3> QED
      BY <1>1, <2>1, <2>2, <2>3, <2>4, <3>2, RedisExecEffect DEF SameParts
  <2>5. CASE RedisDel(q)
    BY <1>1, <2>1, <2>2, <2>3, <2>5, RedisDelEffect DEF SameParts
  <2>6. CASE ~RedisExec(q) /\ ~RedisDel(q)
    BY <1>1, <2>1, <2>2, <2>6, OtherStepsKeepRedis DEF SameParts
  <2> QED
    BY <2>4, <2>5, <2>6
<1> QED
  BY <1>2, <1>3

-----------------------------------------------------------------------------
(* Stale copies. *)

Corrected(r, v) ==
  PendingLocalSet(r, v) \/ PendingInvalidation(r, v) \/ DeletedLastWriter(r, v)

(* A notification that waits is not lost when another one comes. *)
LEMMA StillPending ==
  ASSUME IInv, NEW r \in Replicas, NEW v, NEW w,
         invalidating' = invalidating, clientId' = clientId, writer'[v] = writer[v],
         events'[r] \in {events[r], Append(events[r], w)}, PendingInvalidation(r, v)
  PROVE  PendingInvalidation(r, v)'
<1>1. events[r] \in Seq(Versions)
  BY DEF IInv, TypeOK
<1>2. CASE invalidating[r] = v
  BY <1>2 DEF PendingInvalidation
<1>3. CASE writer[v] # clientId[r] /\ \E i \in 1..Len(events[r]) : events[r][i] = v
  <2>1. PICK i \in 1..Len(events[r]) : events[r][i] = v
    BY <1>3
  <2>2. i \in 1..Len(events'[r]) /\ events'[r][i] = v
    <3>1. CASE events'[r] = events[r]
      BY <2>1, <3>1
    <3>2. CASE events'[r] = Append(events[r], w)
      <4>1. Len(events'[r]) = Len(events[r]) + 1 /\ events'[r][i] = events[r][i]
        BY <1>1, <2>1, <3>2
      <4> QED
        BY <1>1, <2>1, <4>1
    <3> QED
      BY <3>1, <3>2
  <2>3. writer'[v] # clientId'[r]
    BY <1>3
  <2> QED
    BY <2>2, <2>3 DEF PendingInvalidation
<1> QED
  BY <1>2, <1>3 DEF PendingInvalidation

(* A new notification is pending for whoever did not write. *)
LEMMA NewPending ==
  ASSUME IInv, NEW r \in Replicas, NEW v, events'[r] = Append(events[r], v),
         writer'[v] # clientId'[r]
  PROVE  PendingInvalidation(r, v)'
<1>1. events[r] \in Seq(Versions)
  BY DEF IInv, TypeOK
<1>2. Len(events'[r]) = Len(events[r]) + 1 /\ events'[r][Len(events[r]) + 1] = v
  BY <1>1
<1>3. Len(events[r]) + 1 \in 1..Len(events'[r])
  BY <1>1, <1>2
<1> QED
  BY <1>2, <1>3 DEF PendingInvalidation

(* A handler's LocCache.Set that is still to come, unless this is it. *)
LEMMA StillInHand ==
  ASSUME IInv, EnableRedCache, NEW q \in Requests, RequestStep(q), ~LocalSet(q),
         NEW r, NEW v, PendingLocalSet(r, v)
  PROVE  PendingLocalSet(r, v)'
<1>1. PICK p \in Requests : req[p].pc = "localset" /\ req[p].at = r /\ req[p].version = v
  BY DEF PendingLocalSet
<1>2. p # q
  BY <1>1 DEF RequestStep, CheckBytes, RedisWatch, RedisExecConflict, RedisExec, ExecWrites,
              RedisDel, DelRemoves, RedisDelNothing, LocalDelete, LocalGet, RedisGet, Return
<1>3. req'[p].pc = "localset" /\ req'[p].at = r /\ req'[p].version = v
  BY <1>1, <1>2, RequestMoves DEF SameParts
<1> QED
  BY <1>3 DEF PendingLocalSet

(* Only a running process holds anything. *)
LEMMA HolderRuns ==
  ASSUME IInv, StepInv, NEW r \in Replicas, NEW v, Holds(r, v) PROVE r \in up
  BY NewFacts DEF StepInv, Holds

LEMMA RedisExecStale ==
  ASSUME WorkingNotifications, IInv, StepInv, TransitInv, NEW q \in Requests, RedisExec(q),
         NEW r \in Replicas, NEW v \in Versions, Stale(r, v)'
  PROVE  Corrected(r, v)'
<1>1. RequestStep(q) /\ EnableRedCache
  BY DEF RequestStep, WorkingNotifications, Notifies
<1>2. /\ UNCHANGED <<clientId, invalidating>> /\ lc' = lc
      /\ subscribed = up /\ req[q].pc = "exec"
  BY <1>1, RequestKeepsReplicas, RedisExecEffect DEF TransitInv, OwnIds
<1>3. Holds(r, v)
  BY <1>2 DEF Stale, Holds
<1>4. r \in up /\ req[q].at \in up
  BY <1>2, <1>3, HolderRuns DEF StepInv
<1>5. events'[r] = Append(events[r], req[q].version)
  BY <1>2, <1>4, RedisExecEffect
<1>6. CASE v = req[q].version
  <2>1. CASE r = req[q].at
    <3>1. req'[q].pc = "localset" /\ req'[q].at = r /\ req'[q].version = v
      BY <1>6, <2>1, RedisExecEffect DEF SameParts
    <3> QED
      BY <3>1 DEF Corrected, PendingLocalSet
  <2>2. CASE r # req[q].at
    <3>1. clientId[r] # clientId[req[q].at]
      BY <1>4, <2>2 DEF TransitInv, OwnIds
    <3>2. writer'[v] # clientId'[r]
      BY <1>2, <1>6, <3>1, RedisExecEffect
    <3> QED
      BY <1>5, <1>6, <3>2, NewPending DEF Corrected
  <2> QED
    BY <2>1, <2>2
<1>7. CASE v # req[q].version
  <2>1. redis'[v] = redis[v] /\ writer'[v] = writer[v]
    BY <1>7, RedisExecEffect
  <2>2. Stale(r, v)
    BY <1>2, <2>1 DEF Stale, Holds, Copy
  <2>3. CASE PendingLocalSet(r, v)
    <3>1. ~LocalSet(q)
      BY <1>2 DEF LocalSet
    <3> QED
      BY <1>1, <2>3, <3>1, StillInHand DEF Corrected
  <2>4. CASE PendingInvalidation(r, v)
    BY <1>2, <1>5, <2>1, <2>4, StillPending DEF Corrected
  <2>5. CASE DeletedLastWriter(r, v)
    BY <1>2, <2>1, <2>5 DEF Corrected, DeletedLastWriter
  <2> QED
    BY <2>2, <2>3, <2>4, <2>5 DEF TransitInv, StaleOnlyInTransit
<1> QED
  BY <1>6, <1>7

LEMMA RedisDelStale ==
  ASSUME WorkingNotifications, IInv, StepInv, TransitInv, NEW q \in Requests, RedisDel(q),
         NEW r \in Replicas, NEW v \in Versions, Stale(r, v)'
  PROVE  Corrected(r, v)'
<1>1. RequestStep(q) /\ EnableRedCache
  BY DEF RequestStep, WorkingNotifications, Notifies
<1>2. /\ UNCHANGED <<clientId, invalidating, writer>> /\ lc' = lc
      /\ subscribed = up
  BY <1>1, RequestKeepsReplicas, RedisDelEffect DEF TransitInv, OwnIds
<1>3. r \in up
  BY <1>2, HolderRuns DEF Stale, Holds
<1>4. events'[r] = Append(events[r], req[q].version)
  BY <1>2, <1>3, RedisDelEffect
<1>5. CASE v = req[q].version /\ writer[v] = clientId[r]
  BY <1>2, <1>5, RedisDelEffect DEF Corrected, DeletedLastWriter
<1>6. CASE v = req[q].version /\ writer[v] # clientId[r]
  BY <1>2, <1>4, <1>6, NewPending DEF Corrected
<1>7. CASE v # req[q].version
  <2>1. redis'[v] = redis[v]
    BY <1>7, RedisDelEffect
  <2>2. Stale(r, v)
    BY <1>2, <2>1 DEF Stale, Holds, Copy
  <2>3. CASE PendingLocalSet(r, v)
    <3>1. ~LocalSet(q)
      BY DEF LocalSet, RedisDel, DelRemoves
    <3> QED
      BY <1>1, <2>3, <3>1, StillInHand DEF Corrected
  <2>4. CASE PendingInvalidation(r, v)
    BY <1>2, <1>4, <2>4, StillPending DEF Corrected
  <2>5. CASE DeletedLastWriter(r, v)
    BY <1>2, <2>1, <2>5 DEF Corrected, DeletedLastWriter
  <2> QED
    BY <2>2, <2>3, <2>4, <2>5 DEF TransitInv, StaleOnlyInTransit
<1> QED
  BY <1>5, <1>6, <1>7

(* A step that touches neither Redis nor the notifications: what is stale was
   stale, and its correction is still to come. *)
LEMMA QuietStale ==
  ASSUME IInv, TransitInv, NEW r \in Replicas, NEW v \in Versions, Stale(r, v)',
         UNCHANGED <<redis, writer, events, invalidating>>, clientId'[r] = clientId[r],
         Holds(r, v)' => Holds(r, v) /\ Copy(r, v)' = Copy(r, v),
         PendingLocalSet(r, v) => PendingLocalSet(r, v)'
  PROVE  Corrected(r, v)'
<1>1. Stale(r, v)
  BY DEF Stale
<1>2. PendingInvalidation(r, v) => PendingInvalidation(r, v)'
  BY DEF PendingInvalidation
<1>3. DeletedLastWriter(r, v) => DeletedLastWriter(r, v)'
  BY DEF DeletedLastWriter
<1> QED
  BY <1>1, <1>2, <1>3 DEF TransitInv, StaleOnlyInTransit, Corrected

LEMMA LocalSetStale ==
  ASSUME WorkingNotifications, IInv, StepInv, TransitInv, NEW q \in Requests, LocalSet(q),
         NEW r \in Replicas, NEW v \in Versions, Stale(r, v)'
  PROVE  Corrected(r, v)'
<1> DEFINE s == req[q].at
           w == req[q].version
<1>1. RequestStep(q) /\ EnableRedCache /\ EnableLocalCache /\ req[q].pc = "localset"
  BY DEF RequestStep, WorkingNotifications, Notifies, LocalSet
<1>2. s \in Replicas /\ w \in Versions /\ req[q].bytes \in Bytes
  BY <1>1, NotIdle DEF IInv, GoodRequest
<1>3. /\ UNCHANGED <<redis, writer, events, clientId, invalidating>>
      /\ lc' = [lc EXCEPT ![s] = LcSet(lc[s], w, req[q].bytes)]
  BY <1>1 DEF LocalSet, redisVars, notifyVars, IInv, TypeOK
<1>4. lc \in [Replicas -> LocalCacheType] /\ WellFormed(lc[s])
  BY <1>2 DEF IInv, TypeOK, GoodCache
<1>5. /\ lc'[s].versionsMap \subseteq lc[s].versionsMap \cup {w}
      /\ \A u \in lc'[s].versionsMap :
           LcGet(lc'[s], u) = IF u = w THEN req[q].bytes ELSE LcGet(lc[s], u)
  BY <1>2, <1>3, <1>4, SetFacts
<1>6. CASE r = s /\ v = w
  <2>1. Copy(r, v)' = req[q].bytes
    BY <1>5, <1>6 DEF Stale, Holds, Copy
  <2>2. redis[v] = Absent /\ writer[v] = clientId[r]
    BY <1>1, <1>3, <1>6, <2>1 DEF Stale, TransitInv, SetInHand
  <2> QED
    BY <1>3, <2>2 DEF Corrected, DeletedLastWriter
<1>7. CASE ~(r = s /\ v = w)
  <2>1. Holds(r, v)' => Holds(r, v) /\ Copy(r, v)' = Copy(r, v)
    <3>1. CASE r = s
      BY <1>5, <1>7, <3>1 DEF Holds, Copy
    <3>2. CASE r # s
      BY <1>3, <1>4, <3>2 DEF Holds, Copy
    <3> QED
      BY <3>1, <3>2
  <2>2. ASSUME PendingLocalSet(r, v) PROVE PendingLocalSet(r, v)'
    <3>1. PICK p \in Requests : req[p].pc = "localset" /\ req[p].at = r /\ req[p].version = v
      BY <2>2 DEF PendingLocalSet
    <3>2. p # q
      BY <1>7, <3>1
    <3>3. req'[p].pc = "localset" /\ req'[p].at = r /\ req'[p].version = v
      BY <1>1, <3>1, <3>2, RequestMoves DEF SameParts
    <3> QED
      BY <3>3 DEF PendingLocalSet
  <2> QED
    BY <1>3, <2>1, <2>2, QuietStale
<1> QED
  BY <1>6, <1>7

(* The other steps of a handler put nothing into a LocalCache. *)
LEMMA OtherStepsStale ==
  ASSUME WorkingNotifications, IInv, StepInv, TransitInv, NEW q \in Requests, RequestStep(q),
         ~RedisExec(q), ~RedisDel(q), ~LocalSet(q),
         NEW r \in Replicas, NEW v \in Versions, Stale(r, v)'
  PROVE  Corrected(r, v)'
<1>1. EnableRedCache /\ lc \in [Replicas -> LocalCacheType]
  BY DEF WorkingNotifications, Notifies, IInv, TypeOK
<1>2. UNCHANGED <<redis, writer, events, clientId, invalidating>>
  BY OtherStepsKeepRedis, RequestKeepsReplicas
<1>3. \/ lc' = lc
      \/ lc' = [lc EXCEPT ![req[q].at] = LcAfterDelete(lc[req[q].at], req[q].version)]
      \/ lc' = [lc EXCEPT ![req[q].at] = LcAfterGet(lc[req[q].at], req[q].version)]
  BY <1>1 DEF RequestStep, CheckBytes, RedisWatch, RedisExecConflict, RedisDelNothing,
              LocalDelete, LocalGet, RedisGet, Return, replicaVars
<1>4. WellFormed(lc[r])
  BY DEF IInv, GoodCache
<1>5. \/ lc'[r] = lc[r]
      \/ lc'[r] = LcAfterDelete(lc[r], req[q].version)
      \/ lc'[r] = LcAfterGet(lc[r], req[q].version)
  BY <1>1, <1>3
<1>6. Holds(r, v)' => Holds(r, v) /\ Copy(r, v)' = Copy(r, v)
  <2>1. CASE lc'[r] = lc[r]
    BY <2>1 DEF Holds, Copy
  <2>2. CASE lc'[r] = LcAfterDelete(lc[r], req[q].version)
    BY <1>4, <2>2, AfterDeleteFacts DEF Holds, Copy
  <2>3. CASE lc'[r] = LcAfterGet(lc[r], req[q].version)
    BY <1>4, <2>3, AfterGetFacts DEF Holds, Copy
  <2> QED
    BY <1>5, <2>1, <2>2, <2>3
<1> QED
  BY <1>1, <1>2, <1>6, StillInHand, QuietStale

(* A start, and a request that comes in. *)
LEMMA NewCacheStale ==
  ASSUME WorkingNotifications, IInv, TransitInv, NEW s \in Replicas, NewCache(s),
         NEW r \in Replicas, NEW v \in Versions, Stale(r, v)'
  PROVE  Corrected(r, v)'
<1>1. /\ clientId' = [clientId EXCEPT ![s] = nextId]
      /\ lc' = [lc EXCEPT ![s] = NewLocalCache]
      /\ UNCHANGED <<redis, writer, req, events, invalidating>>
  BY NewCacheIds DEF TransitInv
<1>2. lc \in [Replicas -> LocalCacheType] /\ clientId \in [Replicas -> Nat]
  BY DEF IInv, TypeOK
<1>3. r # s
  BY <1>1, <1>2, NewFacts DEF Stale, Holds
<1>4. lc'[r] = lc[r] /\ clientId'[r] = clientId[r]
  BY <1>1, <1>2, <1>3
<1>5. PendingLocalSet(r, v) => PendingLocalSet(r, v)'
  BY <1>1 DEF PendingLocalSet
<1> QED
  BY <1>1, <1>4, <1>5, QuietStale DEF Holds, Copy

LEMMA InvokeStale ==
  ASSUME IInv, TransitInv, NEW q \in Requests, NEW s \in Replicas, NEW op \in Ops,
         NEW w \in Versions, NEW b \in Bytes \cup BadBytes \cup {Absent},
         Invoke(q, s, op, w, b), NEW r \in Replicas, NEW v \in Versions, Stale(r, v)'
  PROVE  Corrected(r, v)'
<1>1. UNCHANGED <<redis, writer, events, invalidating, clientId, lc>>
  BY DEF Invoke, redisVars, replicaVars, notifyVars
<1>2. PendingLocalSet(r, v) => PendingLocalSet(r, v)'
  BY InvokeMoves DEF PendingLocalSet
<1> QED
  BY <1>1, <1>2, QuietStale DEF Holds, Copy

-----------------------------------------------------------------------------
(* The notification goroutine. *)

LEMMA ReadWriterIdStale ==
  ASSUME IInv, TransitInv, NEW s \in Replicas, ReadWriterId(s),
         NEW r \in Replicas, NEW v \in Versions, Stale(r, v)'
  PROVE  Corrected(r, v)'
<1>1. /\ UNCHANGED <<redis, writer, clientId, lc, req>>
      /\ invalidating[s] = NoVersion /\ events[s] # << >>
      /\ events' = [events EXCEPT ![s] = Tail(events[s])]
      /\ invalidating' = [invalidating EXCEPT ![s] =
            IF writer[Head(events[s])] = clientId[s] THEN NoVersion ELSE Head(events[s])]
  BY DEF ReadWriterId, redisVars, replicaVars, IInv, TypeOK
<1>2. /\ events \in [Replicas -> Seq(Versions)]
      /\ invalidating \in [Replicas -> Versions \cup {NoVersion}]
      /\ NoVersion \notin Versions
  BY BytesAssumption DEF IInv, TypeOK
<1>3. Stale(r, v)
  BY <1>1 DEF Stale, Holds, Copy
<1>4. CASE PendingLocalSet(r, v) \/ DeletedLastWriter(r, v)
  BY <1>1, <1>4 DEF Corrected, PendingLocalSet, DeletedLastWriter
<1>5. CASE PendingInvalidation(r, v) /\ r # s
  <2>1. events'[r] = events[r] /\ invalidating'[r] = invalidating[r]
    BY <1>1, <1>2, <1>5
  <2> QED
    BY <1>1, <1>5, <2>1 DEF Corrected, PendingInvalidation
<1>6. CASE PendingInvalidation(r, v) /\ r = s
  <2>1. writer[v] # clientId[r] /\ \E i \in 1..Len(events[r]) : events[r][i] = v
    BY <1>1, <1>2, <1>6 DEF PendingInvalidation
  <2>2. PICK i \in 1..Len(events[r]) : events[r][i] = v
    BY <2>1
  <2>3. events[r] \in Seq(Versions) /\ events[r] # << >> /\ events'[r] = Tail(events[r])
    BY <1>1, <1>2, <1>6
  <2>4. CASE i = 1
    <3>1. Head(events[r]) = v
      BY <2>2, <2>3, <2>4
    <3>2. invalidating'[r] = v
      BY <1>1, <1>2, <1>6, <2>1, <3>1
    <3> QED
      BY <3>2 DEF Corrected, PendingInvalidation
  <2>5. CASE i # 1
    <3>1. i - 1 \in 1..Len(events'[r]) /\ events'[r][i - 1] = v
      BY <2>2, <2>3, <2>5
    <3> QED
      BY <1>1, <2>1, <3>1 DEF Corrected, PendingInvalidation
  <2> QED
    BY <2>4, <2>5
<1> QED
  BY <1>3, <1>4, <1>5, <1>6 DEF TransitInv, StaleOnlyInTransit

LEMMA InvalidateStale ==
  ASSUME IInv, TransitInv, NEW s \in Replicas, Invalidate(s),
         NEW r \in Replicas, NEW v \in Versions, Stale(r, v)'
  PROVE  Corrected(r, v)'
<1>1. /\ UNCHANGED <<redis, writer, clientId, events, req>>
      /\ lc' = [lc EXCEPT ![s] = LcAfterDelete(lc[s], invalidating[s])]
      /\ invalidating' = [invalidating EXCEPT ![s] = NoVersion]
  BY DEF Invalidate, redisVars, IInv, TypeOK
<1>2. /\ lc \in [Replicas -> LocalCacheType] /\ WellFormed(lc[s])
      /\ invalidating \in [Replicas -> Versions \cup {NoVersion}]
  BY DEF IInv, TypeOK, GoodCache
<1>3. /\ lc'[s].versionsMap = lc[s].versionsMap \ {invalidating[s]}
      /\ \A u \in lc'[s].versionsMap : LcGet(lc'[s], u) = LcGet(lc[s], u)
  BY <1>1, <1>2, AfterDeleteFacts
<1>4. r # s => lc'[r] = lc[r] /\ invalidating'[r] = invalidating[r]
  BY <1>1, <1>2
<1>5. Stale(r, v) /\ (r = s => v # invalidating[s])
  BY <1>1, <1>3, <1>4 DEF Stale, Holds, Copy
<1>6. PendingInvalidation(r, v) => PendingInvalidation(r, v)'
  BY <1>1, <1>4, <1>5 DEF PendingInvalidation
<1>7. PendingLocalSet(r, v) \/ DeletedLastWriter(r, v) => Corrected(r, v)'
  BY <1>1 DEF Corrected, PendingLocalSet, DeletedLastWriter
<1> QED
  BY <1>5, <1>6, <1>7 DEF TransitInv, StaleOnlyInTransit, Corrected

-----------------------------------------------------------------------------
(* The invariant. *)

LEMMA TransitInit == Init => TransitInv
  BY DEF Init, TransitInv, OwnIds, OneOpenSet, SetInHand, StaleOnlyInTransit, OpenSet, Idle,
         Stale, Holds, NewLocalCache

LEMMA TransitNext ==
  ASSUME WorkingNotifications, IInv, StepInv, TransitInv, [Next]_vars
  PROVE  TransitInv'
<1> USE DEF TransitInv
<1>1. StaleOnlyInTransit' <=>
        \A r \in Replicas, v \in Versions : Stale(r, v)' => Corrected(r, v)'
  BY DEF StaleOnlyInTransit, Corrected
<1>2. EnableRedCache
  BY DEF WorkingNotifications, Notifies
<1>3. ASSUME NEW q \in Requests, NEW r \in Replicas, NEW op \in Ops, NEW v \in Versions,
             NEW b \in Bytes \cup BadBytes \cup {Absent}, Invoke(q, r, op, v, b)
      PROVE  TransitInv'
  <2>1. UNCHANGED <<redis, writer, up, subscribed, clientId, nextId, faults>>
    BY <1>3 DEF Invoke, redisVars, replicaVars
  <2>2. OwnIds'
    BY <2>1 DEF OwnIds
  <2>3. SetInHand'
    BY <1>3, <2>1, InvokeMoves DEF SetInHand
  <2> QED
    BY <1>1, <1>3, <2>2, <2>3, InvokeOneOpenSet, InvokeStale
<1>4. ASSUME NEW q \in Requests, RequestStep(q) PROVE TransitInv'
  <2>1. OwnIds'
    BY <1>4, RequestKeepsReplicas DEF OwnIds
  <2>2. StaleOnlyInTransit'
    BY <1>1, <1>4, RedisExecStale, RedisDelStale, LocalSetStale, OtherStepsStale
  <2> QED
    BY <1>2, <1>4, <2>1, <2>2, RequestOneOpenSet, RequestSetInHand
<1>5. ASSUME NEW r \in Replicas, NewCache(r) PROVE TransitInv'
  <2>1. OneOpenSet'
    BY <1>5, NewCacheIds DEF OneOpenSet
  <2>2. \A s \in up : clientId'[s] = clientId[s]
    BY <1>5, NewCacheIds DEF IInv, TypeOK
  <2>3. \A q \in Requests : req[q].pc = "localset" => req[q].at \in up
    BY DEF StepInv
  <2>4. SetInHand'
    BY <1>5, <2>2, <2>3, NewCacheIds DEF SetInHand
  <2> QED
    BY <1>1, <1>5, <2>1, <2>4, NewCacheOwnIds, NewCacheStale
<1>6. ASSUME NEW r \in Replicas, ReadWriterId(r) \/ Invalidate(r) PROVE TransitInv'
  <2>1. UNCHANGED <<redis, writer, up, subscribed, clientId, nextId, faults, req>>
    BY <1>6 DEF ReadWriterId, Invalidate, redisVars, replicaVars, boundVars
  <2>2. OwnIds' /\ OneOpenSet' /\ SetInHand'
    BY <2>1 DEF OwnIds, OneOpenSet, SetInHand
  <2> QED
    BY <1>1, <1>6, <2>2, ReadWriterIdStale, InvalidateStale
<1>7. CASE UNCHANGED vars
  BY <1>7 DEF vars, redisVars, replicaVars, notifyVars, boundVars, OwnIds, OneOpenSet,
              SetInHand, StaleOnlyInTransit, Stale, Holds, Copy, PendingLocalSet,
              PendingInvalidation, DeletedLastWriter
<1> QED
  BY <1>3, <1>4, <1>5, <1>6, <1>7, WorkingSteps

(* The invariants together. *)
LEMMA TransitInvariance == WorkingNotifications => (Spec => [](IInv /\ StepInv /\ TransitInv))
<1> SUFFICES ASSUME WorkingNotifications PROVE Spec => [](IInv /\ StepInv /\ TransitInv)
  OBVIOUS
<1>1. Init => IInv /\ StepInv /\ TransitInv
  BY InitOK, StepInvInit, TransitInit
<1>2. IInv /\ StepInv /\ TransitInv /\ [Next]_vars => (IInv /\ StepInv /\ TransitInv)'
  BY NextOK, StepInvNext, TransitNext
<1> QED
  BY <1>1, <1>2, PTL DEF Spec

(* Every replica's LocalCache agrees with Redis but for what a pending
   LocCache.Set or invalidation is about to put right, and for the last
   writer's copy of a deleted version: for any number of replicas, open
   requests and versions, whatever the order in which handlers and
   notification goroutines run. *)
THEOREM NotificationsCorrect == WorkingNotifications => (Spec => []StaleOnlyInTransit)
<1> SUFFICES ASSUME WorkingNotifications PROVE Spec => []StaleOnlyInTransit
  OBVIOUS
<1>1. Spec => [](IInv /\ StepInv /\ TransitInv)
  BY TransitInvariance
<1>2. IInv /\ StepInv /\ TransitInv => StaleOnlyInTransit
  BY DEF TransitInv
<1> QED
  BY <1>1, <1>2, PTL

-----------------------------------------------------------------------------
(* What is left when everything has settled. *)

LEMMA SettledStale ==
  ASSUME IInv, TransitInv, Quiescent, NEW r \in Replicas, NEW v \in Versions, Stale(r, v)
  PROVE  DeletedLastWriter(r, v)
<1>1. ~PendingLocalSet(r, v)
  BY DEF Quiescent, PendingLocalSet
<1>2. ~PendingInvalidation(r, v)
  <2>1. events[r] = << >> /\ invalidating[r] # v
    BY BytesAssumption DEF Quiescent
  <2> QED
    BY <2>1 DEF PendingInvalidation
<1> QED
  BY <1>1, <1>2 DEF TransitInv, StaleOnlyInTransit

(* When all requests are answered and all notifications handled, the only
   copy that may differ from Redis is the one the last writer of a version
   keeps after a DELETE that another replica served. *)
THEOREM SettledAgree ==
  WorkingNotifications =>
    (Spec => [](Quiescent => \A r \in Replicas, v \in Versions :
                               Stale(r, v) => DeletedLastWriter(r, v)))
<1> SUFFICES ASSUME WorkingNotifications
             PROVE  Spec => [](Quiescent => \A r \in Replicas, v \in Versions :
                                              Stale(r, v) => DeletedLastWriter(r, v))
  OBVIOUS
<1>1. Spec => [](IInv /\ StepInv /\ TransitInv)
  BY TransitInvariance
<1>2. IInv /\ StepInv /\ TransitInv =>
        (Quiescent => \A r \in Replicas, v \in Versions :
                        Stale(r, v) => DeletedLastWriter(r, v))
  BY SettledStale
<1> QED
  BY <1>1, <1>2, PTL

\* Redis has a value for whatever was ever committed.
NothingDeleted == \A v \in Versions : redis[v] = Absent => committed[v] = {}

LEMMA NothingDeletedInit == Init => NothingDeleted
  BY DEF Init, NothingDeleted

LEMMA NothingDeletedNext ==
  ASSUME "delete" \notin Ops, IInv, StepInv, NothingDeleted, [Next]_vars
  PROVE  NothingDeleted'
<1>1. \A q \in Requests : req[q].pc # "del"
  <2> SUFFICES ASSUME NEW q \in Requests, req[q].pc = "del" PROVE FALSE
    OBVIOUS
  <2>1. req[q].op = "delete" /\ req[q].op \in Ops \cup {"none"}
    BY DEF StepInv, InStep, IInv, TypeOK, Request
  <2> QED
    BY <2>1
<1>2. ASSUME NEW q \in Requests, ExecWrites(q) PROVE NothingDeleted'
  <2>1. req[q].pc = "exec"
    BY <1>2 DEF ExecWrites
  <2>2. req[q].bytes \in Bytes /\ req[q].version \in Versions
    BY <2>1, NotIdle DEF IInv, GoodRequest
  <2>3. req[q].bytes # Absent
    BY <2>2, BytesAssumption
  <2> QED
    BY <1>2, <2>2, <2>3 DEF ExecWrites, NothingDeleted, IInv, TypeOK
<1>3. CASE UNCHANGED <<redis, committed>>
  BY <1>3 DEF NothingDeleted
<1>4. (\E q \in Requests : ExecWrites(q)) \/ UNCHANGED <<redis, committed>>
  BY <1>1 DEF Next, RequestStep, NotificationStep, vars, redisVars, Invoke, CheckBytes,
         RedisWatch, RedisExecConflict, RedisExec, LocalSet, RedisDel, DelRemoves,
         RedisDelNothing, LocalDelete, LocalGet, RedisGet, Return, RedisError,
         RedisExecReplyLost, RedisDelReplyLost, NewCache, Disconnect, Resubscribe, Crash,
         ReadWriterId, Invalidate, ReadWriterIdError
<1> QED
  BY <1>2, <1>3, <1>4

(* As long as nobody deletes and POSTs of one version do not overlap, every
   replica ends up with the catalog that Redis has: the promise of POST /vs.
   Run catalog_update shows that overlapping POSTs break it. *)
THEOREM UpdatesReachEveryReplica ==
  WorkingNotifications /\ "delete" \notin Ops => (Spec => []UpdatedEverywhere)
<1> SUFFICES ASSUME WorkingNotifications, "delete" \notin Ops PROVE Spec => []UpdatedEverywhere
  OBVIOUS
<1> DEFINE All == IInv /\ StepInv /\ TransitInv /\ NothingDeleted
<1>1. Init => All
  BY InitOK, StepInvInit, TransitInit, NothingDeletedInit
<1>2. All /\ [Next]_vars => All'
  BY NextOK, StepInvNext, TransitNext, NothingDeletedNext
<1>3. All => UpdatedEverywhere
  <2> SUFFICES ASSUME All, Quiescent, NEW r \in Replicas, NEW v \in Versions, Stale(r, v)
               PROVE  FALSE
    BY DEF UpdatedEverywhere
  <2>1. redis[v] = Absent
    BY SettledStale DEF DeletedLastWriter
  <2>2. Copy(r, v) \in committed[v]
    BY DEF Stale, Holds, Copy, IInv, GoodCache, WorkingNotifications, Notifies
  <2> QED
    BY <2>1, <2>2 DEF NothingDeleted
<1> QED
  BY <1>1, <1>2, <1>3, PTL DEF Spec

-----------------------------------------------------------------------------
(***************************************************************************)
(* A catalog cache with one store implements CatalogStore: Redis alone     *)
(* behind any number of replicas, or the LocalCache of a single process.   *)
(*                                                                         *)
(* Every step of CatalogCache is matched with the step of the abstract     *)
(* store that it appears to be, or with none.                              *)
(***************************************************************************)

SingleStore ==
  \/ EnableRedCache /\ ~EnableLocalCache
  \/ ~EnableRedCache /\ EnableLocalCache /\ \E r : Replicas = {r}

-----------------------------------------------------------------------------
(* What the abstract store sees of a request. *)

\* The call of x, answered.
AnsweredCall(x, a) ==
  [state |-> "done", op |-> x.op, version |-> x.version, bytes |-> x.bytes, answer |-> a]

LEMMA CallsAt ==
  ASSUME NEW q \in Requests
  PROVE  /\ Calls[q] = CallOf(req[q])
         /\ Calls[q].state = CallState(req[q]) /\ Calls[q].op = req[q].op
         /\ Calls[q].version = req[q].version /\ Calls[q].bytes = req[q].bytes
         /\ Calls[q].answer = CallAnswer(req[q])
  BY DEF Calls, CallOf

(* Only the call of q changes, to y. *)
LEMMA CallsMoved ==
  ASSUME NEW q \in Requests, NEW y, CallOf(req'[q]) = y,
         \A p \in Requests : p # q => CallOf(req'[p]) = CallOf(req[p])
  PROVE  Calls' = [Calls EXCEPT ![q] = y]
<1>1. Calls' = [p \in Requests |-> CallOf(req'[p])]
  BY DEF Calls
<1>2. Calls = [p \in Requests |-> CallOf(req[p])]
  BY DEF Calls
<1> QED
  BY <1>1, <1>2, Zenon

LEMMA OneCall ==
  ASSUME IInv, NEW q \in Requests, NEW x, req' = [req EXCEPT ![q] = x]
  PROVE  Calls' = [Calls EXCEPT ![q] = CallOf(x)]
<1>1. req'[q] = x /\ \A p \in Requests : p # q => req'[p] = req[p]
  BY DEF IInv, TypeOK
<1> QED
  BY <1>1, CallsMoved

(* That a WATCH has failed is not seen before EXEC. *)
LEMMA DirtyCall ==
  ASSUME NEW x \in Request PROVE CallOf([x EXCEPT !.dirty = TRUE]) = CallOf(x)
<1> DEFINE y == [x EXCEPT !.dirty = TRUE]
<1>1. /\ y.pc = x.pc /\ y.op = x.op /\ y.answer = x.answer /\ y.deleted = x.deleted
      /\ y.version = x.version /\ y.bytes = x.bytes
  BY DEF Request
<1> HIDE DEF y
<1>2. CallOf(y) = CallOf(x)
  BY <1>1 DEF CallOf, CallState, CallAnswer, PastRedis
<1> QED
  BY <1>2 DEF y

LEMMA TouchCall ==
  ASSUME IInv, NEW q \in Requests, NEW v, NEW x, Touch(v, q, x)
  PROVE  Calls' = [Calls EXCEPT ![q] = CallOf(x)]
<1>1. req'[q] = x
  BY DEF Touch
<1>2. ASSUME NEW p \in Requests, p # q PROVE CallOf(req'[p]) = CallOf(req[p])
  <2>1. req'[p] = [req[p] EXCEPT !.dirty = TRUE] \/ req'[p] = req[p]
    BY <1>2 DEF Touch
  <2>2. req[p] \in Request
    BY DEF IInv, TypeOK
  <2> QED
    BY <2>1, <2>2, DirtyCall
<1> QED
  BY <1>1, <1>2, CallsMoved

(* Calls that stay as they are. *)
LEMMA SameCall ==
  ASSUME NEW q \in Requests, NEW y, y = Calls[q], Calls' = [Calls EXCEPT ![q] = y]
  PROVE  Calls' = Calls
  BY DEF Calls

LEMMA AnsweredIsDone ==
  ASSUME IInv, NEW q \in Requests, NEW a
  PROVE  CallOf(Answered(q, a)) = AnsweredCall(req[q], a)
<1> DEFINE y == Answered(q, a)
<1>1. /\ y.pc = "done" /\ y.op = req[q].op /\ y.answer = a
      /\ y.version = req[q].version /\ y.bytes = req[q].bytes
  BY DEF Answered, IInv, TypeOK, Request
<1> HIDE DEF y
<1>2. CallOf(y) = AnsweredCall(req[q], a)
  BY <1>1 DEF CallOf, CallState, CallAnswer, PastRedis, AnsweredCall
<1> QED
  BY <1>2 DEF y

(* A request before the step at which it takes effect. *)
LEMMA PendingCall ==
  ASSUME IInv, StepInv, NEW q \in Requests,
         \/ req[q].pc \in {"check", "watch", "exec", "del", "localget", "redisget"}
         \/ ~EnableRedCache /\ req[q].pc \in {"localset", "localdel"}
  PROVE  /\ Calls[q].state = "pending"
         /\ Calls[q] = [state |-> "pending", op |-> req[q].op, version |-> req[q].version,
                        bytes |-> req[q].bytes, answer |-> "none"]
<1>1. req[q].answer = "none"
  BY DEF StepInv, InStep
<1>2. ~PastRedis(req[q]) /\ req[q].pc # "idle" /\ req[q].pc # "done"
  BY DEF PastRedis
<1>3. CallState(req[q]) = "pending" /\ CallAnswer(req[q]) = "none"
  BY <1>1, <1>2 DEF CallState, CallAnswer
<1> QED
  BY <1>3, CallsAt DEF CallOf

-----------------------------------------------------------------------------
(* How the steps of the abstract store are recognised. *)

LEMMA ActStep ==
  ASSUME NEW q \in Requests, Calls[q].state = "pending", Store!Valid(Calls[q]),
         Store!Keep(Store!Effect(Calls[q])),
         Calls' = [Calls EXCEPT ![q] = AnsweredCall(req[q], Store!Answer(Calls[q]))]
  PROVE  Store!Next
<1> DEFINE a == Store!Answer(Calls[q])
<1>1. Calls' = [Calls EXCEPT ![q].state = "done", ![q].answer = a]
  <2> HIDE DEF a
  <2>1. Calls' = [Calls EXCEPT ![q] = AnsweredCall(req[q], a)]
    BY DEF a
  <2> QED
    BY <2>1 DEF Calls, CallOf, AnsweredCall
<1>2. Store!Act(q)
  BY <1>1 DEF Store!Act
<1> QED
  BY <1>2 DEF Store!Next

LEMMA FailStep ==
  ASSUME NEW q \in Requests, Calls[q].state = "pending",
         \/ StoredCatalog' = StoredCatalog
         \/ Store!Valid(Calls[q]) /\ StoredCatalog' = Store!Effect(Calls[q]),
         Calls' = [Calls EXCEPT ![q] = AnsweredCall(req[q], "error")]
  PROVE  Store!Next
<1>1. Calls' = [Calls EXCEPT ![q].state = "done", ![q].answer = "error"]
  BY DEF Calls, CallOf, AnsweredCall
<1>2. Store!Fail(q)
  BY <1>1 DEF Store!Fail
<1> QED
  BY <1>2 DEF Store!Next

LEMMA KeepAll ==
  ASSUME NEW stored, stored = [v \in Versions |-> stored[v]], StoredCatalog' = stored
  PROVE  Store!Keep(stored)
<1>1. Versions \in SUBSET Versions
  OBVIOUS
<1>2. StoredCatalog' = [v \in Versions |-> IF v \in Versions THEN stored[v] ELSE Absent]
  OBVIOUS
<1> QED
  BY <1>1, <1>2 DEF Store!Keep

LEMMA SameCatalog ==
  ASSUME (EnableRedCache /\ redis' = redis) \/ (~EnableRedCache /\ lc' = lc)
  PROVE  StoredCatalog' = StoredCatalog
  BY DEF StoredCatalog, Holds, Copy

(* A step that changes neither the catalogs nor a call. *)
LEMMA Stutter ==
  ASSUME StoredCatalog' = StoredCatalog, Calls' = Calls
  PROVE  [Store!Next]_(Store!vars)
  BY DEF Store!vars

-----------------------------------------------------------------------------
(* Steps common to both configurations. *)

LEMMA InvokeSimulates ==
  ASSUME SingleStore, IInv, StepInv, NEW q \in Requests, NEW r \in Replicas, NEW op \in Ops,
         NEW v \in Versions, NEW b \in Bytes \cup BadBytes \cup {Absent},
         Invoke(q, r, op, v, b)
  PROVE  Store!Next
<1> DEFINE x == [Idle EXCEPT !.pc = IF IsActive THEN FirstStep(op) ELSE "done",
                             !.answer = IF IsActive THEN "none" ELSE "error",
                             !.op = op, !.at = r, !.version = v, !.bytes = b]
           y == [state |-> "pending", op |-> op, version |-> v, bytes |-> b, answer |-> "none"]
<1>1. IsActive
  BY DEF SingleStore, IsActive
<1>2. /\ x.pc = FirstStep(op) /\ x.answer = "none" /\ x.op = op /\ x.version = v
      /\ x.bytes = b
  BY <1>1 DEF Idle
<1>3. req' = [req EXCEPT ![q] = x] /\ req[q].pc = "idle"
  BY DEF Invoke
<1> HIDE DEF x
<1>4. /\ FirstStep(op) \in {"check", "del", "localdel", "localget", "redisget"}
      /\ FirstStep(op) = "localdel" => ~EnableRedCache
  BY ConfigAssumption DEF FirstStep
<1>5. ~PastRedis(x)
  BY <1>2, <1>4 DEF PastRedis
<1>6. CallOf(x) = y
  BY <1>2, <1>4, <1>5 DEF CallOf, CallState, CallAnswer
<1>7. Calls' = [Calls EXCEPT ![q] = y]
  BY <1>3, <1>6, OneCall
<1>8. Calls[q].state = "idle"
  BY <1>3, CallsAt DEF CallState, PastRedis
<1>9. StoredCatalog' = StoredCatalog
  BY SameCatalog DEF Invoke, redisVars, replicaVars
<1>10. Store!Call(q, op, v, b)
  BY <1>7, <1>8, <1>9 DEF Store!Call
<1> QED
  BY <1>10 DEF Store!Next

LEMMA ReturnSimulates ==
  ASSUME IInv, StepInv, NEW q \in Requests, Return(q)
  PROVE  Store!Next
<1>1. req' = [req EXCEPT ![q] = Idle] /\ req[q].pc = "done"
  BY DEF Return
<1>2. CallOf(Idle) = Store!NoCall
  BY DEF CallOf, CallState, CallAnswer, PastRedis, Idle, Store!NoCall
<1>3. Calls' = [Calls EXCEPT ![q] = Store!NoCall]
  BY <1>1, <1>2, OneCall
<1>4. Calls[q].state = "done"
  BY <1>1, CallsAt DEF CallState
<1>5. StoredCatalog' = StoredCatalog
  BY SameCatalog DEF Return, redisVars, replicaVars
<1>6. Store!Return(q)
  BY <1>3, <1>4, <1>5 DEF Store!Return
<1> QED
  BY <1>6 DEF Store!Next

(* A request that fails without having changed anything. *)
LEMMA ErrorSimulates ==
  ASSUME IInv, StepInv, NEW q \in Requests,
         req[q].pc \in {"check", "watch", "exec", "del", "redisget"},
         req' = [req EXCEPT ![q] = Answered(q, "error")], StoredCatalog' = StoredCatalog
  PROVE  Store!Next
<1>1. Calls[q].state = "pending"
  BY PendingCall
<1>2. Calls' = [Calls EXCEPT ![q] = AnsweredCall(req[q], "error")]
  BY OneCall, AnsweredIsDone
<1> QED
  BY <1>1, <1>2, FailStep

LEMMA CheckBytesSimulates ==
  ASSUME IInv, StepInv, NEW q \in Requests, CheckBytes(q)
  PROVE  [Store!Next]_(Store!vars)
<1>1. req[q].pc = "check" /\ StoredCatalog' = StoredCatalog
  BY SameCatalog DEF CheckBytes, redisVars, replicaVars
<1>2. CASE req[q].bytes \in BadBytes
  BY <1>1, <1>2, ErrorSimulates DEF CheckBytes
<1>3. CASE req[q].bytes \notin BadBytes
  <2> DEFINE p == IF EnableRedCache THEN "watch" ELSE "localset"
             x == [req[q] EXCEPT !.pc = p]
  <2>0. req[q] \in Request
    BY DEF IInv, TypeOK
  <2>1. req' = [req EXCEPT ![q] = x]
    BY <1>3 DEF CheckBytes, IInv, TypeOK
  <2>2. /\ x.pc = p /\ x.op = req[q].op /\ x.version = req[q].version
        /\ x.bytes = req[q].bytes /\ x.answer = req[q].answer
    BY <2>0 DEF Request
  <2> HIDE DEF x
  <2>3. /\ ~PastRedis(x) /\ x.pc # "idle" /\ x.pc # "done" /\ req[q].answer = "none"
    BY <1>1, <2>2 DEF PastRedis, StepInv, InStep
  <2>4. CallOf(x) = Calls[q]
    BY <1>1, <2>2, <2>3, PendingCall DEF CallOf, CallState, CallAnswer
  <2>5. Calls' = Calls
    BY <2>1, <2>4, OneCall, SameCall
  <2> QED
    BY <1>1, <2>5, Stutter
<1> QED
  BY <1>2, <1>3

(* A process dies: its requests are abandoned. *)
LEMMA CrashSimulates ==
  ASSUME IInv, StepInv, NEW r \in Replicas, Crash(r), Store!Keep(StoredCatalog)
  PROVE  Store!Next
<1> DEFINE dead == {q \in Requests : req[q].at = r}
<1>1. CallOf(Idle) = Store!NoCall
  BY DEF CallOf, CallState, CallAnswer, PastRedis, Idle, Store!NoCall
<1>2. \A q \in Requests : req'[q] = IF req[q].at = r THEN Idle ELSE req[q]
  BY DEF Crash
<1>3. \A q \in Requests : CallOf(req'[q]) = IF q \in dead THEN Store!NoCall ELSE Calls[q]
  BY <1>1, <1>2, CallsAt
<1>4. Calls' = [q \in Requests |-> IF q \in dead THEN Store!NoCall ELSE Calls[q]]
  BY <1>3 DEF Calls
<1>5. Store!Abandon(dead) /\ dead \in SUBSET Requests
  BY <1>4 DEF Store!Abandon
<1> QED
  BY <1>5 DEF Store!Next

(* Steps of replicas that are neither seen by a request nor by the store. *)
LEMMA ReplicaSimulates ==
  ASSUME SingleStore, IInv, StepInv, NEW r \in Replicas,
         \/ NewCache(r) \/ Disconnect(r) \/ Resubscribe(r)
         \/ NotificationStep(r) \/ ReadWriterIdError(r)
  PROVE  [Store!Next]_(Store!vars)
<1>1. ~Notifies
  BY DEF SingleStore, Notifies
<1>2. NewCache(r)
  BY <1>1, NotificationsStep DEF Disconnect, Resubscribe, StepInv
<1>3. req' = req /\ redis' = redis
  BY <1>2 DEF NewCache, redisVars
<1>4. lc' = lc
  <2>1. lc' = [lc EXCEPT ![r] = NewLocalCache] /\ lc[r] = NewLocalCache
    BY <1>2 DEF NewCache, StepInv
  <2> QED
    BY <2>1 DEF IInv, TypeOK
<1>5. Calls' = Calls /\ StoredCatalog' = StoredCatalog
  BY <1>3, <1>4, SameCatalog DEF Calls
<1> QED
  BY <1>5, Stutter

-----------------------------------------------------------------------------
(* Redis alone. *)

(* An answer that the request knew when it left Redis. *)
LEMMA PastRedisCall ==
  ASSUME EnableRedCache, NEW x, x.pc \in {"localset", "localdel"}, NEW a,
         x.pc = "localset" => a = "ok",
         x.pc = "localdel" => a = IF x.deleted THEN "ok" ELSE "notfound"
  PROVE  CallOf(x) = AnsweredCall(x, a)
<1>1. PastRedis(x) /\ x.pc # "idle"
  BY DEF PastRedis
<1>2. CallState(x) = "done"
  BY <1>1 DEF CallState
<1>3. CallAnswer(x) = a
  BY <1>1 DEF CallAnswer
<1> QED
  BY <1>2, <1>3 DEF CallOf, AnsweredCall

LEMMA RedisExecSimulates ==
  ASSUME EnableRedCache, IInv, StepInv, NEW q \in Requests,
         RedisExec(q) \/ RedisExecReplyLost(q)
  PROVE  Store!Next
<1> DEFINE c == Calls[q]
           v == req[q].version
           x == [req[q] EXCEPT !.pc = "localset"]
<1>1. ExecWrites(q) /\ req[q].pc = "exec"
  BY DEF RedisExec, RedisExecReplyLost, ExecWrites
<1>2. /\ c.state = "pending" /\ c.op = "set" /\ c.version = v /\ c.bytes = req[q].bytes
      /\ req[q].bytes \in Bytes
  BY <1>1, PendingCall, CallsAt DEF StepInv, InStep, IInv, GoodRequest
<1> HIDE DEF c
<1>3. Store!Valid(c) /\ Store!Answer(c) = "ok"
  BY <1>2 DEF Store!Valid, Store!Answer
<1>4. StoredCatalog = redis /\ StoredCatalog' = [redis EXCEPT ![v] = req[q].bytes]
  BY <1>1 DEF StoredCatalog, ExecWrites
<1>5. Store!Effect(c) = [redis EXCEPT ![v] = req[q].bytes]
  BY <1>2, <1>4 DEF Store!Effect
<1>6. CASE RedisExec(q)
  <2>1. Touch(v, q, x)
    BY <1>6 DEF RedisExec
  <2>2. x.pc = "localset" /\ x.op = req[q].op /\ x.version = v /\ x.bytes = req[q].bytes
    BY DEF IInv, TypeOK, Request
  <2>3. CallOf(x) = AnsweredCall(req[q], "ok")
    <3> HIDE DEF x
    <3> QED
      BY <2>2, PastRedisCall DEF AnsweredCall
  <2>4. Calls' = [Calls EXCEPT ![q] = AnsweredCall(req[q], "ok")]
    BY <2>1, <2>3, TouchCall
  <2>5. Store!Keep(Store!Effect(c))
    BY <1>4, <1>5 DEF Store!Keep
  <2> QED
    BY <1>2, <1>3, <2>4, <2>5, ActStep DEF c
<1>7. CASE RedisExecReplyLost(q)
  <2>1. Touch(v, q, Answered(q, "error"))
    BY <1>7 DEF RedisExecReplyLost
  <2>2. Calls' = [Calls EXCEPT ![q] = AnsweredCall(req[q], "error")]
    BY <2>1, TouchCall, AnsweredIsDone
  <2>3. StoredCatalog' = Store!Effect(c)
    BY <1>4, <1>5
  <2> QED
    BY <1>2, <1>3, <2>2, <2>3, FailStep DEF c
<1> QED
  BY <1>6, <1>7

LEMMA RedisDelSimulates ==
  ASSUME EnableRedCache, IInv, StepInv, NEW q \in Requests,
         RedisDel(q) \/ RedisDelNothing(q) \/ RedisDelReplyLost(q)
  PROVE  Store!Next
<1> DEFINE c == Calls[q]
           v == req[q].version
<1>1. req[q].pc = "del" /\ req[q] \in Request
  BY DEF RedisDel, RedisDelNothing, RedisDelReplyLost, DelRemoves, IInv, TypeOK
<1>2. /\ c.state = "pending" /\ c.op = "delete" /\ c.version = v /\ req[q].deleted = FALSE
      /\ v \in Versions
  BY <1>1, PendingCall, CallsAt, OpenFacts DEF StepInv, InStep
<1>3. c = [state |-> "pending", op |-> req[q].op, version |-> req[q].version,
           bytes |-> req[q].bytes, answer |-> "none"]
  BY <1>1, PendingCall
<1> HIDE DEF c
<1>4. StoredCatalog = redis /\ StoredCatalog' = redis' /\ Store!Valid(c)
  BY <1>2 DEF StoredCatalog, Store!Valid
<1>5. /\ Store!Effect(c) = [redis EXCEPT ![v] = Absent]
      /\ Store!Answer(c) = IF redis[v] = Absent THEN "notfound" ELSE "ok"
  BY <1>2, <1>4 DEF Store!Effect, Store!Answer
<1>6. CASE RedisDel(q)
  <2> DEFINE x == [req[q] EXCEPT !.pc = "localdel", !.deleted = TRUE]
  <2>1. /\ Touch(v, q, x) /\ redis[v] # Absent /\ redis' = [redis EXCEPT ![v] = Absent]
    BY <1>6 DEF RedisDel, DelRemoves
  <2>2. /\ x.pc = "localdel" /\ x.op = req[q].op /\ x.version = v /\ x.bytes = req[q].bytes
        /\ x.deleted = TRUE
    BY <1>1 DEF Request
  <2>3. CallOf(x) = AnsweredCall(req[q], "ok")
    <3> HIDE DEF x
    <3> QED
      BY <2>2, PastRedisCall DEF AnsweredCall
  <2>4. Calls' = [Calls EXCEPT ![q] = AnsweredCall(req[q], "ok")]
    BY <2>1, <2>3, TouchCall
  <2>5. Store!Keep(Store!Effect(c))
    BY <1>4, <1>5, <2>1 DEF Store!Keep
  <2>6. Store!Answer(c) = "ok"
    BY <1>5, <2>1
  <2> QED
    BY <1>2, <1>4, <2>4, <2>5, <2>6, ActStep DEF c
<1>7. CASE RedisDelNothing(q)
  <2> DEFINE x == [req[q] EXCEPT !.pc = "localdel"]
  <2>1. req' = [req EXCEPT ![q] = x] /\ redis[v] = Absent /\ redis' = redis
    BY <1>7 DEF RedisDelNothing, redisVars, IInv, TypeOK
  <2>2. /\ x.pc = "localdel" /\ x.op = req[q].op /\ x.version = v /\ x.bytes = req[q].bytes
        /\ x.deleted = FALSE
    BY <1>1, <1>2 DEF Request
  <2>3. CallOf(x) = AnsweredCall(req[q], "notfound")
    <3> HIDE DEF x
    <3> QED
      BY <2>2, PastRedisCall DEF AnsweredCall
  <2>4. Calls' = [Calls EXCEPT ![q] = AnsweredCall(req[q], "notfound")]
    BY <2>1, <2>3, OneCall
  <2>5. redis' = [redis EXCEPT ![v] = Absent]
    BY <2>1 DEF IInv, TypeOK
  <2>6. Store!Keep(Store!Effect(c))
    BY <1>4, <1>5, <2>5 DEF Store!Keep
  <2>7. Store!Answer(c) = "notfound"
    BY <1>5, <2>1
  <2> QED
    BY <1>2, <1>4, <2>4, <2>6, <2>7, ActStep DEF c
<1>8. CASE RedisDelReplyLost(q)
  <2>1. Touch(v, q, req[q]) /\ redis' = [redis EXCEPT ![v] = Absent]
    BY <1>8 DEF RedisDelReplyLost, DelRemoves
  <2>2. Calls' = Calls
    BY <2>1, TouchCall, CallsAt, SameCall
  <2>3. Store!DeleteUnseen(q)
    BY <1>2, <1>4, <1>5, <2>1, <2>2 DEF Store!DeleteUnseen, c
  <2> QED
    BY <2>3 DEF Store!Next
<1> QED
  BY <1>6, <1>7, <1>8

LEMMA RedisGetSimulates ==
  ASSUME EnableRedCache, IInv, StepInv, NEW q \in Requests, RedisGet(q)
  PROVE  Store!Next
<1> DEFINE c == Calls[q]
           v == req[q].version
<1>1. req[q].pc = "redisget"
  BY DEF RedisGet
<1>2. c.state = "pending" /\ c.op = "get" /\ c.version = v
  BY <1>1, PendingCall, CallsAt DEF StepInv, InStep
<1>3. StoredCatalog = redis /\ StoredCatalog' = redis
  BY DEF StoredCatalog, RedisGet, redisVars
<1>4. Calls' = [Calls EXCEPT ![q] = AnsweredCall(req[q], Found(redis[v]))]
  BY OneCall, AnsweredIsDone DEF RedisGet
<1> HIDE DEF c
<1>5. Store!Effect(c) = redis /\ Store!Answer(c) = Found(redis[v]) /\ Store!Valid(c)
  BY <1>2, <1>3 DEF Store!Effect, Store!Answer, Store!Valid, Found
<1>6. Store!Keep(Store!Effect(c))
  BY <1>3, <1>5 DEF Store!Keep
<1> QED
  BY <1>2, <1>4, <1>5, <1>6, ActStep DEF c

(* The last step of a request that has been to Redis only reports. *)
LEMMA ReportSimulates ==
  ASSUME EnableRedCache, ~EnableLocalCache, IInv, StepInv, NEW q \in Requests,
         LocalSet(q) \/ LocalDelete(q)
  PROVE  [Store!Next]_(Store!vars)
<1> DEFINE a == IF req[q].pc = "localset" \/ req[q].deleted THEN "ok" ELSE "notfound"
<1>1. req[q].pc \in {"localset", "localdel"} /\ redis' = redis
  BY DEF LocalSet, LocalDelete, redisVars
<1>2. req' = [req EXCEPT ![q] = Answered(q, a)]
  BY DEF LocalSet, LocalDelete
<1>3. Calls[q] = AnsweredCall(req[q], a)
  BY <1>1, CallsAt, PastRedisCall
<1> HIDE DEF a
<1>4. Calls' = Calls
  BY <1>2, <1>3, OneCall, AnsweredIsDone, SameCall
<1> QED
  BY <1>1, <1>4, SameCatalog, Stutter

LEMMA RedisWatchSimulates ==
  ASSUME EnableRedCache, IInv, StepInv, NEW q \in Requests, RedisWatch(q)
  PROVE  [Store!Next]_(Store!vars)
<1> DEFINE x == [req[q] EXCEPT !.pc = "exec"]
<1>1. req[q].pc = "watch" /\ req[q] \in Request /\ req' = [req EXCEPT ![q] = x]
  BY DEF RedisWatch, IInv, TypeOK
<1>2. /\ x.pc = "exec" /\ x.op = req[q].op /\ x.version = req[q].version
      /\ x.bytes = req[q].bytes /\ x.answer = req[q].answer
  BY <1>1 DEF Request
<1> HIDE DEF x
<1>3. ~PastRedis(x) /\ req[q].answer = "none"
  BY <1>1, <1>2 DEF PastRedis, StepInv, InStep
<1>4. CallOf(x) = Calls[q]
  BY <1>1, <1>2, <1>3, PendingCall DEF CallOf, CallState, CallAnswer
<1>5. Calls' = Calls
  BY <1>1, <1>4, OneCall, SameCall
<1> QED
  BY <1>5, SameCatalog, Stutter DEF RedisWatch, redisVars

-----------------------------------------------------------------------------
(* The LocalCache of a single process. *)

LocalOnly(r) == ~EnableRedCache /\ EnableLocalCache /\ Replicas = {r}

\* What a LocalCache holds, as a catalog store.
Contents(c) == [v \in Versions |-> IF v \in c.versionsMap THEN LcGet(c, v) ELSE Absent]

LEMMA LocalCatalog ==
  ASSUME NEW r, LocalOnly(r)
  PROVE  StoredCatalog = Contents(lc[r]) /\ StoredCatalog' = Contents(lc'[r])
<1>1. (CHOOSE s \in Replicas : TRUE) = r
  BY DEF LocalOnly
<1> QED
  BY <1>1 DEF StoredCatalog, Contents, Holds, Copy, LocalOnly

LEMMA LocalRequest ==
  ASSUME IInv, StepInv, NEW r, LocalOnly(r), NEW q \in Requests, req[q].pc # "idle"
  PROVE  req[q].at = r /\ req[q].version \in Versions /\ WellFormed(lc[r]) /\ r \in Replicas
  BY OpenFacts DEF LocalOnly, IInv, GoodCache

(* Set may push out other versions, and with a negative capacity the new one. *)
LEMMA LocalSetSimulates ==
  ASSUME IInv, StepInv, NEW r, LocalOnly(r), NEW q \in Requests, LocalSet(q)
  PROVE  Store!Next
<1> DEFINE call == Calls[q]
           v == req[q].version
           b == req[q].bytes
           new == LcSet(lc[r], v, b)
           stored == [Contents(lc[r]) EXCEPT ![v] = b]
<1>1. req[q].pc = "localset" /\ req[q].pc # "idle"
  BY DEF LocalSet
<1>2. /\ req[q].at = r /\ v \in Versions /\ b \in Bytes /\ WellFormed(lc[r])
      /\ r \in Replicas
  BY <1>1, LocalRequest DEF IInv, GoodRequest
<1>3. /\ WellFormed(new)
      /\ new.versionsMap \subseteq lc[r].versionsMap \cup {v}
      /\ \A w \in new.versionsMap : LcGet(new, w) = IF w = v THEN b ELSE LcGet(lc[r], w)
  BY <1>2, SetFacts
<1>4. lc'[r] = new
  BY <1>2 DEF LocalSet, LocalOnly, IInv, TypeOK
<1>5. Capacity = noCapacityLimit => new.versionsMap = lc[r].versionsMap \cup {v}
  <2>1. lc[r] \in LocalCacheType
    BY <1>2 DEF IInv, TypeOK
  <2> QED
    BY <2>1 DEF LcSet, evict, LocalCacheType
<1>6. StoredCatalog = Contents(lc[r]) /\ StoredCatalog' = Contents(new)
  BY <1>4, LocalCatalog
<1>7. /\ call.state = "pending" /\ call.op = "set" /\ call.version = v /\ call.bytes = b
  BY <1>1, PendingCall, CallsAt DEF LocalOnly, StepInv, InStep
<1> HIDE DEF call, new
<1>8. /\ Store!Valid(call) /\ Store!Answer(call) = "ok"
      /\ Store!Effect(call) = stored
  BY <1>2, <1>6, <1>7 DEF Store!Valid, Store!Answer, Store!Effect
<1>9. new.versionsMap \in SUBSET Versions
  BY <1>3, CacheParts DEF WellFormed, Linked
<1>10. Contents(new) = [w \in Versions |-> IF w \in new.versionsMap THEN stored[w] ELSE Absent]
  BY <1>2, <1>3 DEF Contents
<1>11. Capacity = noCapacityLimit => Contents(new) = stored
  BY <1>2, <1>3, <1>5 DEF Contents
<1> HIDE DEF stored, b
<1>12. Store!Keep(stored)
  <2>1. CASE Capacity = noCapacityLimit
    <3>1. stored = [w \in Versions |-> stored[w]]
      BY <2>1, <1>11 DEF Contents
    <3> QED
      BY <1>6, <1>11, <2>1, <3>1, KeepAll
  <2>2. CASE Capacity # noCapacityLimit
    BY <1>6, <1>9, <1>10, <2>2 DEF Store!Keep, LocalOnly
  <2> QED
    BY <2>1, <2>2
<1>13. Calls' = [Calls EXCEPT ![q] = AnsweredCall(req[q], "ok")]
  BY OneCall, AnsweredIsDone DEF LocalSet
<1> QED
  BY <1>7, <1>8, <1>12, <1>13, ActStep DEF call

LEMMA LocalDeleteSimulates ==
  ASSUME IInv, StepInv, NEW r, LocalOnly(r), NEW q \in Requests, LocalDelete(q)
  PROVE  Store!Next
<1> DEFINE call == Calls[q]
           v == req[q].version
           new == LcAfterDelete(lc[r], v)
           stored == [Contents(lc[r]) EXCEPT ![v] = Absent]
           a == IF v \in lc[r].versionsMap THEN "ok" ELSE "notfound"
<1>1. req[q].pc = "localdel" /\ req[q].pc # "idle" /\ req[q].deleted = FALSE
  BY DEF LocalDelete, LocalOnly, StepInv, InStep
<1>2. req[q].at = r /\ v \in Versions /\ WellFormed(lc[r]) /\ r \in Replicas
  BY <1>1, LocalRequest
<1>3. /\ new.versionsMap = lc[r].versionsMap \ {v}
      /\ \A w \in new.versionsMap : LcGet(new, w) = LcGet(lc[r], w)
  BY <1>2, AfterDeleteFacts
<1>4. /\ lc'[r] = new
      /\ req' = [req EXCEPT ![q] = Answered(q, a)]
  BY <1>1, <1>2 DEF LocalDelete, LocalOnly, LcDeleted, IInv, TypeOK
<1>5. StoredCatalog = Contents(lc[r]) /\ StoredCatalog' = Contents(new)
  BY <1>4, LocalCatalog
<1>6. call.state = "pending" /\ call.op = "delete" /\ call.version = v
  BY <1>1, PendingCall, CallsAt DEF LocalOnly, StepInv, InStep
<1>7. v \in lc[r].versionsMap => LcGet(lc[r], v) # Absent
  <2>1. Linked(lc[r]) /\ lc[r] \in LocalCacheType
    BY <1>2 DEF WellFormed, Linked
  <2>2. v \in lc[r].versionsMap => LcGet(lc[r], v) \in Bytes
    BY <2>1, ElementFacts, CacheParts
  <2> QED
    BY <2>2, BytesAssumption
<1>8. Contents(lc[r])[v] = Absent <=> v \notin lc[r].versionsMap
  BY <1>2, <1>7 DEF Contents
<1> HIDE DEF call, new
<1>9. /\ Store!Valid(call) /\ Store!Answer(call) = a
      /\ Store!Effect(call) = stored
  BY <1>5, <1>6, <1>8 DEF Store!Valid, Store!Answer, Store!Effect
<1>10. Contents(new) = stored /\ stored = [w \in Versions |-> stored[w]]
  BY <1>2, <1>3 DEF Contents
<1> HIDE DEF stored, a
<1>11. Store!Keep(stored)
  BY <1>5, <1>10, KeepAll
<1>12. Calls' = [Calls EXCEPT ![q] = AnsweredCall(req[q], a)]
  BY <1>4, OneCall, AnsweredIsDone
<1> QED
  BY <1>6, <1>9, <1>11, <1>12, ActStep DEF call

LEMMA LocalGetSimulates ==
  ASSUME IInv, StepInv, NEW r, LocalOnly(r), NEW q \in Requests, LocalGet(q)
  PROVE  Store!Next
<1> DEFINE call == Calls[q]
           v == req[q].version
           new == LcAfterGet(lc[r], v)
           a == Found(LcGet(lc[r], v))
<1>1. req[q].pc = "localget" /\ req[q].pc # "idle"
  BY DEF LocalGet
<1>2. req[q].at = r /\ v \in Versions /\ WellFormed(lc[r]) /\ r \in Replicas
  BY <1>1, LocalRequest
<1>3. /\ new.versionsMap = lc[r].versionsMap
      /\ \A w \in lc[r].versionsMap : LcGet(new, w) = LcGet(lc[r], w)
  BY <1>2, AfterGetFacts
<1>4. lc'[r] = new /\ req' = [req EXCEPT ![q] = Answered(q, a)]
  BY <1>2 DEF LocalGet, LocalOnly, IInv, TypeOK
<1>5. StoredCatalog = Contents(lc[r]) /\ StoredCatalog' = Contents(new)
  BY <1>4, LocalCatalog
<1>6. call.state = "pending" /\ call.op = "get" /\ call.version = v
  BY <1>1, PendingCall, CallsAt DEF LocalOnly, StepInv, InStep
<1>7. a = IF Contents(lc[r])[v] \in {NilBytes, Absent} THEN "notfound" ELSE Contents(lc[r])[v]
  BY <1>2 DEF Found, Contents, LcGet
<1> HIDE DEF call, new, a
<1>8. /\ Store!Valid(call) /\ Store!Answer(call) = a
      /\ Store!Effect(call) = Contents(lc[r])
  BY <1>5, <1>6, <1>7 DEF Store!Valid, Store!Answer, Store!Effect
<1>9. Contents(new) = Contents(lc[r])
  BY <1>3 DEF Contents
<1>10. Store!Keep(Contents(lc[r]))
  BY <1>5, <1>9, KeepAll DEF Contents
<1>11. Calls' = [Calls EXCEPT ![q] = AnsweredCall(req[q], a)]
  BY <1>4, OneCall, AnsweredIsDone
<1> QED
  BY <1>6, <1>8, <1>10, <1>11, ActStep DEF call

(* With the process its catalogs are gone. *)
LEMMA CrashKeeps ==
  ASSUME SingleStore, IInv, StepInv, NEW r \in Replicas, Crash(r)
  PROVE  Store!Keep(StoredCatalog)
<1>1. CASE EnableRedCache
  <2>1. StoredCatalog' = StoredCatalog
    BY <1>1, SameCatalog DEF Crash, redisVars
  <2> QED
    BY <1>1, <2>1 DEF Store!Keep
<1>2. CASE ~EnableRedCache
  <2>1. LocalOnly(r)
    BY <1>2 DEF SingleStore, LocalOnly
  <2>2. MaxFaults > 0
    BY BoundsAssumption DEF Crash, Fault, IInv, TypeOK
  <2>3. StoredCatalog' = Contents(NewLocalCache)
    BY <2>1, LocalCatalog DEF Crash, IInv, TypeOK
  <2>4. Contents(NewLocalCache) = [v \in Versions |-> Absent]
    BY DEF Contents, NewLocalCache
  <2>5. {} \in SUBSET Versions
    OBVIOUS
  <2>6. StoredCatalog' = [v \in Versions |-> IF v \in {} THEN StoredCatalog[v] ELSE Absent]
    BY <2>3, <2>4
  <2> QED
    BY <1>2, <2>2, <2>5, <2>6 DEF Store!Keep
<1> QED
  BY <1>1, <1>2

-----------------------------------------------------------------------------
LEMMA InitSimulates == SingleStore /\ Init => Store!Init
<1> SUFFICES ASSUME SingleStore, Init PROVE Store!Init
  OBVIOUS
<1>1. CallOf(Idle) = Store!NoCall
  BY DEF CallOf, CallState, CallAnswer, PastRedis, Idle, Store!NoCall
<1>2. Calls = [q \in Requests |-> Store!NoCall]
  BY <1>1 DEF Calls, Init
<1>3. StoredCatalog = [v \in Versions |-> Absent]
  <2>1. CASE EnableRedCache
    BY <2>1 DEF StoredCatalog, Init
  <2>2. CASE ~EnableRedCache
    <3>1. PICK r : LocalOnly(r)
      BY <2>2 DEF SingleStore, LocalOnly
    <3>2. lc[r] = NewLocalCache
      BY <3>1 DEF Init, LocalOnly
    <3> QED
      BY <3>1, <3>2, LocalCatalog DEF Contents, NewLocalCache
  <2> QED
    BY <2>1, <2>2
<1> QED
  BY <1>2, <1>3 DEF Store!Init

LEMMA NextSimulates ==
  SingleStore /\ IInv /\ StepInv /\ [Next]_vars => [Store!Next]_(Store!vars)
<1> SUFFICES ASSUME SingleStore, IInv, StepInv, [Next]_vars
             PROVE  [Store!Next]_(Store!vars)
  OBVIOUS
<1>1. ASSUME NEW q \in Requests, RequestStep(q), EnableRedCache
      PROVE  [Store!Next]_(Store!vars)
  <2>1. ~EnableLocalCache
    BY <1>1 DEF SingleStore
  <2>2. ~LocalGet(q)
    BY <2>1 DEF LocalGet, StepInv, InStep
  <2>3. CASE RedisExecConflict(q)
    <3>1. StoredCatalog' = StoredCatalog
      BY <1>1, <2>3, SameCatalog DEF RedisExecConflict, redisVars
    <3> QED
      BY <2>3, <3>1, ErrorSimulates DEF RedisExecConflict
  <2> QED
    BY <1>1, <2>1, <2>2, <2>3, CheckBytesSimulates, RedisWatchSimulates, RedisExecSimulates,
       ReportSimulates, RedisDelSimulates, RedisGetSimulates, ReturnSimulates DEF RequestStep
<1>2. ASSUME NEW q \in Requests, RequestStep(q), ~EnableRedCache
      PROVE  [Store!Next]_(Store!vars)
  <2>1. PICK r : LocalOnly(r)
    BY <1>2 DEF SingleStore, LocalOnly
  <2>2. req[q].pc \notin {"watch", "exec", "del", "redisget"}
    BY <1>2 DEF StepInv, InStep
  <2>3. CheckBytes(q) \/ LocalSet(q) \/ LocalDelete(q) \/ LocalGet(q) \/ Return(q)
    BY <1>2, <2>2 DEF RequestStep, RedisWatch, RedisExecConflict, RedisExec, ExecWrites,
                      RedisDel, DelRemoves, RedisDelNothing, RedisGet
  <2> QED
    BY <2>1, <2>3, CheckBytesSimulates, LocalSetSimulates, LocalDeleteSimulates,
       LocalGetSimulates, ReturnSimulates
<1>3. ASSUME NEW q \in Requests,
             RedisError(q) \/ RedisExecReplyLost(q) \/ RedisDelReplyLost(q)
      PROVE  [Store!Next]_(Store!vars)
  <2>1. EnableRedCache
    BY <1>3 DEF RedisError, RedisExecReplyLost, ExecWrites, RedisDelReplyLost, DelRemoves,
                StepInv, InStep
  <2>2. CASE RedisError(q)
    <3>1. StoredCatalog' = StoredCatalog
      BY <2>1, <2>2, SameCatalog DEF RedisError, redisVars
    <3> QED
      BY <2>2, <3>1, ErrorSimulates DEF RedisError
  <2> QED
    BY <1>3, <2>1, <2>2, RedisExecSimulates, RedisDelSimulates
<1>4. ASSUME NEW r \in Replicas, Crash(r) PROVE [Store!Next]_(Store!vars)
  BY <1>4, CrashKeeps, CrashSimulates
<1>5. CASE UNCHANGED vars
  <2>1. req' = req /\ redis' = redis /\ lc' = lc
    BY <1>5 DEF vars, redisVars, replicaVars
  <2>2. Calls' = Calls /\ StoredCatalog' = StoredCatalog
    BY <2>1, SameCatalog DEF Calls
  <2> QED
    BY <2>2, Stutter
<1> QED
  BY <1>1, <1>2, <1>3, <1>4, <1>5, InvokeSimulates, ReplicaSimulates DEF Next

(* A catalog cache with one store is an atomic catalog store: whatever requests,
   replicas, WATCH conflicts, lost replies and crashes come in between, every
   answer is one that the request could have got at one instant between call
   and answer; only a LocalCache that is limited or dies forgets. *)
THEOREM SingleStoreImplements == SingleStore => (Spec => ImplementsCatalogStore)
<1> SUFFICES ASSUME SingleStore PROVE Spec => ImplementsCatalogStore
  OBVIOUS
<1>1. Init => StepInv /\ Store!Init
  BY StepInvInit, InitSimulates
<1>2. IInv /\ StepInv /\ [Next]_vars => StepInv'
  BY StepInvNext
<1>3. IInv /\ StepInv /\ [Next]_vars => [Store!Next]_(Store!vars)
  BY NextSimulates
<1> QED
  BY <1>1, <1>2, <1>3, Invariance, PTL DEF Spec, ImplementsCatalogStore, Store!Spec
=============================================================================
