----------------------------- MODULE CatalogStore -----------------------------
(***************************************************************************)
(* What the catalog endpoints promise (README.md, "Vehicle Signal          *)
(* Catalogs"; openapi.template.yaml): one catalog per version, and every   *)
(* request acts on it at one instant between call and answer.              *)
(*                                                                         *)
(* An "error" answer says nothing about the effect, a DELETE whose reply   *)
(* was lost on the way may act twice, and a store that is limited or       *)
(* volatile may forget versions.                                           *)
(***************************************************************************)
CONSTANTS
  Versions, Bytes, BadBytes, NilBytes, Absent, NoVersion, Requests, Ops,
  Lossy       \* whether the store may forget

VARIABLES
  catalog,    \* catalog[v]: the catalog stored under v, or Absent
  call        \* call[q]: the request in slot q

vars == <<catalog, call>>

NoCall == [state |-> "idle", op |-> "none", version |-> NoVersion,
           bytes |-> Absent, answer |-> "none"]

Init ==
  /\ catalog = [v \in Versions |-> Absent]
  /\ call = [q \in Requests |-> NoCall]

\* What a request does to the catalogs, and what it answers.
Effect(c) ==
  CASE c.op = "set"    -> [catalog EXCEPT ![c.version] = c.bytes]
    [] c.op = "delete" -> [catalog EXCEPT ![c.version] = Absent]
    [] c.op = "get"    -> catalog

Answer(c) ==
  CASE c.op = "set"    -> "ok"
    [] c.op = "delete" -> IF catalog[c.version] = Absent THEN "notfound" ELSE "ok"
    [] c.op = "get"    -> IF catalog[c.version] \in {NilBytes, Absent} THEN "notfound"
                          ELSE catalog[c.version]

\* `catalog'` is `stored`, of which a lossy store may forget versions.
Keep(stored) ==
  IF Lossy
  THEN \E kept \in SUBSET Versions :
         catalog' = [v \in Versions |-> IF v \in kept THEN stored[v] ELSE Absent]
  ELSE catalog' = stored

Valid(c) == c.op = "set" => c.bytes \in Bytes

Call(q, op, v, b) ==
  /\ call[q].state = "idle"
  /\ call' = [call EXCEPT ![q] = [state |-> "pending", op |-> op, version |-> v,
                                  bytes |-> b, answer |-> "none"]]
  /\ UNCHANGED catalog

Act(q) ==
  /\ call[q].state = "pending"
  /\ Valid(call[q])
  /\ Keep(Effect(call[q]))
  /\ call' = [call EXCEPT ![q].state = "done", ![q].answer = Answer(call[q])]

Fail(q) ==
  /\ call[q].state = "pending"
  /\ \/ UNCHANGED catalog
     \/ Valid(call[q]) /\ catalog' = Effect(call[q])
  /\ call' = [call EXCEPT ![q].state = "done", ![q].answer = "error"]

DeleteUnseen(q) ==
  /\ call[q].state = "pending"
  /\ call[q].op = "delete"
  /\ catalog' = Effect(call[q])
  /\ UNCHANGED call

Return(q) ==
  /\ call[q].state = "done"
  /\ call' = [call EXCEPT ![q] = NoCall]
  /\ UNCHANGED catalog

\* Requests are abandoned when the process that serves them dies.
Abandon(dead) ==
  /\ call' = [q \in Requests |-> IF q \in dead THEN NoCall ELSE call[q]]
  /\ Keep(catalog)

Next ==
  \/ \E q \in Requests :
       \/ \E op \in Ops, v \in Versions, b \in Bytes \cup BadBytes \cup {Absent} :
            Call(q, op, v, b)
       \/ Act(q)
       \/ Fail(q)
       \/ DeleteUnseen(q)
       \/ Return(q)
  \/ \E dead \in SUBSET Requests : Abandon(dead)

Spec == Init /\ [][Next]_vars
=============================================================================
