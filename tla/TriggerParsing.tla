---------------------------- MODULE TriggerParsing ----------------------------
(***************************************************************************)
(* How a compile request becomes a session: parseTriggers                  *)
(* (mcg/requests/metrics_config.go) with TriggerRequest.ToProto, the       *)
(* shallow validation of each trigger, the expressions a session stashes,  *)
(* and the error answer that FlattenErrorList makes of the errors found.   *)
(*                                                                         *)
(* Handlers of several requests run concurrently.  All they share is the   *)
(* package variable mcgerrors.MultipleTriggers, an error object to which   *)
(* checkDoesNotHaveMultipleTriggers adds field violations without a lock:  *)
(* an addition is a read and a write with other handlers in between.       *)
(***************************************************************************)
EXTENDS Integers, Sequences, FiniteSets

CONSTANTS
  Slots,         \* how many requests are open at a time
  Names,         \* trigger names
  NoName,        \* the empty string
  Payloads,      \* the trigger lists that requests carry
  MaxRequests    \* bound on the number of requests

ASSUME NamesAssumption == NoName \notin Names
ASSUME MaxRequestsAssumption == MaxRequests \in Nat

EdgeTypes == {"all_changes", "rising_edge", "falling_edge"}
ConditionTypes == EdgeTypes \cup {"is_true", "is_false"}

\* What of a "conditional" object the code looks at: whether it lists parent
\* triggers, which condition types it has, and of an edge type its minimum
\* duration, fire_initial and initialize_expression.
Conditional ==
  [parents : BOOLEAN, types : SUBSET ConditionTypes,
   options : {"none", "valid", "negative"}, fire_initial : BOOLEAN, initialize : BOOLEAN]

Data == [publisher : BOOLEAN, source : BOOLEAN]

Periodic == [period : {-1, 0, 1}, count : {"none", "zero", "positive"}]

\* A TriggerRequest: its name and the formats that are present, each a
\* sequence of at most one object (nil or a pointer in the code).
AtMostOne(S) == {<< >>} \cup {<<x>> : x \in S}

TriggerRequest ==
  [name : Names \cup {NoName}, conditional : AtMostOne(Conditional),
   data : AtMostOne(Data), periodic : AtMostOne(Periodic)]

ASSUME PayloadsAssumption == Payloads \subseteq Seq(TriggerRequest)

VARIABLES
  multipleTriggers,  \* field violations in MultipleTriggers.Details, each with
                     \* the number of the request that added it (history)
  handler,           \* handler[s]: the request in slot s
  issued             \* requests so far

vars == <<multipleTriggers, handler, issued>>

Formats == {"conditional", "data", "periodic"}

Violation == [field : Formats, by : Nat]

\* An error: the trigger it is about, whether it is the shared object.
Error == [trigger : Nat, shared : BOOLEAN]

\* An accepted trigger: its place in the request, and the session ids of its
\* expressions, 0 for none.
Trigger == [place : Nat, selector : Nat, initialize : Nat]

Handler ==
  [pc : {"idle", "parse", "read", "append", "compile", "refused"},
   id : Nat, triggers : Seq(TriggerRequest), at : Nat,
   pending : Seq(Formats), seen : Seq(Violation),
   sess : SUBSET Trigger, expressions : Seq(Nat), errorList : Seq(Error),
   answer : Seq(Violation)]

NoRequest ==
  [pc |-> "idle", id |-> 0, triggers |-> << >>, at |-> 0,
   pending |-> << >>, seen |-> << >>,
   sess |-> {}, expressions |-> << >>, errorList |-> << >>, answer |-> << >>]

TypeOK ==
  /\ multipleTriggers \in Seq(Violation)
  /\ handler \in [Slots -> Handler]
  /\ \A s \in Slots :
       LET h == handler[s]
       IN  /\ h.at \in 0..(Len(h.triggers) + 1)
           /\ \A i \in 1..Len(h.errorList) : h.errorList[i].trigger \in 1..Len(h.triggers)
  /\ issued \in 0..MaxRequests

Init ==
  /\ multipleTriggers = << >>
  /\ handler = [s \in Slots |-> NoRequest]
  /\ issued = 0

-----------------------------------------------------------------------------
(* One trigger. *)

\* The formats of t, in the order checkDoesNotHaveMultipleTriggers adds them.
FormatsOf(t) ==
  (IF t.conditional # << >> THEN <<"conditional">> ELSE << >>)
    \o (IF t.data # << >> THEN <<"data">> ELSE << >>)
    \o (IF t.periodic # << >> THEN <<"periodic">> ELSE << >>)

HasMultipleTriggers(t) == Len(FormatsOf(t)) > 1

\* Which condition type parseConditionType comes to first.
FirstType(types) ==
  CASE "all_changes" \in types  -> "all_changes"
    [] "rising_edge" \in types  -> "rising_edge"
    [] "falling_edge" \in types -> "falling_edge"
    [] OTHER                    -> "other"

OneType(c) == \E type \in ConditionTypes : c.types = {type}

\* How many expressions ToProto stashes: the initialize_expression of the
\* first edge type, even when a second type then makes it fail, and the
\* selector expression, even an empty one.
InitializeStashed(c) == c.initialize /\ FirstType(c.types) \in EdgeTypes

\* ToProto returns no error.  (One format at most.)
ParsesOK(t) ==
  /\ FormatsOf(t) # << >>
  /\ \A i \in 1..Len(t.conditional) : OneType(t.conditional[i])
  /\ \A i \in 1..Len(t.data) : t.data[i].publisher # t.data[i].source

\* ShallowValidateTrigger of what ToProto returned.
ShallowValidateTrigger(t) ==
  /\ t.name # NoName
  /\ \A i \in 1..Len(t.conditional) :
       LET c == t.conditional[i]
       IN  /\ c.parents
           /\ c.types \cap EdgeTypes # {} =>
                /\ c.options # "negative"
                /\ ~(c.options # "none" /\ c.fire_initial)
                /\ ~(c.fire_initial /\ c.initialize)
  /\ \A i \in 1..Len(t.periodic) :
       t.periodic[i].period > 0 /\ t.periodic[i].count # "zero"

-----------------------------------------------------------------------------
(* The handler. *)

Go(s, h) == handler' = [handler EXCEPT ![s] = h]

Receive(s, payload) ==
  /\ handler[s].pc = "idle"
  /\ issued < MaxRequests
  /\ issued' = issued + 1
  /\ Go(s, [NoRequest EXCEPT !.pc = "parse", !.id = issued + 1, !.triggers = payload,
                             !.at = 1])
  /\ UNCHANGED multipleTriggers

\* The loop of parseTriggers has a next trigger, and that is it.
AtTrigger(s, t) ==
  /\ handler[s].pc = "parse"
  /\ handler[s].at <= Len(handler[s].triggers)
  /\ t = handler[s].triggers[handler[s].at]

\* Mutant: an error is recorded after the loop variable has advanced.
RefuseNextTrigger(h, isShared) ==
  [h EXCEPT !.pc = "parse", !.at = @ + 1,
            !.errorList = Append(@, [trigger |-> h.at + 1, shared |-> isShared])]

\* `continue` after an error.
Refuse(h, isShared) ==
  [h EXCEPT !.pc = "parse", !.at = @ + 1,
            !.errorList = Append(@, [trigger |-> h.at, shared |-> isShared])]

\* Session.ExprStash: the next id, and whose expression it is.
Stash(h) == [h EXCEPT !.expressions = Append(@, h.at)]

\* h after the stashing of ToProto.
Stashed(h, t) ==
  IF t.conditional = << >> THEN h
  ELSE LET c == t.conditional[1]
           h1 == IF InitializeStashed(c) THEN Stash(h) ELSE h
       IN  IF OneType(c) THEN Stash(h1) ELSE h1

\* Mutant: the initialize expression is given the id of the selector.
ParsedReusingId(h, t) ==
  LET n == Len(h.expressions)
  IN  IF t.conditional = << >>
      THEN [place |-> h.at, selector |-> 0, initialize |-> 0]
      ELSE [place |-> h.at, selector |-> n,
            initialize |-> IF InitializeStashed(t.conditional[1]) THEN n ELSE 0]

\* The session's trigger of h.at, whose expressions were stashed last.
Parsed(h, t) ==
  LET n == Len(h.expressions)
  IN  IF t.conditional = << >>
      THEN [place |-> h.at, selector |-> 0, initialize |-> 0]
      ELSE [place |-> h.at, selector |-> n,
            initialize |-> IF InitializeStashed(t.conditional[1]) THEN n - 1 ELSE 0]

Duplicate(h, t) == \E u \in h.sess : h.triggers[u.place].name = t.name

\* Mutant: the duplicate overwrites.
ParseTriggerOverwriting(s) ==
  \E t \in {handler[s].triggers[i] : i \in 1..Len(handler[s].triggers)} :
    /\ AtTrigger(s, t)
    /\ ~HasMultipleTriggers(t)
    /\ LET h == Stashed(handler[s], t)
       IN  Go(s, IF ~ParsesOK(t) \/ ~ShallowValidateTrigger(t)
                 THEN Refuse(h, FALSE)
                 ELSE [h EXCEPT !.sess = @ \cup {Parsed(h, t)}, !.at = @ + 1])
    /\ UNCHANGED <<multipleTriggers, issued>>

\* A trigger with at most one format: nothing shared is touched.
ParseTrigger(s) ==
  \E t \in {handler[s].triggers[i] : i \in 1..Len(handler[s].triggers)} :
    /\ AtTrigger(s, t)
    /\ ~HasMultipleTriggers(t)
    /\ LET h == Stashed(handler[s], t)
       IN  Go(s, IF ~ParsesOK(t) \/ ~ShallowValidateTrigger(t) \/ Duplicate(h, t)
                 THEN Refuse(h, FALSE)
                 ELSE [h EXCEPT !.sess = @ \cup {Parsed(h, t)}, !.at = @ + 1])
    /\ UNCHANGED <<multipleTriggers, issued>>

\* checkDoesNotHaveMultipleTriggers of a trigger with two formats or more: one
\* field violation per format is added to the shared error.
ParseMultipleTriggers(s) ==
  \E t \in {handler[s].triggers[i] : i \in 1..Len(handler[s].triggers)} :
    /\ AtTrigger(s, t)
    /\ HasMultipleTriggers(t)
    /\ Go(s, [handler[s] EXCEPT !.pc = "read", !.pending = FormatsOf(t)])
    /\ UNCHANGED <<multipleTriggers, issued>>

\* WithFieldViolation finds the list of violations, ...
ReadDetails(s) ==
  /\ handler[s].pc = "read"
  /\ Go(s, [handler[s] EXCEPT !.pc = "append", !.seen = multipleTriggers])
  /\ UNCHANGED <<multipleTriggers, issued>>

\* ... and appends to it.  A list that has grown in between is cut back to one
\* more than was read.  If both appends went to the same backing array, either
\* of the two elements may be the one that is in it.
AppendViolation(s) ==
  LET h == handler[s]
      n == Len(h.seen)
      own == Append(h.seen, [field |-> Head(h.pending), by |-> h.id])
      next == [h EXCEPT !.pending = Tail(@), !.seen = << >>]
  IN  /\ h.pc = "append"
      /\ multipleTriggers' \in
           {own} \cup (IF Len(multipleTriggers) > n
                      THEN {SubSeq(multipleTriggers, 1, n + 1)} ELSE {})
      /\ Go(s, IF Tail(h.pending) = << >>
               THEN Refuse(next, TRUE)
               ELSE [next EXCEPT !.pc = "read"])
      /\ UNCHANGED issued

\* formatErrorDetailsToFlatError: each error of the list gives the violations
\* it holds now.  (Only those of the shared error are followed.)
FlattenErrorList(h) ==
  LET shared == {i \in 1..Len(h.errorList) : h.errorList[i].shared}
  IN  [i \in 1..(Cardinality(shared) * Len(multipleTriggers)) |->
         multipleTriggers[((i - 1) % Len(multipleTriggers)) + 1]]

\* ToSession returns to handleCompile, which compiles or answers the errors.
ToSessionReturns(s) ==
  LET h == handler[s]
  IN  /\ h.pc = "parse"
      /\ h.at > Len(h.triggers)
      /\ Go(s, IF h.errorList = << >>
               THEN [h EXCEPT !.pc = "compile"]
               ELSE [h EXCEPT !.pc = "refused", !.answer = FlattenErrorList(h)])
      /\ UNCHANGED <<multipleTriggers, issued>>

\* Mutant: the shared violations go with the answer, which would keep them from
\* piling up.
ReturnClearing(s) ==
  /\ handler[s].pc \in {"compile", "refused"}
  /\ Go(s, NoRequest)
  /\ multipleTriggers' = << >>
  /\ UNCHANGED issued

Return(s) ==
  /\ handler[s].pc \in {"compile", "refused"}
  /\ Go(s, NoRequest)
  /\ UNCHANGED <<multipleTriggers, issued>>

Next ==
  \E s \in Slots :
    \/ \E payload \in Payloads : Receive(s, payload)
    \/ ParseTrigger(s) \/ ParseMultipleTriggers(s)
    \/ ReadDetails(s) \/ AppendViolation(s)
    \/ ToSessionReturns(s) \/ Return(s)

Spec == Init /\ [][Next]_vars

-----------------------------------------------------------------------------
(* Properties. *)

WellFormed(t) == ~HasMultipleTriggers(t) /\ ParsesOK(t) /\ ShallowValidateTrigger(t)

\* The places of the triggers that a request should be told about: ill-formed,
\* or named like an earlier trigger that is not.
FaultyPlaces(triggers) ==
  {i \in 1..Len(triggers) :
     \/ ~WellFormed(triggers[i])
     \/ \E j \in 1..(i - 1) : WellFormed(triggers[j]) /\ triggers[j].name = triggers[i].name}

\* A request is told about every faulty trigger, about each one once and in the
\* order of the request, the session has exactly the others (parseTriggers
\* goes on after an error), and only a request without any goes on to be
\* compiled.
EachFaultReported ==
  \A s \in Slots :
    LET h == handler[s]
        faulty == FaultyPlaces(h.triggers)
    IN  h.pc \in {"compile", "refused"} =>
          /\ {h.errorList[i].trigger : i \in 1..Len(h.errorList)} = faulty
          /\ \A i, j \in 1..Len(h.errorList) :
               i < j => h.errorList[i].trigger < h.errorList[j].trigger
          /\ {u.place : u \in h.sess} = (1..Len(h.triggers)) \ faulty
          /\ h.pc = "compile" <=> faulty = {}

\* The expression ids in a session's triggers (ExprStash) resolve to expressions
\* of that very trigger, and no two uses share an id, whatever was stashed for
\* triggers that were refused.
ExpressionsResolve ==
  \A s \in Slots :
    LET h == handler[s]
        uses == {<<u, "selector">> : u \in {v \in h.sess : v.selector # 0}}
                  \cup {<<u, "initialize">> : u \in {v \in h.sess : v.initialize # 0}}
        id(use) == use[1][use[2]]
    IN  /\ \A use \in uses :
             /\ id(use) \in 1..Len(h.expressions)
             /\ h.expressions[id(use)] = use[1].place
        /\ \A use1, use2 \in uses : id(use1) = id(use2) => use1 = use2
        /\ \A u \in h.sess : h.triggers[u.place].conditional # << >> => u.selector # 0

HasSharedError(h) == \E i \in 1..Len(h.errorList) : h.errorList[i].shared

\* A request refused for a trigger of several formats is shown a violation,
\* whatever WithFieldViolation loses when handlers append at the same time and
\* whenever the others answer.  (It may be no violation of its own: an append of
\* another handler can cut off all of them.)
RefusalShowsViolation ==
  \A s \in Slots :
    handler[s].pc = "refused" /\ HasSharedError(handler[s]) => handler[s].answer # << >>

\* An error answer shows the errors of its own request: FlattenErrorList "flattens all
\* the so far seen errors into one error".  (Not so: MultipleTriggers keeps the
\* violations of every earlier request.)
ReportsOnlyOwnViolations ==
  \A s \in Slots : \A i \in 1..Len(handler[s].answer) :
    handler[s].answer[i].by = handler[s].id
=============================================================================
