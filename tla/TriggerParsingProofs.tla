------------------------- MODULE TriggerParsingProofs -------------------------
(***************************************************************************)
(* Proofs about TriggerParsing, for every number of open requests and every *)
(* set of trigger lists, of any length.                                    *)
(*                                                                         *)
(* The inductive invariant is the loop invariant of parseTriggers: when the *)
(* loop comes to trigger number `at`, the errors and the session account    *)
(* for exactly the triggers before it.  The additions to the shared error   *)
(* happen inside one round of the loop and disturb none of it.              *)
(***************************************************************************)
EXTENDS TriggerParsing, FiniteSetTheorems, SequenceTheorems, TLAPS

Done(h) == 1..(h.at - 1)

\* The errors of the triggers the loop is past, in order, and the session.
Accounted(h) ==
  /\ {h.errorList[i].trigger : i \in 1..Len(h.errorList)} = FaultyPlaces(h.triggers) \cap Done(h)
  /\ \A i, j \in 1..Len(h.errorList) :
       i < j => h.errorList[i].trigger < h.errorList[j].trigger
  /\ {u.place : u \in h.sess} = Done(h) \ FaultyPlaces(h.triggers)
  /\ \A u, w \in h.sess : u.place = w.place => u = w
  /\ \A j \in Done(h) :
       WellFormed(h.triggers[j]) =>
         \E u \in h.sess : h.triggers[u.place].name = h.triggers[j].name

\* id is the expression id of a trigger at `place`, or 0.
Resolves(h, id, place) == id # 0 => id \in 1..Len(h.expressions) /\ h.expressions[id] = place

ResolvesAll(h) ==
  \A u \in h.sess :
    /\ Resolves(h, u.selector, u.place)
    /\ Resolves(h, u.initialize, u.place)
    /\ u.selector = u.initialize => u.selector = 0
    /\ h.triggers[u.place].conditional # << >> => u.selector # 0

\* Where the handler is.
InLoop(h) ==
  CASE h.pc = "idle"                   -> h = NoRequest
    [] h.pc = "parse"                  -> h.at \in 1..(Len(h.triggers) + 1)
    [] h.pc \in {"read", "append"}     -> /\ h.at \in 1..Len(h.triggers)
                                          /\ HasMultipleTriggers(h.triggers[h.at])
                                          /\ h.pending # << >>
    [] h.pc \in {"compile", "refused"} -> /\ h.at = Len(h.triggers) + 1
                                          /\ h.pc = "compile" <=> h.errorList = << >>

Good(h) == h \in Handler /\ InLoop(h) /\ Accounted(h) /\ ResolvesAll(h)

IInv ==
  /\ multipleTriggers \in Seq(Violation)
  /\ issued \in 0..MaxRequests
  /\ handler \in [Slots -> Handler]
  /\ \A s \in Slots : Good(handler[s])

-----------------------------------------------------------------------------
(* The records. *)

LEMMA NoRequestGood == Good(NoRequest)
<1>1. NoRequest \in Handler
  BY DEF NoRequest, Handler
<1>2. InLoop(NoRequest)
  BY DEF NoRequest, InLoop
<1>3. Accounted(NoRequest)
  BY DEF NoRequest, Accounted, Done, FaultyPlaces
<1>4. ResolvesAll(NoRequest)
  BY DEF NoRequest, ResolvesAll
<1> QED
  BY <1>1, <1>2, <1>3, <1>4 DEF Good

(* A handler's fields, from its type. *)
LEMMA HandlerFields ==
  ASSUME NEW h \in Handler
  PROVE  /\ h.pc \in {"idle", "parse", "read", "append", "compile", "refused"}
         /\ h.id \in Nat /\ h.at \in Nat /\ h.triggers \in Seq(TriggerRequest)
         /\ h.pending \in Seq(Formats) /\ h.seen \in Seq(Violation)
         /\ h.sess \in SUBSET Trigger /\ h.expressions \in Seq(Nat)
         /\ h.errorList \in Seq(Error) /\ h.answer \in Seq(Violation)
  BY DEF Handler

(* The places of the session are well-formed triggers. *)
LEMMA SessionWellFormed ==
  ASSUME NEW h \in Handler, Accounted(h), h.at <= Len(h.triggers) + 1, NEW u \in h.sess
  PROVE  u.place \in Done(h) /\ u.place \in 1..Len(h.triggers) /\ WellFormed(h.triggers[u.place])
<1>1. u.place \in Done(h) /\ u.place \notin FaultyPlaces(h.triggers)
  BY DEF Accounted
<1>2. Len(h.triggers) \in Nat /\ h.at \in Nat
  BY HandlerFields
<1>3. u.place \in 1..Len(h.triggers)
  BY <1>1, <1>2 DEF Done
<1> QED
  BY <1>1, <1>3 DEF FaultyPlaces

(* checkIfTriggerNameAlreadyExists looks among the accepted triggers; that is
   to look among the well-formed ones before. *)
LEMMA DuplicateMeans ==
  ASSUME NEW h \in Handler, Accounted(h), h.at \in 1..Len(h.triggers)
  PROVE  Duplicate(h, h.triggers[h.at]) <=>
           \E j \in Done(h) : /\ WellFormed(h.triggers[j])
                              /\ h.triggers[j].name = h.triggers[h.at].name
<1>0. Len(h.triggers) \in Nat /\ h.at \in Nat
  BY HandlerFields
<1>1. ASSUME Duplicate(h, h.triggers[h.at])
      PROVE  \E j \in Done(h) : /\ WellFormed(h.triggers[j])
                                /\ h.triggers[j].name = h.triggers[h.at].name
  <2>1. PICK u \in h.sess : h.triggers[u.place].name = h.triggers[h.at].name
    BY <1>1 DEF Duplicate
  <2>2. u.place \in Done(h) /\ WellFormed(h.triggers[u.place])
    BY <1>0, SessionWellFormed
  <2> QED
    BY <2>1, <2>2
<1>2. ASSUME NEW j \in Done(h), WellFormed(h.triggers[j]),
             h.triggers[j].name = h.triggers[h.at].name
      PROVE  Duplicate(h, h.triggers[h.at])
  BY <1>2 DEF Duplicate, Accounted
<1> QED
  BY <1>1, <1>2

(* So the loop refuses exactly the faulty triggers. *)
LEMMA FaultyMeans ==
  ASSUME NEW h \in Handler, Accounted(h), h.at \in 1..Len(h.triggers)
  PROVE  h.at \in FaultyPlaces(h.triggers) <=>
           \/ ~WellFormed(h.triggers[h.at])
           \/ Duplicate(h, h.triggers[h.at])
  BY DuplicateMeans DEF FaultyPlaces, Done

-----------------------------------------------------------------------------
(* A round of the loop. *)

LEMMA NextDone ==
  ASSUME NEW h \in Handler, h.at \in 1..Len(h.triggers), NEW g, g.at = h.at + 1
  PROVE  Done(g) = Done(h) \cup {h.at} /\ h.at \notin Done(h)
<1>1. Len(h.triggers) \in Nat /\ h.at \in Nat
  BY HandlerFields
<1> QED
  BY <1>1 DEF Done

LEMMA RefusedAccounted ==
  ASSUME NEW h \in Handler, Accounted(h), h.at \in 1..Len(h.triggers),
         h.at \in FaultyPlaces(h.triggers), NEW shared,
         NEW g, g.triggers = h.triggers, g.at = h.at + 1, g.sess = h.sess,
         g.errorList = Append(h.errorList, [trigger |-> h.at, shared |-> shared])
  PROVE  Accounted(g)
<1> DEFINE e == [trigger |-> h.at, shared |-> shared]
           n == Len(h.errorList)
<1>1. /\ h.errorList \in Seq(Error) /\ n \in Nat /\ Len(g.errorList) = n + 1
      /\ \A i \in 1..n : g.errorList[i] = h.errorList[i]
      /\ g.errorList[n + 1] = e
  BY HandlerFields
<1>2. Done(g) = Done(h) \cup {h.at} /\ h.at \notin Done(h)
  BY NextDone
<1>3. e.trigger = h.at
  OBVIOUS
<1> HIDE DEF e, n
<1>4. {g.errorList[i].trigger : i \in 1..Len(g.errorList)}
        = {h.errorList[i].trigger : i \in 1..n} \cup {h.at}
  BY <1>1, <1>3
<1>5. \A i \in 1..n : h.errorList[i].trigger \in Done(h)
  BY DEF Accounted, n
<1>6. h.at \in Nat
  BY HandlerFields
<1>7. \A i \in 1..n : h.errorList[i].trigger < h.at
  BY <1>5, <1>6 DEF Done
<1>8. \A i, j \in 1..Len(g.errorList) :
        i < j => g.errorList[i].trigger < g.errorList[j].trigger
  <2> TAKE i, j \in 1..Len(g.errorList)
  <2> HAVE i < j
  <2>1. i \in 1..n /\ (j \in 1..n \/ j = n + 1)
    BY <1>1
  <2>2. CASE j \in 1..n
    BY <1>1, <2>1, <2>2 DEF Accounted, n
  <2>3. CASE j = n + 1
    BY <1>1, <1>3, <1>7, <2>1, <2>3
  <2> QED
    BY <2>1, <2>2, <2>3
<1>9. \A j \in Done(g) :
        WellFormed(g.triggers[j]) =>
          \E u \in g.sess : g.triggers[u.place].name = g.triggers[j].name
  <2>1. CASE WellFormed(h.triggers[h.at])
    <3>1. Duplicate(h, h.triggers[h.at])
      BY <2>1, FaultyMeans
    <3> QED
      BY <1>2, <3>1 DEF Accounted, Duplicate
  <2>2. CASE ~WellFormed(h.triggers[h.at])
    BY <1>2, <2>2 DEF Accounted
  <2> QED
    BY <2>1, <2>2
<1>10. {u.place : u \in g.sess} = Done(g) \ FaultyPlaces(g.triggers)
  BY <1>2 DEF Accounted
<1>11. {g.errorList[i].trigger : i \in 1..Len(g.errorList)} = FaultyPlaces(g.triggers) \cap Done(g)
  BY <1>2, <1>4 DEF Accounted, n
<1> QED
  BY <1>8, <1>9, <1>10, <1>11 DEF Accounted

LEMMA AcceptedAccounted ==
  ASSUME NEW h \in Handler, Accounted(h), h.at \in 1..Len(h.triggers),
         h.at \notin FaultyPlaces(h.triggers), NEW u, u.place = h.at,
         NEW g, g.triggers = h.triggers, g.at = h.at + 1, g.sess = h.sess \cup {u},
         g.errorList = h.errorList
  PROVE  Accounted(g)
<1>1. Done(g) = Done(h) \cup {h.at} /\ h.at \notin Done(h)
  BY NextDone
<1>2. {w.place : w \in g.sess} = {w.place : w \in h.sess} \cup {h.at}
  OBVIOUS
<1>3. {w.place : w \in g.sess} = Done(g) \ FaultyPlaces(g.triggers)
  BY <1>1, <1>2 DEF Accounted
<1>4. \A w \in h.sess : w.place # h.at
  BY <1>1 DEF Accounted
<1>5. \A v, w \in g.sess : v.place = w.place => v = w
  BY <1>4 DEF Accounted
<1>6. \A j \in Done(g) :
        WellFormed(g.triggers[j]) =>
          \E w \in g.sess : g.triggers[w.place].name = g.triggers[j].name
  BY <1>1 DEF Accounted
<1>7. {g.errorList[i].trigger : i \in 1..Len(g.errorList)} = FaultyPlaces(g.triggers) \cap Done(g)
  BY <1>1 DEF Accounted
<1> QED
  BY <1>3, <1>5, <1>6, <1>7 DEF Accounted

-----------------------------------------------------------------------------
(* The expressions. *)

\* g is h with more expressions, all of them of trigger h.at.
Grown(h, g) ==
  /\ g \in Handler
  /\ g.pc = h.pc /\ g.id = h.id /\ g.triggers = h.triggers /\ g.at = h.at
  /\ g.pending = h.pending /\ g.seen = h.seen /\ g.sess = h.sess
  /\ g.errorList = h.errorList /\ g.answer = h.answer
  /\ Len(g.expressions) >= Len(h.expressions)
  /\ \A i \in 1..Len(h.expressions) : g.expressions[i] = h.expressions[i]

LEMMA StashFacts ==
  ASSUME NEW h \in Handler
  PROVE  /\ Grown(h, h) /\ Grown(h, Stash(h))
         /\ Len(Stash(h).expressions) = Len(h.expressions) + 1
         /\ Stash(h).expressions[Len(h.expressions) + 1] = h.at
<1>1. h.expressions \in Seq(Nat) /\ h.at \in Nat
  BY HandlerFields
<1>2. Append(h.expressions, h.at) \in Seq(Nat)
  BY <1>1
<1>3. Stash(h) \in Handler
  BY <1>2 DEF Stash, Handler
<1>4. /\ Stash(h).pc = h.pc /\ Stash(h).id = h.id /\ Stash(h).triggers = h.triggers
      /\ Stash(h).at = h.at /\ Stash(h).pending = h.pending /\ Stash(h).seen = h.seen
      /\ Stash(h).sess = h.sess /\ Stash(h).errorList = h.errorList
      /\ Stash(h).answer = h.answer
      /\ Stash(h).expressions = Append(h.expressions, h.at)
  BY DEF Stash, Handler
<1>5. Grown(h, h)
  BY <1>1 DEF Grown
<1> QED
  BY <1>1, <1>3, <1>4, <1>5 DEF Grown

LEMMA StashedFacts ==
  ASSUME NEW h \in Handler, NEW t, NEW g, g = Stashed(h, t)
  PROVE  /\ Grown(h, g)
         /\ t.conditional # << >> /\ OneType(t.conditional[1]) =>
              /\ Len(g.expressions) \in Nat \ {0}
              /\ g.expressions[Len(g.expressions)] = h.at
              /\ InitializeStashed(t.conditional[1]) =>
                   /\ Len(g.expressions) - 1 \in Nat \ {0}
                   /\ g.expressions[Len(g.expressions) - 1] = h.at
<1> DEFINE c == t.conditional[1]
           h1 == IF InitializeStashed(c) THEN Stash(h) ELSE h
<1>1. CASE t.conditional = << >>
  BY <1>1, StashFacts DEF Stashed
<1>2. CASE t.conditional # << >>
  <2>1. h.expressions \in Seq(Nat)
    BY HandlerFields
  <2>2. /\ Grown(h, h1)
        /\ InitializeStashed(c) => /\ Len(h1.expressions) = Len(h.expressions) + 1
                                   /\ h1.expressions[Len(h1.expressions)] = h.at
    BY StashFacts
  <2>3. g = IF OneType(c) THEN Stash(h1) ELSE h1
    BY <1>2 DEF Stashed
  <2>4. h1 \in Handler /\ h1.at = h.at
    BY <2>2 DEF Grown
  <2> HIDE DEF h1
  <2>5. h1.expressions \in Seq(Nat)
    BY <2>4, HandlerFields
  <2>6. CASE OneType(c)
    <3>1. /\ Grown(h1, g) /\ Len(g.expressions) = Len(h1.expressions) + 1
          /\ g.expressions[Len(g.expressions)] = h.at
      BY <2>3, <2>4, <2>6, StashFacts
    <3>2. Grown(h, g)
      BY <2>1, <2>2, <2>5, <3>1 DEF Grown
    <3>3. InitializeStashed(c) =>
            /\ Len(g.expressions) - 1 \in Nat \ {0}
            /\ g.expressions[Len(g.expressions) - 1] = h.at
      BY <2>1, <2>2, <2>5, <3>1 DEF Grown
    <3> QED
      BY <2>5, <3>1, <3>2, <3>3
  <2>7. CASE ~OneType(c)
    BY <2>2, <2>3, <2>7
  <2> QED
    BY <2>6, <2>7
<1> QED
  BY <1>1, <1>2

(* More expressions change nothing for the triggers that are in the session. *)
LEMMA GrownResolves ==
  ASSUME NEW h \in Handler, ResolvesAll(h), NEW g, Grown(h, g)
  PROVE  ResolvesAll(g)
<1>1. h.expressions \in Seq(Nat) /\ g.expressions \in Seq(Nat)
  BY HandlerFields DEF Grown
<1>2. \A id, place : Resolves(h, id, place) => Resolves(g, id, place)
  BY <1>1 DEF Grown, Resolves
<1> QED
  BY <1>2 DEF ResolvesAll, Grown

LEMMA GrownAccounted ==
  ASSUME NEW h, Accounted(h), NEW g, Grown(h, g)
  PROVE  Accounted(g)
  BY DEF Accounted, Grown, Done

(* The trigger that joins the session refers to the expressions stashed last. *)
LEMMA ParsedFacts ==
  ASSUME NEW h \in Handler, NEW t \in TriggerRequest, WellFormed(t), NEW g, g = Stashed(h, t)
  PROVE  /\ Parsed(g, t) \in Trigger
         /\ Parsed(g, t).place = h.at
         /\ Resolves(g, Parsed(g, t).selector, h.at)
         /\ Resolves(g, Parsed(g, t).initialize, h.at)
         /\ Parsed(g, t).selector = Parsed(g, t).initialize => Parsed(g, t).selector = 0
         /\ t.conditional # << >> => Parsed(g, t).selector # 0
<1> DEFINE n == Len(g.expressions)
           c == t.conditional[1]
<1>1. Grown(h, g)
  BY StashedFacts
<1>2. g.at = h.at /\ h.at \in Nat /\ n \in Nat
  BY <1>1, HandlerFields DEF Grown
<1>3. CASE t.conditional = << >>
  BY <1>2, <1>3 DEF Parsed, Trigger, Resolves
<1>4. CASE t.conditional # << >>
  <2>1. Len(t.conditional) = 1
    BY <1>4 DEF TriggerRequest, AtMostOne
  <2>2. OneType(c)
    BY <2>1 DEF WellFormed, ParsesOK
  <2>3. /\ n \in Nat \ {0} /\ g.expressions[n] = h.at
        /\ InitializeStashed(c) => n - 1 \in Nat \ {0} /\ g.expressions[n - 1] = h.at
    BY <1>4, <2>2, StashedFacts
  <2> DEFINE i == IF InitializeStashed(c) THEN n - 1 ELSE 0
  <2>4. Parsed(g, t) = [place |-> h.at, selector |-> n, initialize |-> i]
    BY <1>2, <1>4 DEF Parsed
  <2>5. i \in Nat /\ i # n /\ Resolves(g, i, h.at) /\ Resolves(g, n, h.at)
    <3>1. Resolves(g, n, h.at)
      BY <2>3 DEF Resolves
    <3>2. CASE InitializeStashed(c)
      <4>1. i = n - 1
        BY <3>2
      <4>2. n - 1 \in Nat \ {0} /\ n - 1 # n /\ n - 1 \in 1..n
        <5>1. n \in Nat /\ n - 1 \in Nat \ {0}
          BY <2>3, <3>2
        <5> HIDE DEF n, c
        <5> QED
          BY <5>1
      <4>3. Resolves(g, n - 1, h.at)
        BY <2>3, <3>2, <4>2 DEF Resolves
      <4> QED
        BY <3>1, <4>1, <4>2, <4>3
    <3>3. CASE ~InitializeStashed(c)
      <4>1. i = 0
        BY <3>3
      <4> QED
        BY <2>3, <3>1, <4>1 DEF Resolves
    <3> QED
      BY <3>2, <3>3
  <2> HIDE DEF i, n
  <2> QED
    BY <1>2, <2>3, <2>4, <2>5 DEF Trigger
<1> QED
  BY <1>3, <1>4

-----------------------------------------------------------------------------
(* What each step makes of its handler. *)

(* An error after which the loop goes on. *)
LEMMA RefuseGood ==
  ASSUME NEW h \in Handler, Accounted(h), ResolvesAll(h), h.at \in 1..Len(h.triggers),
         h.at \in FaultyPlaces(h.triggers), NEW isShared \in BOOLEAN
  PROVE  Good(Refuse(h, isShared))
<1> DEFINE g == Refuse(h, isShared)
           e == [trigger |-> h.at, shared |-> isShared]
<1>1. h.errorList \in Seq(Error) /\ h.at \in Nat /\ Len(h.triggers) \in Nat
  BY HandlerFields
<1>2. Append(h.errorList, e) \in Seq(Error) /\ h.at + 1 \in Nat
  BY <1>1 DEF Error
<1>3. g \in Handler
  BY <1>2, Zenon DEF Refuse, Handler
<1> HIDE DEF e
<1>4. /\ g.pc = "parse" /\ g.triggers = h.triggers /\ g.at = h.at + 1 /\ g.sess = h.sess
      /\ g.expressions = h.expressions /\ g.errorList = Append(h.errorList, e)
  BY DEF Refuse, Handler, e
<1> HIDE DEF g
<1>5. Accounted(g)
  BY <1>4, RefusedAccounted DEF e
<1>6. InLoop(g)
  BY <1>1, <1>4 DEF InLoop
<1>7. ResolvesAll(g)
  BY <1>4 DEF ResolvesAll, Resolves
<1> QED
  BY <1>3, <1>5, <1>6, <1>7 DEF Good, g

LEMMA AcceptGood ==
  ASSUME NEW h \in Handler, Accounted(h), ResolvesAll(h), h.pc = "parse",
         h.at \in 1..Len(h.triggers), h.at \notin FaultyPlaces(h.triggers),
         NEW u \in Trigger, u.place = h.at,
         Resolves(h, u.selector, h.at), Resolves(h, u.initialize, h.at),
         u.selector = u.initialize => u.selector = 0,
         h.triggers[h.at].conditional # << >> => u.selector # 0
  PROVE  Good([h EXCEPT !.sess = @ \cup {u}, !.at = @ + 1])
<1> DEFINE g == [h EXCEPT !.sess = @ \cup {u}, !.at = @ + 1]
<1>1. /\ h.at \in Nat /\ h.at + 1 \in Nat /\ Len(h.triggers) \in Nat
      /\ h.sess \cup {u} \in SUBSET Trigger
  BY HandlerFields
<1>2. g \in Handler
  BY <1>1, Zenon DEF Handler
<1>3. /\ g.pc = "parse" /\ g.triggers = h.triggers /\ g.at = h.at + 1
      /\ g.sess = h.sess \cup {u}
      /\ g.expressions = h.expressions /\ g.errorList = h.errorList
  BY DEF Handler
<1> HIDE DEF g
<1>4. Accounted(g)
  BY <1>3, AcceptedAccounted
<1>5. InLoop(g)
  BY <1>1, <1>3 DEF InLoop
<1>6. ResolvesAll(g)
  BY <1>3 DEF ResolvesAll, Resolves
<1> QED
  BY <1>2, <1>4, <1>5, <1>6 DEF Good, g

(* The new state of slot s is good, and the other slots are as they were. *)
LEMMA GoGood ==
  ASSUME IInv, NEW s \in Slots, NEW g, Good(g), Go(s, g)
  PROVE  /\ handler' \in [Slots -> Handler]
         /\ \A r \in Slots : Good(handler'[r])
  BY DEF IInv, Go, Good

LEMMA ReceiveGood ==
  ASSUME IInv, NEW s \in Slots, NEW payload \in Payloads, Receive(s, payload)
  PROVE  IInv'
<1> DEFINE g == [NoRequest EXCEPT !.pc = "parse", !.id = issued + 1, !.triggers = payload,
                                  !.at = 1]
<1>1. payload \in Seq(TriggerRequest) /\ issued \in Nat /\ issued' \in 0..MaxRequests
  BY PayloadsAssumption, MaxRequestsAssumption DEF IInv, Receive
<1>2. g \in Handler
  <2>1. issued + 1 \in Nat /\ 1 \in Nat
    BY <1>1
  <2>2. NoRequest \in Handler
    BY NoRequestGood DEF Good
  <2> QED
    BY <1>1, <2>1, <2>2, Zenon DEF Handler
<1>3. /\ g.pc = "parse" /\ g.triggers = payload /\ g.at = 1
      /\ g.sess = {} /\ g.errorList = << >>
  BY DEF NoRequest
<1> HIDE DEF g
<1>4. Accounted(g)
  BY <1>1, <1>3 DEF Accounted, Done
<1>5. InLoop(g) /\ ResolvesAll(g)
  BY <1>1, <1>3 DEF InLoop, ResolvesAll
<1>6. Go(s, g) /\ UNCHANGED multipleTriggers
  BY DEF Receive, g
<1> QED
  BY <1>1, <1>2, <1>4, <1>5, <1>6, GoGood DEF IInv, Good

(* The loop has come to trigger t, which is checked as a whole. *)
LEMMA ParseTriggerGood ==
  ASSUME IInv, NEW s \in Slots, ParseTrigger(s)
  PROVE  IInv'
<1> DEFINE h == handler[s]
<1>1. Good(h) /\ h \in Handler
  BY DEF IInv, Good
<1>2. PICK t : /\ AtTrigger(s, t) /\ ~HasMultipleTriggers(t)
               /\ Go(s, IF \/ ~ParsesOK(t) \/ ~ShallowValidateTrigger(t)
                           \/ Duplicate(Stashed(h, t), t)
                        THEN Refuse(Stashed(h, t), FALSE)
                        ELSE [Stashed(h, t) EXCEPT !.sess = @ \cup {Parsed(Stashed(h, t), t)},
                                                   !.at = @ + 1])
               /\ UNCHANGED <<multipleTriggers, issued>>
  BY DEF ParseTrigger
<1>3. /\ h.triggers \in Seq(TriggerRequest) /\ h.at \in 1..Len(h.triggers)
      /\ h.pc = "parse" /\ t = h.triggers[h.at]
  BY <1>1, <1>2, HandlerFields DEF AtTrigger, Good, InLoop
<1>4. t \in TriggerRequest
  BY <1>3
<1> DEFINE g == Stashed(h, t)
<1>5. Grown(h, g)
  BY <1>1, StashedFacts
<1>6. /\ g \in Handler /\ g.pc = "parse" /\ g.triggers = h.triggers /\ g.at = h.at
      /\ g.sess = h.sess
  BY <1>3, <1>5 DEF Grown
<1> HIDE DEF g
<1>7. Accounted(g) /\ ResolvesAll(g)
  BY <1>1, <1>5, GrownAccounted, GrownResolves DEF Good
<1>8. g.at \in FaultyPlaces(g.triggers) <=> ~WellFormed(t) \/ Duplicate(g, t)
  BY <1>3, <1>6, <1>7, FaultyMeans
<1>9. WellFormed(t) <=> ParsesOK(t) /\ ShallowValidateTrigger(t)
  BY <1>2 DEF WellFormed
<1>10. CASE ~WellFormed(t) \/ Duplicate(g, t)
  <2>1. Go(s, Refuse(g, FALSE))
    BY <1>2, <1>9, <1>10 DEF g
  <2>2. Good(Refuse(g, FALSE))
    BY <1>3, <1>6, <1>7, <1>8, <1>10, RefuseGood
  <2> QED
    BY <1>2, <2>1, <2>2, GoGood DEF IInv
<1>11. CASE WellFormed(t) /\ ~Duplicate(g, t)
  <2> DEFINE u == Parsed(g, t)
  <2>1. Go(s, [g EXCEPT !.sess = @ \cup {u}, !.at = @ + 1])
    BY <1>2, <1>9, <1>11 DEF g
  <2>2. /\ u \in Trigger /\ u.place = g.at
        /\ Resolves(g, u.selector, g.at) /\ Resolves(g, u.initialize, g.at)
        /\ u.selector = u.initialize => u.selector = 0
        /\ t.conditional # << >> => u.selector # 0
    BY <1>1, <1>4, <1>6, <1>11, ParsedFacts DEF g
  <2> HIDE DEF u
  <2>3. Good([g EXCEPT !.sess = @ \cup {u}, !.at = @ + 1])
    BY <1>3, <1>6, <1>7, <1>8, <1>11, <2>2, AcceptGood
  <2> QED
    BY <1>2, <2>1, <2>3, GoGood DEF IInv
<1> QED
  BY <1>10, <1>11

LEMMA FormatsOfFacts ==
  ASSUME NEW t
  PROVE  FormatsOf(t) \in Seq(Formats) /\ Len(<< >>) = 0
<1> DEFINE c == IF t.conditional # << >> THEN <<"conditional">> ELSE << >>
           d == IF t.data # << >> THEN <<"data">> ELSE << >>
           p == IF t.periodic # << >> THEN <<"periodic">> ELSE << >>
<1>1. c \in Seq(Formats) /\ d \in Seq(Formats) /\ p \in Seq(Formats)
  <2>1. /\ <<"conditional">> \in Seq(Formats) /\ <<"data">> \in Seq(Formats)
        /\ <<"periodic">> \in Seq(Formats) /\ << >> \in Seq(Formats)
    BY DEF Formats
  <2> QED
    BY <2>1
<1> HIDE DEF c, d, p
<1>2. c \o d \o p \in Seq(Formats)
  BY <1>1
<1> QED
  BY <1>2 DEF FormatsOf, c, d, p

LEMMA ParseMultipleTriggersGood ==
  ASSUME IInv, NEW s \in Slots, ParseMultipleTriggers(s)
  PROVE  IInv'
<1> DEFINE h == handler[s]
<1>1. Good(h) /\ h \in Handler
  BY DEF IInv, Good
<1>2. PICK t : /\ AtTrigger(s, t) /\ HasMultipleTriggers(t)
               /\ Go(s, [h EXCEPT !.pc = "read", !.pending = FormatsOf(t)])
               /\ UNCHANGED <<multipleTriggers, issued>>
  BY DEF ParseMultipleTriggers
<1>3. /\ h.triggers \in Seq(TriggerRequest) /\ h.at \in 1..Len(h.triggers)
      /\ h.pc = "parse" /\ t = h.triggers[h.at]
  BY <1>1, <1>2, HandlerFields DEF AtTrigger, Good, InLoop
<1>4. FormatsOf(t) \in Seq(Formats) /\ FormatsOf(t) # << >>
  BY <1>2, FormatsOfFacts DEF HasMultipleTriggers
<1> DEFINE g == [h EXCEPT !.pc = "read", !.pending = FormatsOf(t)]
<1>5. g \in Handler
  BY <1>1, <1>4 DEF Handler
<1>6. /\ g.pc = "read" /\ g.pending = FormatsOf(t) /\ g.triggers = h.triggers /\ g.at = h.at
      /\ g.sess = h.sess /\ g.expressions = h.expressions /\ g.errorList = h.errorList
  BY <1>1 DEF Handler
<1>7. Go(s, g)
  BY <1>2
<1> HIDE DEF g
<1>8. Accounted(g) /\ ResolvesAll(g)
  BY <1>1, <1>6 DEF Good, Accounted, Done, ResolvesAll, Resolves
<1>9. InLoop(g)
  BY <1>2, <1>3, <1>4, <1>6 DEF InLoop
<1> QED
  BY <1>2, <1>5, <1>7, <1>8, <1>9, GoGood DEF IInv, Good

LEMMA ReadDetailsGood ==
  ASSUME IInv, NEW s \in Slots, ReadDetails(s)
  PROVE  IInv'
<1> DEFINE h == handler[s]
           g == [h EXCEPT !.pc = "append", !.seen = multipleTriggers]
<1>1. /\ Good(h) /\ h \in Handler /\ h.pc = "read" /\ multipleTriggers \in Seq(Violation)
      /\ Go(s, g) /\ UNCHANGED <<multipleTriggers, issued>>
  BY DEF IInv, Good, ReadDetails
<1>2. g \in Handler
  BY <1>1 DEF Handler
<1>3. /\ g.pc = "append" /\ g.pending = h.pending /\ g.triggers = h.triggers /\ g.at = h.at
      /\ g.sess = h.sess /\ g.expressions = h.expressions /\ g.errorList = h.errorList
  BY <1>1 DEF Handler
<1> HIDE DEF g
<1>4. Accounted(g) /\ ResolvesAll(g)
  BY <1>1, <1>3 DEF Good, Accounted, Done, ResolvesAll, Resolves
<1>5. InLoop(g)
  BY <1>1, <1>3 DEF Good, InLoop
<1> QED
  BY <1>1, <1>2, <1>4, <1>5, GoGood DEF IInv, Good

(* A trigger with several formats is faulty, whatever becomes of its violations. *)
LEMMA AppendViolationGood ==
  ASSUME IInv, NEW s \in Slots, AppendViolation(s)
  PROVE  IInv'
<1> DEFINE h == handler[s]
           n == Len(h.seen)
           violation == [field |-> Head(h.pending), by |-> h.id]
           own == Append(h.seen, violation)
           g == [h EXCEPT !.pending = Tail(@), !.seen = << >>]
<1>1. /\ Good(h) /\ h \in Handler /\ h.pc = "append" /\ multipleTriggers \in Seq(Violation)
      /\ UNCHANGED issued
  BY DEF IInv, Good, AppendViolation
<1>2. /\ h.pending \in Seq(Formats) /\ h.pending # << >> /\ h.seen \in Seq(Violation)
      /\ h.id \in Nat /\ h.at \in 1..Len(h.triggers) /\ HasMultipleTriggers(h.triggers[h.at])
  BY <1>1, HandlerFields DEF Good, InLoop
<1>3. multipleTriggers' \in Seq(Violation)
  <2>1. violation \in Violation
    BY <1>2 DEF Violation
  <2> HIDE DEF violation
  <2>2. own \in Seq(Violation) /\ n \in Nat
    BY <1>2, <2>1
  <2>3. Len(multipleTriggers) > n => SubSeq(multipleTriggers, 1, n + 1) \in Seq(Violation)
    <3> SUFFICES ASSUME Len(multipleTriggers) > n
                 PROVE  SubSeq(multipleTriggers, 1, n + 1) \in Seq(Violation)
      OBVIOUS
    <3>1. n + 1 \in 1..Len(multipleTriggers)
      BY <1>1, <2>2
    <3> QED
      BY <1>1, <3>1
  <2>4. \/ multipleTriggers' = own
        \/ Len(multipleTriggers) > n /\ multipleTriggers' = SubSeq(multipleTriggers, 1, n + 1)
    BY DEF AppendViolation, violation
  <2> QED
    BY <2>2, <2>3, <2>4
<1>4. Tail(h.pending) \in Seq(Formats) /\ << >> \in Seq(Violation)
  BY <1>2
<1>5. g \in Handler
  BY <1>1, <1>4, Zenon DEF Handler
<1>6. /\ g.pc = "append" /\ g.pending = Tail(h.pending) /\ g.triggers = h.triggers
      /\ g.at = h.at /\ g.sess = h.sess /\ g.expressions = h.expressions
      /\ g.errorList = h.errorList
  BY <1>1 DEF Handler
<1>7. Go(s, IF Tail(h.pending) = << >> THEN Refuse(g, TRUE) ELSE [g EXCEPT !.pc = "read"])
  BY DEF AppendViolation
<1> HIDE DEF g
<1>8. Accounted(g) /\ ResolvesAll(g)
  BY <1>1, <1>6 DEF Good, Accounted, Done, ResolvesAll, Resolves
<1>9. CASE Tail(h.pending) = << >>
  <2>1. g.at \in FaultyPlaces(g.triggers)
    BY <1>2, <1>6 DEF FaultyPlaces, WellFormed
  <2>2. Good(Refuse(g, TRUE))
    BY <1>2, <1>5, <1>6, <1>8, <2>1, RefuseGood
  <2> QED
    BY <1>1, <1>3, <1>7, <1>9, <2>2, GoGood DEF IInv
<1>10. CASE Tail(h.pending) # << >>
  <2> DEFINE f == [g EXCEPT !.pc = "read"]
  <2>1. f \in Handler
    BY <1>5 DEF Handler
  <2>2. /\ f.pc = "read" /\ f.pending = g.pending /\ f.triggers = g.triggers
        /\ f.at = g.at /\ f.sess = g.sess /\ f.expressions = g.expressions
        /\ f.errorList = g.errorList
    BY <1>5 DEF Handler
  <2>3. Go(s, f)
    BY <1>7, <1>10
  <2> HIDE DEF f
  <2>4. Accounted(f) /\ ResolvesAll(f)
    BY <1>8, <2>2 DEF Accounted, Done, ResolvesAll, Resolves
  <2>5. InLoop(f)
    BY <1>2, <1>6, <1>10, <2>2 DEF InLoop
  <2> QED
    BY <1>1, <1>3, <2>1, <2>3, <2>4, <2>5, GoGood DEF IInv, Good
<1> QED
  BY <1>9, <1>10

(* The answer is made of the shared violations. *)
LEMMA FlattenErrorListType ==
  ASSUME multipleTriggers \in Seq(Violation), NEW h \in Handler
  PROVE  FlattenErrorList(h) \in Seq(Violation)
<1> DEFINE shared == {i \in 1..Len(h.errorList) : h.errorList[i].shared}
           k == Cardinality(shared)
           m == Len(multipleTriggers)
<1>1. Len(h.errorList) \in Nat
  BY HandlerFields
<1>2. IsFiniteSet(1..Len(h.errorList)) /\ shared \subseteq 1..Len(h.errorList)
  <2>1. 1 \in Int /\ Len(h.errorList) \in Int
    BY <1>1
  <2>2. IsFiniteSet(1..Len(h.errorList))
    BY <2>1, FS_Interval, Zenon
  <2> QED
    BY <2>2
<1> HIDE DEF shared
<1>3. k \in Nat
  BY <1>2, FS_Subset, FS_CardinalityType
<1>4. m \in Nat
  OBVIOUS
<1> HIDE DEF k, m
<1>5. k * m \in Nat /\ (k * m # 0 => m # 0)
  BY <1>3, <1>4
<1>6. ASSUME NEW i \in 1..(k * m) PROVE multipleTriggers[((i - 1) % m) + 1] \in Violation
  <2>1. m # 0
    BY <1>5
  <2>2. (i - 1) % m \in 0..(m - 1)
    BY <1>4, <1>5, <2>1
  <2>3. ((i - 1) % m) + 1 \in 1..m
    BY <1>4, <2>2
  <2> QED
    BY <2>3 DEF m
<1>7. FlattenErrorList(h) = [i \in 1..(k * m) |-> multipleTriggers[((i - 1) % m) + 1]]
  BY DEF FlattenErrorList, k, m, shared
<1> QED
  BY <1>5, <1>6, <1>7, IsASeq

LEMMA ToSessionReturnsGood ==
  ASSUME IInv, NEW s \in Slots, ToSessionReturns(s)
  PROVE  IInv'
<1> DEFINE h == handler[s]
           c == [h EXCEPT !.pc = "compile"]
           r == [h EXCEPT !.pc = "refused", !.answer = FlattenErrorList(h)]
<1>1. /\ Good(h) /\ h \in Handler /\ h.pc = "parse" /\ h.at > Len(h.triggers)
      /\ UNCHANGED <<multipleTriggers, issued>>
      /\ Go(s, IF h.errorList = << >> THEN c ELSE r)
  BY DEF IInv, Good, ToSessionReturns
<1>2. h.at = Len(h.triggers) + 1
  <2>1. h.at \in Nat /\ Len(h.triggers) \in Nat /\ h.at \in 1..(Len(h.triggers) + 1)
    BY <1>1, HandlerFields DEF Good, InLoop
  <2> QED
    BY <1>1, <2>1
<1>3. CASE h.errorList = << >>
  <2>1. c \in Handler
    BY <1>1 DEF Handler
  <2>2. /\ c.pc = "compile" /\ c.triggers = h.triggers /\ c.at = h.at /\ c.sess = h.sess
        /\ c.expressions = h.expressions /\ c.errorList = h.errorList
    BY <1>1 DEF Handler
  <2> HIDE DEF c
  <2>3. Accounted(c) /\ ResolvesAll(c)
    BY <1>1, <2>2 DEF Good, Accounted, Done, ResolvesAll, Resolves
  <2>4. InLoop(c)
    BY <1>2, <1>3, <2>2 DEF InLoop
  <2> QED
    BY <1>1, <1>3, <2>1, <2>3, <2>4, GoGood DEF IInv, Good
<1>4. CASE h.errorList # << >>
  <2>1. r \in Handler
    <3>1. FlattenErrorList(h) \in Seq(Violation)
      BY <1>1, FlattenErrorListType DEF IInv
    <3> QED
      BY <1>1, <3>1 DEF Handler
  <2>2. /\ r.pc = "refused" /\ r.triggers = h.triggers /\ r.at = h.at /\ r.sess = h.sess
        /\ r.expressions = h.expressions /\ r.errorList = h.errorList
    BY <1>1 DEF Handler
  <2> HIDE DEF r
  <2>3. Accounted(r) /\ ResolvesAll(r)
    BY <1>1, <2>2 DEF Good, Accounted, Done, ResolvesAll, Resolves
  <2>4. InLoop(r)
    BY <1>2, <1>4, <2>2 DEF InLoop
  <2> QED
    BY <1>1, <1>4, <2>1, <2>3, <2>4, GoGood DEF IInv, Good
<1> QED
  BY <1>3, <1>4

LEMMA ReturnGood ==
  ASSUME IInv, NEW s \in Slots, Return(s)
  PROVE  IInv'
  BY NoRequestGood, GoGood DEF IInv, Return

-----------------------------------------------------------------------------
(* What a refusal shows of the shared error. *)

\* The violations of several formats are in MultipleTriggers before the trigger
\* is refused, and the list never becomes empty again.
SharedInv ==
  \A s \in Slots :
    /\ HasSharedError(handler[s]) => multipleTriggers # << >>
    /\ handler[s].pc = "refused" /\ HasSharedError(handler[s]) => handler[s].answer # << >>

(* An error that is not the shared one changes nothing. *)
LEMMA RefusedAlone ==
  ASSUME NEW h \in Handler, NEW g, g = Refuse(h, FALSE), HasSharedError(g)
  PROVE  HasSharedError(h)
<1>1. h.errorList \in Seq(Error) /\ Len(h.errorList) \in Nat
  BY HandlerFields
<1> DEFINE e == [trigger |-> h.at, shared |-> FALSE]
<1>2. g.errorList = Append(h.errorList, e) /\ e \in Error /\ e.shared = FALSE
  BY HandlerFields DEF Refuse, Handler, Error
<1>3. PICK i \in 1..Len(g.errorList) : g.errorList[i].shared
  BY DEF HasSharedError
<1> HIDE DEF e
<1>4. i \in 1..Len(h.errorList) /\ g.errorList[i] = h.errorList[i]
  <2>1. PICK list, error : list = h.errorList /\ error = e
    OBVIOUS
  <2>2. list \in Seq(Error) /\ error \in Error /\ i \in 1..Len(Append(list, error))
    BY <1>1, <1>2, <2>1, Zenon
  <2>3. \/ Append(list, error)[i] = error
        \/ i \in 1..Len(list) /\ Append(list, error)[i] = list[i]
    BY <2>2
  <2> QED
    BY <1>2, <1>3, <2>1, <2>3, Zenon
<1> QED
  BY <1>3, <1>4 DEF HasSharedError

(* The shared list is no shorter for what a step does, or has just grown. *)
LEMMA NeverEmptied ==
  ASSUME IInv, [Next]_vars
  PROVE  /\ multipleTriggers # << >> => multipleTriggers' # << >>
         /\ \A s \in Slots : AppendViolation(s) => multipleTriggers' # << >>
<1>1. ASSUME NEW s \in Slots, AppendViolation(s)
      PROVE  multipleTriggers' # << >>
  <2> DEFINE h == handler[s]
             n == Len(h.seen)
             v == [field |-> Head(h.pending), by |-> h.id]
  <2>1. h.seen \in Seq(Violation) /\ n \in Nat /\ multipleTriggers \in Seq(Violation)
    BY HandlerFields DEF IInv, Good
  <2>2. \/ multipleTriggers' = Append(h.seen, v)
        \/ Len(multipleTriggers) > n /\ multipleTriggers' = SubSeq(multipleTriggers, 1, n + 1)
    BY <1>1 DEF AppendViolation
  <2> HIDE DEF v
  <2>3. Append(h.seen, v) # << >>
    BY <2>1
  <2>4. ASSUME Len(multipleTriggers) > n
        PROVE  SubSeq(multipleTriggers, 1, n + 1) # << >>
    <3>1. Len(SubSeq(multipleTriggers, 1, n + 1)) = n + 1
      BY <2>1, <2>4
    <3>2. Len(<< >>) = 0 /\ n + 1 # 0
      BY <2>1
    <3> QED
      BY <3>1, <3>2, Zenon
  <2> QED
    BY <2>2, <2>3, <2>4
<1>2. multipleTriggers' = multipleTriggers \/ \E s \in Slots : AppendViolation(s)
  BY DEF Next, vars, Receive, ParseTrigger, ParseMultipleTriggers, ReadDetails,
         ToSessionReturns, Return
<1> QED
  BY <1>1, <1>2

(* The answer repeats the shared list for each error that is the shared one. *)
LEMMA SharedShown ==
  ASSUME multipleTriggers \in Seq(Violation), multipleTriggers # << >>,
         NEW h \in Handler, HasSharedError(h)
  PROVE  FlattenErrorList(h) # << >>
<1> DEFINE shared == {i \in 1..Len(h.errorList) : h.errorList[i].shared}
           k == Cardinality(shared)
           m == Len(multipleTriggers)
<1>1. Len(h.errorList) \in Nat
  BY HandlerFields
<1>2. IsFiniteSet(1..Len(h.errorList)) /\ shared \subseteq 1..Len(h.errorList)
  <2>1. 1 \in Int /\ Len(h.errorList) \in Int
    BY <1>1
  <2>2. IsFiniteSet(1..Len(h.errorList))
    BY <2>1, FS_Interval, Zenon
  <2> QED
    BY <2>2
<1>3. shared # {}
  BY DEF HasSharedError
<1> HIDE DEF shared
<1>4. k \in Nat /\ k # 0
  <2>1. IsFiniteSet(shared)
    BY <1>2, FS_Subset
  <2> QED
    BY <1>3, <2>1, FS_CardinalityType, FS_EmptySet
<1>5. m \in Nat /\ m # 0
  OBVIOUS
<1>6. FlattenErrorList(h) = [i \in 1..(k * m) |-> multipleTriggers[((i - 1) % m) + 1]]
  BY DEF FlattenErrorList, k, m, shared
<1> HIDE DEF k, m
<1>7. 1 \in 1..(k * m)
  BY <1>4, <1>5
<1>8. DOMAIN FlattenErrorList(h) = 1..(k * m)
  BY <1>6
<1>9. DOMAIN << >> = {}
  OBVIOUS
<1> QED
  BY <1>7, <1>8, <1>9, Zenon

(* What the step of a handler makes of it. *)
LEMMA SharedStep ==
  ASSUME IInv, [Next]_vars, SharedInv, NEW s \in Slots, HasSharedError(handler'[s])
  PROVE  /\ multipleTriggers' # << >>
         /\ handler'[s].pc = "refused" => handler'[s].answer # << >>
<1> DEFINE h == handler[s]
<1>1. h \in Handler /\ multipleTriggers \in Seq(Violation) /\ handler \in [Slots -> Handler]
  BY DEF IInv, Good
<1>2. ASSUME HasSharedError(h)
      PROVE  multipleTriggers # << >> /\ multipleTriggers' # << >>
  BY <1>2, NeverEmptied DEF SharedInv
<1>3. CASE handler'[s] = h
  BY <1>2, <1>3 DEF SharedInv
<1>4. ASSUME NEW g, Go(s, g)
      PROVE  handler'[s] = g
  BY <1>1, <1>4 DEF Go
<1>5. ~HasSharedError(NoRequest)
  BY DEF HasSharedError, NoRequest
<1>6. ASSUME NEW payload \in Payloads, Receive(s, payload)
      PROVE  FALSE
  <2> DEFINE g == [NoRequest EXCEPT !.pc = "parse", !.id = issued + 1, !.triggers = payload,
                                    !.at = 1]
  <2>1. handler'[s] = g
    BY <1>4, <1>6 DEF Receive
  <2>2. g.errorList = << >>
    BY DEF NoRequest
  <2> QED
    BY <2>1, <2>2 DEF HasSharedError
<1>7. CASE ParseTrigger(s)
  <2>1. PICK t \in {h.triggers[i] : i \in 1..Len(h.triggers)} :
          LET f == Stashed(h, t)
          IN  Go(s, IF ~ParsesOK(t) \/ ~ShallowValidateTrigger(t) \/ Duplicate(f, t)
                    THEN Refuse(f, FALSE)
                    ELSE [f EXCEPT !.sess = @ \cup {Parsed(f, t)}, !.at = @ + 1])
    BY <1>7, Zenon DEF ParseTrigger
  <2>2. h.pc = "parse"
    BY <1>7 DEF ParseTrigger, AtTrigger
  <2>3. PICK f : f = Stashed(h, t)
    OBVIOUS
  <2>4. f \in Handler /\ f.errorList = h.errorList /\ f.pc = "parse"
    <3>1. Grown(h, f)
      BY <1>1, <2>3, StashedFacts
    <3> QED
      BY <2>2, <3>1 DEF Grown
  <2>5. CASE handler'[s] = Refuse(f, FALSE)
    <3>1. HasSharedError(f)
      BY <2>4, <2>5, RefusedAlone
    <3>2. handler'[s].pc = "parse"
      BY <2>4, <2>5 DEF Refuse, Handler
    <3> QED
      BY <1>2, <2>4, <3>1, <3>2 DEF HasSharedError
  <2>6. CASE handler'[s] = [f EXCEPT !.sess = @ \cup {Parsed(f, t)}, !.at = @ + 1]
    <3>1. handler'[s].errorList = h.errorList /\ handler'[s].pc = "parse"
      BY <2>4, <2>6 DEF Handler
    <3> QED
      BY <1>2, <3>1 DEF HasSharedError
  <2> QED
    BY <1>4, <2>1, <2>3, <2>5, <2>6
<1>8. CASE ParseMultipleTriggers(s)
  <2>1. PICK t : Go(s, [h EXCEPT !.pc = "read", !.pending = FormatsOf(t)])
    BY <1>8 DEF ParseMultipleTriggers
  <2>2. handler'[s].errorList = h.errorList /\ handler'[s].pc = "read"
    BY <1>1, <1>4, <2>1 DEF Handler
  <2> QED
    BY <1>2, <2>2 DEF HasSharedError
<1>9. CASE ReadDetails(s)
  <2>1. Go(s, [h EXCEPT !.pc = "append", !.seen = multipleTriggers])
    BY <1>9 DEF ReadDetails
  <2>2. handler'[s].errorList = h.errorList /\ handler'[s].pc = "append"
    BY <1>1, <1>4, <2>1 DEF Handler
  <2> QED
    BY <1>2, <2>2 DEF HasSharedError
<1>10. CASE AppendViolation(s)
  <2> DEFINE g == [h EXCEPT !.pending = Tail(@), !.seen = << >>]
  <2>1. Go(s, IF Tail(h.pending) = << >> THEN Refuse(g, TRUE) ELSE [g EXCEPT !.pc = "read"])
    BY <1>10 DEF AppendViolation
  <2>2. Tail(h.pending) \in Seq(Formats) /\ << >> \in Seq(Violation)
    <3>1. Good(h) /\ h.pc = "append"
      BY <1>10 DEF IInv, AppendViolation
    <3>2. h.pending \in Seq(Formats) /\ h.pending # << >>
      BY <1>1, <3>1, HandlerFields DEF Good, InLoop
    <3> QED
      BY <3>2
  <2>3. g \in Handler
    BY <1>1, <2>2, Zenon DEF Handler
  <2> HIDE DEF g
  <2>4. Refuse(g, TRUE).pc = "parse" /\ [g EXCEPT !.pc = "read"].pc = "read"
    BY <2>3 DEF Refuse, Handler
  <2>5. handler'[s].pc # "refused"
    BY <1>4, <2>1, <2>4
  <2> QED
    BY <1>10, <2>5, NeverEmptied
<1>11. CASE ToSessionReturns(s)
  <2>1. Go(s, IF h.errorList = << >>
              THEN [h EXCEPT !.pc = "compile"]
              ELSE [h EXCEPT !.pc = "refused", !.answer = FlattenErrorList(h)])
    BY <1>11 DEF ToSessionReturns
  <2>2. handler'[s].errorList = h.errorList
    BY <1>1, <1>4, <2>1 DEF Handler
  <2>3. HasSharedError(h)
    BY <2>2 DEF HasSharedError
  <2>4. FlattenErrorList(h) # << >>
    BY <1>1, <1>2, <2>3, SharedShown
  <2>5. handler'[s].pc = "refused" => handler'[s].answer = FlattenErrorList(h)
    BY <1>1, <1>4, <2>1 DEF Handler
  <2> QED
    BY <1>2, <2>3, <2>4, <2>5
<1>12. CASE Return(s)
  BY <1>4, <1>5, <1>12 DEF Return
<1>13. \/ handler'[s] = h
       \/ \E payload \in Payloads : Receive(s, payload)
       \/ ParseTrigger(s) \/ ParseMultipleTriggers(s)
       \/ ReadDetails(s) \/ AppendViolation(s)
       \/ ToSessionReturns(s) \/ Return(s)
  <2>1. ASSUME NEW r \in Slots, r # s, NEW g, Go(r, g)
        PROVE  handler'[s] = h
    BY <1>1, <2>1 DEF Go
  <2>2. ASSUME NEW r \in Slots, r # s,
               \/ \E payload \in Payloads : Receive(r, payload)
               \/ ParseTrigger(r) \/ ParseMultipleTriggers(r)
               \/ ReadDetails(r) \/ AppendViolation(r)
               \/ ToSessionReturns(r) \/ Return(r)
        PROVE  handler'[s] = h
    <3>1. \E g : Go(r, g)
      BY <2>2, Zenon DEF Receive, ParseTrigger, ParseMultipleTriggers, ReadDetails,
                         AppendViolation, ToSessionReturns, Return
    <3> QED
      BY <2>1, <2>2, <3>1
  <2> QED
    BY <2>2 DEF Next, vars
<1> QED
  BY <1>3, <1>6, <1>7, <1>8, <1>9, <1>10, <1>11, <1>12, <1>13

-----------------------------------------------------------------------------
(* The theorems. *)

(* The loop invariant of parseTriggers holds throughout, for every handler, with
   any number of handlers adding to the shared error in between. *)
THEOREM Inductive == Spec => []IInv
<1>1. Init => IInv
  <2> SUFFICES ASSUME Init PROVE IInv
    OBVIOUS
  <2>1. \A s \in Slots : Good(handler[s]) /\ handler[s] \in Handler
    BY NoRequestGood DEF Init, Good
  <2>2. handler \in [Slots -> Handler]
    BY <2>1 DEF Init
  <2>3. multipleTriggers \in Seq(Violation) /\ issued \in 0..MaxRequests
    BY MaxRequestsAssumption DEF Init
  <2> QED
    BY <2>1, <2>2, <2>3 DEF IInv
<1>2. IInv /\ [Next]_vars => IInv'
  <2> SUFFICES ASSUME IInv, [Next]_vars PROVE IInv'
    OBVIOUS
  <2>1. ASSUME NEW s \in Slots, NEW payload \in Payloads, Receive(s, payload) PROVE IInv'
    BY <2>1, ReceiveGood
  <2>2. ASSUME NEW s \in Slots, ParseTrigger(s) PROVE IInv'
    BY <2>2, ParseTriggerGood
  <2>3. ASSUME NEW s \in Slots, ParseMultipleTriggers(s) PROVE IInv'
    BY <2>3, ParseMultipleTriggersGood
  <2>4. ASSUME NEW s \in Slots, ReadDetails(s) PROVE IInv'
    BY <2>4, ReadDetailsGood
  <2>5. ASSUME NEW s \in Slots, AppendViolation(s) PROVE IInv'
    BY <2>5, AppendViolationGood
  <2>6. ASSUME NEW s \in Slots, ToSessionReturns(s) PROVE IInv'
    BY <2>6, ToSessionReturnsGood
  <2>7. ASSUME NEW s \in Slots, Return(s) PROVE IInv'
    BY <2>7, ReturnGood
  <2>8. CASE UNCHANGED vars
    BY <2>8 DEF vars, IInv
  <2> QED
    BY <2>1, <2>2, <2>3, <2>4, <2>5, <2>6, <2>7, <2>8 DEF Next
<1> QED
  BY <1>1, <1>2, PTL DEF Spec

(* The handlers and the shared error have their types; in particular no error is
   about a trigger that the request does not have. *)
THEOREM TypeCorrect == Spec => []TypeOK
<1>1. IInv => TypeOK
  <2> SUFFICES ASSUME IInv, NEW s \in Slots
               PROVE  /\ handler[s].at \in 0..(Len(handler[s].triggers) + 1)
                      /\ \A i \in 1..Len(handler[s].errorList) :
                           handler[s].errorList[i].trigger \in 1..Len(handler[s].triggers)
    BY DEF IInv, TypeOK
  <2> DEFINE h == handler[s]
  <2>1. Good(h) /\ h \in Handler
    BY DEF IInv, Good
  <2>2. h.at \in Nat /\ Len(h.triggers) \in Nat
    BY <2>1, HandlerFields
  <2>3. h.at \in 0..(Len(h.triggers) + 1)
    <3>1. CASE h.pc = "idle"
      BY <2>1, <3>1 DEF Good, InLoop, NoRequest
    <3>2. CASE h.pc = "parse"
      BY <2>1, <2>2, <3>2 DEF Good, InLoop
    <3>3. CASE h.pc \in {"read", "append"}
      <4>1. h.at \in 1..Len(h.triggers)
        BY <2>1, <3>3 DEF Good, InLoop
      <4> QED
        BY <2>2, <4>1
    <3>4. CASE h.pc \in {"compile", "refused"}
      <4>1. h.at = Len(h.triggers) + 1
        BY <2>1, <3>4 DEF Good, InLoop
      <4> QED
        BY <2>2, <4>1
    <3> QED
      BY <2>1, <3>1, <3>2, <3>3, <3>4, HandlerFields
  <2>4. \A i \in 1..Len(h.errorList) : h.errorList[i].trigger \in FaultyPlaces(h.triggers)
    BY <2>1 DEF Good, Accounted
  <2> QED
    BY <2>3, <2>4 DEF FaultyPlaces
<1> QED
  BY <1>1, Inductive, PTL

(* Every faulty trigger of a request is reported, once and in order, the session
   has exactly the others, and only a request without any is compiled. *)
THEOREM FaultsReported == Spec => []EachFaultReported
<1>1. IInv => EachFaultReported
  <2> SUFFICES ASSUME IInv, NEW s \in Slots, handler[s].pc \in {"compile", "refused"}
               PROVE  LET h == handler[s]
                          faulty == FaultyPlaces(h.triggers)
                      IN  /\ {h.errorList[i].trigger : i \in 1..Len(h.errorList)} = faulty
                          /\ \A i, j \in 1..Len(h.errorList) :
                               i < j => h.errorList[i].trigger < h.errorList[j].trigger
                          /\ {u.place : u \in h.sess} = (1..Len(h.triggers)) \ faulty
                          /\ h.pc = "compile" <=> faulty = {}
    BY DEF EachFaultReported
  <2> DEFINE h == handler[s]
             faulty == FaultyPlaces(h.triggers)
  <2>1. /\ Accounted(h) /\ h \in Handler /\ h.at = Len(h.triggers) + 1
        /\ h.pc = "compile" <=> h.errorList = << >>
    BY DEF IInv, Good, InLoop
  <2>2. Len(h.triggers) \in Nat /\ h.errorList \in Seq(Error)
    BY <2>1, HandlerFields
  <2>3. Done(h) = 1..Len(h.triggers) /\ faulty \subseteq Done(h)
    BY <2>1, <2>2 DEF Done, FaultyPlaces
  <2>4. {h.errorList[i].trigger : i \in 1..Len(h.errorList)} = faulty
    BY <2>1, <2>3 DEF Accounted
  <2>5. h.errorList = << >> <=> faulty = {}
    <3>1. h.errorList = << >> <=> Len(h.errorList) = 0
      BY <2>2
    <3>2. Len(h.errorList) \in Nat
      BY <2>2
    <3>3. (1..Len(h.errorList) = {}) <=> faulty = {}
      BY <2>4
    <3>4. Len(h.errorList) = 0 <=> (1..Len(h.errorList) = {})
      BY <3>2
    <3> QED
      BY <3>1, <3>3, <3>4
  <2> HIDE DEF faulty
  <2>6. /\ {u.place : u \in h.sess} = (1..Len(h.triggers)) \ faulty
        /\ h.pc = "compile" <=> faulty = {}
    BY <2>1, <2>3, <2>5 DEF Accounted, faulty
  <2> QED
    BY <2>1, <2>4, <2>6 DEF Accounted, faulty
<1> QED
  BY <1>1, Inductive, PTL

(* The expression ids of a session's triggers resolve, to that trigger's own
   expressions, and no id is used twice. *)
THEOREM IdsResolve == Spec => []ExpressionsResolve
<1>1. IInv => ExpressionsResolve
  <2> SUFFICES ASSUME IInv, NEW s \in Slots
               PROVE  LET h == handler[s]
                          uses == {<<u, "selector">> : u \in {v \in h.sess : v.selector # 0}}
                                    \cup {<<u, "initialize">> :
                                            u \in {v \in h.sess : v.initialize # 0}}
                          id(use) == use[1][use[2]]
                      IN  /\ \A use \in uses :
                               /\ id(use) \in 1..Len(h.expressions)
                               /\ h.expressions[id(use)] = use[1].place
                          /\ \A use1, use2 \in uses : id(use1) = id(use2) => use1 = use2
                          /\ \A u \in h.sess :
                               h.triggers[u.place].conditional # << >> => u.selector # 0
    BY DEF ExpressionsResolve
  <2> DEFINE h == handler[s]
             selectors == {<<u, "selector">> : u \in {v \in h.sess : v.selector # 0}}
             initials == {<<u, "initialize">> : u \in {v \in h.sess : v.initialize # 0}}
             uses == selectors \cup initials
             id(use) == use[1][use[2]]
  <2>1. Accounted(h) /\ ResolvesAll(h)
    BY DEF IInv, Good
  <2>2. \A use \in selectors :
          /\ use[1] \in h.sess /\ use = <<use[1], "selector">> /\ id(use) = use[1].selector
          /\ id(use) # 0
    OBVIOUS
  <2>3. \A use \in initials :
          /\ use[1] \in h.sess /\ use = <<use[1], "initialize">>
          /\ id(use) = use[1].initialize /\ id(use) # 0
    OBVIOUS
  <2> HIDE DEF selectors, initials, id
  <2>4. \A use \in uses : /\ id(use) \in 1..Len(h.expressions)
                          /\ h.expressions[id(use)] = use[1].place
    BY <2>1, <2>2, <2>3 DEF ResolvesAll, Resolves
  <2>5. \A use1, use2 \in uses : id(use1) = id(use2) => use1 = use2
    <3> TAKE use1, use2 \in uses
    <3> HAVE id(use1) = id(use2)
    <3>1. use1[1].place = use2[1].place /\ use1[1] \in h.sess /\ use2[1] \in h.sess
      BY <2>2, <2>3, <2>4
    <3>2. use1[1] = use2[1]
      BY <2>1, <3>1 DEF Accounted
    <3>3. use1 \in selectors <=> use2 \in selectors
      BY <2>1, <2>2, <2>3, <3>1, <3>2 DEF ResolvesAll
    <3> QED
      BY <2>2, <2>3, <3>2, <3>3
  <2> QED
    BY <2>1, <2>4, <2>5 DEF ResolvesAll, selectors, initials, id
<1> QED
  BY <1>1, Inductive, PTL

(* A request refused for a trigger of several formats is shown a violation,
   however many handlers race for the shared list (RefusalShowsViolation). *)
THEOREM RefusalsShown == Spec => []RefusalShowsViolation
<1>1. Init => SharedInv
  BY DEF Init, SharedInv, HasSharedError, NoRequest
<1>2. IInv /\ SharedInv /\ [Next]_vars => SharedInv'
  <2> SUFFICES ASSUME IInv, SharedInv, [Next]_vars, NEW s \in Slots,
                      HasSharedError(handler'[s])
               PROVE  /\ multipleTriggers' # << >>
                      /\ handler'[s].pc = "refused" => handler'[s].answer # << >>
    BY DEF SharedInv, HasSharedError
  <2> QED
    BY SharedStep
<1>3. SharedInv => RefusalShowsViolation
  BY DEF SharedInv, RefusalShowsViolation
<1> QED
  BY <1>1, <1>2, <1>3, Inductive, PTL DEF Spec
=============================================================================
