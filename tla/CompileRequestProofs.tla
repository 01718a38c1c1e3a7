------------------------- MODULE CompileRequestProofs -------------------------
(***************************************************************************)
(* Proofs about CompileRequest, for every request that RequestsAssumption  *)
(* allows, every set of files of the binary that GlobalFilesAssumption     *)
(* allows, and every order the program may take.                           *)
(*                                                                         *)
(* The sections follow the request.  Each of the folds of the program is   *)
(* an INSTANCE of Induction, with a Good that says what holds after so     *)
(* many elements; the inductive invariants build on each other:            *)
(*   SessionInv    what was parsed, and what the nodes of the              *)
(*                 configuration denote, follow the request                *)
(*   InferenceInv  who was inferred, what failed, and what is still needed *)
(*   TextInv       the text of a v1 client is in the legacy format         *)
(*   RegistryInv   what the files, the types and the shaken files are made *)
(*                 of, whichever order they came in                        *)
(*   PruningInv    which imports the shaken files have, pruned or not       *)
(*   FlowOK        where the request is                                    *)
(***************************************************************************)
EXTENDS CompileProperties, SequenceTheorems, FiniteSetTheorems, TLAPS

-----------------------------------------------------------------------------
(* Induction over the natural numbers, for sets of them. *)

(* A set of numbers has a least one. *)
LEMMA Least ==
  ASSUME NEW T \in SUBSET Nat, T # {}
  PROVE  \E x \in T : \A y \in T : ~(y < x)
<1> DEFINE R == {ss \in Nat \X Nat : ss[1] < ss[2]}
<1>1. IsWellFoundedOn(R, Nat)
  BY NatLessThanWellFounded, Zenon DEF OpToRel
<1>2. \A x, y \in Nat : y < x => <<y, x>> \in R
  OBVIOUS
<1> HIDE DEF R
<1>3. PICK x \in T : \A y \in T : ~(<<y, x>> \in R)
  BY <1>1, WFMin, Zenon
<1> QED
  BY <1>2, <1>3

(* A set with 0 that is closed under the successor below n reaches n. *)
LEMMA UpTo ==
  ASSUME NEW n \in Nat, NEW T, 0 \in T, \A k \in 0 .. n - 1 : k \in T => k + 1 \in T
  PROVE  \A k \in 0 .. n : k \in T
<1> SUFFICES ASSUME \E k \in 0 .. n : k \notin T PROVE FALSE
  OBVIOUS
<1> DEFINE U == {k \in 0 .. n : k \notin T}
<1>1. U \in SUBSET Nat /\ U # {}
  OBVIOUS
<1> HIDE DEF U
<1>2. PICK x \in U : \A y \in U : ~(y < x)
  BY <1>1, Least
<1>3. x \in 0 .. n /\ x \notin T
  BY <1>2 DEF U
<1>4. x # 0 /\ x - 1 \in 0 .. n - 1 /\ (x - 1) + 1 = x
  BY <1>3
<1>5. x - 1 \in T
  BY <1>2, <1>3, <1>4 DEF U
<1> QED
  BY <1>3, <1>4, <1>5

(* A set that has a number up to n if it has all smaller ones has them all. *)
LEMMA Strong ==
  ASSUME NEW n \in Nat, NEW T,
         \A k \in 1 .. n : (\A j \in 1 .. k - 1 : j \in T) => k \in T
  PROVE  \A k \in 1 .. n : k \in T
<1> SUFFICES ASSUME \E k \in 1 .. n : k \notin T PROVE FALSE
  OBVIOUS
<1> DEFINE U == {k \in 1 .. n : k \notin T}
<1>1. U \in SUBSET Nat /\ U # {}
  OBVIOUS
<1> HIDE DEF U
<1>2. PICK x \in U : \A y \in U : ~(y < x)
  BY <1>1, Least
<1>3. x \in 1 .. n /\ x \notin T
  BY <1>2 DEF U
<1>4. \A j \in 1 .. x - 1 : j \in T
  BY <1>2, <1>3 DEF U
<1> QED
  BY <1>3, <1>4

(* What the instances of Induction take as their hypothesis. *)
LEMMA NaturalInduction ==
  \A n \in Nat : \A T :
    0 \in T /\ (\A k \in 0 .. n - 1 : k \in T => k + 1 \in T)
      => \A k \in 0 .. n : k \in T
<1> SUFFICES ASSUME NEW n \in Nat, NEW T, 0 \in T,
                    \A k \in 0 .. n - 1 : k \in T => k + 1 \in T
             PROVE  \A k \in 0 .. n : k \in T
  OBVIOUS
<1> QED
  BY UpTo

-----------------------------------------------------------------------------
(* Sequences and records. *)

LEMMA SeqFacts ==
  ASSUME NEW s, IsSequence(s)
  PROVE  /\ Len(s) \in Nat /\ DOMAIN s = 1 .. Len(s)
         /\ s = [i \in 1 .. Len(s) |-> s[i]]
         /\ \A i \in 1 .. Len(s) : s[i] \in Range(s)
  BY DEF IsSequence, Range

(* What is in Seq of any set is a sequence. *)
LEMMA SeqIsSeq == ASSUME NEW S, NEW s \in Seq(S) PROVE IsSequence(s)
<1>1. s = [i \in 1 .. Len(s) |-> s[i]] /\ Len(s) \in Nat /\ DOMAIN s = 1 .. Len(s)
  OBVIOUS
<1>2. \A i \in 1 .. Len(s) : s[i] \in Range(s)
  BY <1>1 DEF Range
<1> QED
  BY <1>1, <1>2, IsASeq DEF IsSequence

LEMMA FunctionIsSeq ==
  ASSUME NEW n \in Nat, NEW f, f = [i \in 1 .. n |-> f[i]]
  PROVE  IsSequence(f) /\ Len(f) = n
<1>1. \A i \in 1 .. n : f[i] \in Range(f)
  BY DEF Range
<1> QED
  BY <1>1, IsASeq DEF IsSequence

LEMMA AppendFacts ==
  ASSUME NEW s, IsSequence(s), NEW x
  PROVE  /\ IsSequence(Append(s, x))
         /\ Len(Append(s, x)) = Len(s) + 1
         /\ DOMAIN Append(s, x) = 1 .. Len(s) + 1
         /\ \A i \in 1 .. Len(s) : Append(s, x)[i] = s[i]
         /\ Append(s, x)[Len(s) + 1] = x
<1> DEFINE S == Range(s) \cup {x}
<1>1. s \in Seq(S) /\ x \in S
  <2>1. s \in Seq(Range(s)) /\ Range(s) \subseteq S
    BY DEF IsSequence
  <2> HIDE DEF S
  <2>2. s \in Seq(S)
    BY <2>1
  <2> QED
    BY <2>2 DEF S
<1> HIDE DEF S
<1>2. Append(s, x) \in Seq(S)
  BY <1>1
<1>3. IsSequence(Append(s, x))
  BY <1>2, SeqIsSeq
<1> QED
  BY <1>1, <1>2, <1>3

LEMMA EmptyFacts == IsSequence(<<>>) /\ Len(<<>>) = 0 /\ DOMAIN <<>> = {} /\ Range(<<>>) = {}
<1>1. <<>> \in Seq({})
  OBVIOUS
<1>2. IsSequence(<<>>)
  BY <1>1, SeqIsSeq
<1> QED
  BY <1>2 DEF Range

(* A sequence without elements is the empty one. *)
LEMMA EmptyOnly == ASSUME NEW s, IsSequence(s), Len(s) = 0 PROVE s = <<>>
  BY DEF IsSequence

LEMMA RangeMember == ASSUME NEW s, NEW i \in DOMAIN s PROVE s[i] \in Range(s)
  BY DEF Range

LEMMA RangeAt == ASSUME NEW s, NEW x \in Range(s) PROVE \E i \in DOMAIN s : x = s[i]
  BY DEF Range

LEMMA NoFiles == IsFileSet(<<>>)
  BY EmptyFacts DEF IsFileSet

LEMMA SeqFinite == ASSUME NEW s, IsSequence(s) PROVE IsFiniteSet(DOMAIN s)
<1>1. Len(s) \in Int /\ 1 \in Int /\ DOMAIN s = 1 .. Len(s)
  BY SeqFacts
<1> QED
  BY <1>1, FS_Interval

LEMMA ImageFinite ==
  ASSUME NEW S, IsFiniteSet(S), NEW T, NEW f, T = {f[x] : x \in S}
  PROVE  IsFiniteSet(T)
<1> DEFINE g == [x \in S |-> f[x]]
<1>1. g \in Surjection(S, T)
  BY DEF Surjection
<1> QED
  BY <1>1, FS_Surjection

LEMMA RangeFinite == ASSUME NEW s, IsSequence(s) PROVE IsFiniteSet(Range(s))
<1>1. Range(s) = {s[x] : x \in DOMAIN s}
  BY DEF Range
<1> QED
  BY <1>1, SeqFinite, ImageFinite

-----------------------------------------------------------------------------
(* What the session has of the request. *)

GoodSession(s) ==
  /\ DOMAIN s = {"triggers", "sources", "reports", "expressions", "start", "stop",
                 "deactivate", "hints", "descriptors"}
  /\ IsSequence(s.triggers) /\ IsSequence(s.sources) /\ IsSequence(s.reports)
  /\ IsSequence(s.expressions)
  /\ \A i \in DOMAIN s.expressions : IsExpression(s.expressions[i]) /\ s.expressions[i] # Blank
  /\ IsFileSet(s.descriptors)

\* More expressions are stashed in t than in s, and nothing else has changed.
Grows(s, t) ==
  /\ GoodSession(t)
  /\ t.triggers = s.triggers /\ t.sources = s.sources /\ t.reports = s.reports
  /\ Len(s.expressions) <= Len(t.expressions)
  /\ \A i \in DOMAIN s.expressions : t.expressions[i] = s.expressions[i]

\* id stands for the expression e.
Stashed(es, id, e) ==
  IF e = Blank THEN id = 0 ELSE id \in DOMAIN es /\ es[id] = e

LEMMA GrowsItself == ASSUME NEW s, GoodSession(s) PROVE Grows(s, s)
  BY SeqFacts DEF GoodSession, Grows

LEMMA GrowsOn ==
  ASSUME NEW s, NEW t, NEW u, GoodSession(s), Grows(s, t), Grows(t, u)
  PROVE  Grows(s, u)
<1>1. /\ DOMAIN s.expressions = 1 .. Len(s.expressions) /\ Len(s.expressions) \in Nat
      /\ DOMAIN t.expressions = 1 .. Len(t.expressions) /\ Len(t.expressions) \in Nat
      /\ DOMAIN u.expressions = 1 .. Len(u.expressions) /\ Len(u.expressions) \in Nat
  BY SeqFacts DEF GoodSession, Grows
<1> QED
  BY <1>1 DEF Grows

LEMMA StashedOn ==
  ASSUME NEW s, NEW t, NEW id, NEW e, GoodSession(s), Grows(s, t), Stashed(s.expressions, id, e)
  PROVE  Stashed(t.expressions, id, e)
<1>1. /\ DOMAIN s.expressions = 1 .. Len(s.expressions) /\ Len(s.expressions) \in Nat
      /\ DOMAIN t.expressions = 1 .. Len(t.expressions) /\ Len(t.expressions) \in Nat
  BY SeqFacts DEF GoodSession, Grows
<1> QED
  BY <1>1 DEF Grows, Stashed

LEMMA StashGrows ==
  ASSUME NEW s, NEW e, GoodSession(s), IsExpression(e), e # Blank
  PROVE  Grows(s, ExprStash(s, e)) /\ Stashed(ExprStash(s, e).expressions, NextExpressionID(s), e)
<1> DEFINE t == ExprStash(s, e)
           n == Len(s.expressions)
<1>1. /\ DOMAIN t = DOMAIN s
      /\ t.triggers = s.triggers /\ t.sources = s.sources /\ t.reports = s.reports
      /\ t.expressions = Append(s.expressions, e) /\ t.descriptors = s.descriptors
  BY DEF GoodSession, ExprStash
<1> HIDE DEF t
<1>2. n \in Nat /\ DOMAIN s.expressions = 1 .. n
  BY SeqFacts DEF GoodSession
<1>3. /\ IsSequence(t.expressions) /\ Len(t.expressions) = n + 1
      /\ DOMAIN t.expressions = 1 .. n + 1
      /\ \A i \in 1 .. n : t.expressions[i] = s.expressions[i]
      /\ t.expressions[n + 1] = e
  BY <1>1, AppendFacts DEF GoodSession
<1>4. \A i \in 1 .. n + 1 : i \in 1 .. n \/ i = n + 1
  BY <1>2
<1>5. GoodSession(t)
  BY <1>1, <1>2, <1>3, <1>4 DEF GoodSession
<1>6. Grows(s, t)
  BY <1>1, <1>2, <1>3, <1>5 DEF Grows
<1>7. Stashed(t.expressions, n + 1, e)
  BY <1>2, <1>3 DEF Stashed
<1> QED
  BY <1>6, <1>7 DEF t, NextExpressionID

-----------------------------------------------------------------------------
(* Triggers. *)

TriggerFollows(es, t, r) ==
  /\ {"name", "source", "initialize", "selector"} \subseteq DOMAIN t
  /\ t.source = IF r.source # "" THEN r.source ELSE r.publisher
  /\ Stashed(es, t.initialize, r.initialize)
  /\ Stashed(es, t.selector, r.selector)

LEMMA TriggerMade ==
  ASSUME NEW s, NEW r, GoodSession(s), IsExpression(r.initialize), IsExpression(r.selector)
  PROVE  /\ Grows(s, Trigger(s, r).sess)
         /\ TriggerFollows(Trigger(s, r).sess.expressions, Trigger(s, r).value, r)
<1> DEFINE begun == IF r.initialize # Blank THEN ExprStash(s, r.initialize) ELSE s
           done  == IF r.selector # Blank THEN ExprStash(begun, r.selector) ELSE begun
           i     == IF r.initialize # Blank THEN NextExpressionID(s) ELSE 0
           j     == IF r.selector # Blank THEN NextExpressionID(begun) ELSE 0
           t     == Trigger(s, r).value
<1>1. Grows(s, begun) /\ Stashed(begun.expressions, i, r.initialize)
  <2>1. CASE r.initialize = Blank
    BY <2>1, GrowsItself DEF Stashed
  <2>2. CASE r.initialize # Blank
    BY <2>2, StashGrows
  <2> QED
    BY <2>1, <2>2
<1>2. Trigger(s, r).sess = done
  BY Zenon DEF Trigger, Made
<1>3. /\ {"name", "source", "initialize", "selector"} \subseteq DOMAIN t
      /\ t.source = (IF r.source # "" THEN r.source ELSE r.publisher)
      /\ t.initialize = i /\ t.selector = j
  BY Zenon DEF Trigger, Made
<1> HIDE DEF begun, i, t
<1>4. GoodSession(begun)
  BY <1>1 DEF Grows
<1>5. Grows(begun, done) /\ Stashed(done.expressions, j, r.selector)
  <2>1. CASE r.selector = Blank
    BY <1>4, <2>1, GrowsItself DEF Stashed
  <2>2. CASE r.selector # Blank
    BY <1>4, <2>2, StashGrows
  <2> QED
    BY <2>1, <2>2
<1> HIDE DEF done, j
<1>6. Grows(s, done) /\ Stashed(done.expressions, i, r.initialize)
  BY <1>1, <1>4, <1>5, GrowsOn, StashedOn
<1>7. TriggerFollows(done.expressions, t, r)
  BY <1>3, <1>5, <1>6 DEF TriggerFollows
<1> QED
  BY <1>2, <1>6, <1>7 DEF t

-----------------------------------------------------------------------------
(* Message builders. *)

FieldFollows(es, f, r) ==
  /\ DOMAIN f = {"name", "aggregation", "node"}
  /\ f.name = r.name
  /\ f.aggregation # ""
  /\ f.aggregation # "count" => r.expression # Blank
  /\ Stashed(es, f.node, r.expression)

BuilderFollows(es, b, r) ==
  /\ DOMAIN b = {"given", "type", "dotted", "fields"}
  /\ IsSequence(b.fields)
  /\ Len(b.fields) = Len(r.fields)
  /\ \A i \in DOMAIN b.fields : FieldFollows(es, b.fields[i], r.fields[i])

\* What MessageBuilder has made after the first i fields, from the session and
\* for the builder in c.
FieldStep(c, made, f) == FieldAssignment(made, f)
FieldsGood(c, i, made) ==
  /\ DOMAIN made = {"sess", "ok", "value"}
  /\ Grows(c.sess, made.sess)
  /\ DOMAIN made.value = {"given", "type", "dotted", "fields"}
  /\ IsSequence(made.value.fields)
  /\ made.ok =>
       /\ Len(made.value.fields) = i
       /\ \A j \in 1 .. i : FieldFollows(made.sess.expressions, made.value.fields[j], c.fields[j])

Fields == INSTANCE Induction WITH Step <- FieldStep, Good <- FieldsGood

LEMMA FieldFollowsOn ==
  ASSUME NEW s, NEW t, NEW f, NEW r, GoodSession(s), Grows(s, t),
         FieldFollows(s.expressions, f, r)
  PROVE  FieldFollows(t.expressions, f, r)
  BY StashedOn DEF FieldFollows

(* One field more. *)
LEMMA FieldTaken ==
  ASSUME NEW c, NEW i \in Nat, i # 0, NEW made, FieldsGood(c, i - 1, made),
         GoodSession(c.sess), IsExpression(c.fields[i].expression)
  PROVE  FieldsGood(c, i, FieldAssignment(made, c.fields[i]))
<1> DEFINE f   == c.fields[i]
           new == FieldAssignment(made, f)
<1>0. GoodSession(made.sess)
  BY DEF FieldsGood, Grows
<1>1. CASE ~made.ok \/ ~validateField(f)
  <2>1. new = [made EXCEPT !.ok = FALSE]
    BY <1>1, Zenon DEF FieldAssignment
  <2>2. /\ DOMAIN new = DOMAIN made
        /\ new.sess = made.sess /\ new.value = made.value /\ new.ok = FALSE
    BY <2>1 DEF FieldsGood
  <2> HIDE DEF new
  <2>3. FieldsGood(c, i, new)
    BY <2>2 DEF FieldsGood
  <2> QED
    BY <2>3 DEF new
<1>2. CASE made.ok /\ validateField(f)
  <2> DEFINE s == IF f.expression # Blank THEN ExprStash(made.sess, f.expression) ELSE made.sess
             k == IF f.expression # Blank THEN NextExpressionID(made.sess) ELSE 0
             field == [name |-> f.name, aggregation |-> f.aggregation, node |-> k]
             v == [made.value EXCEPT !.fields = Append(@, field)]
             fs == made.value.fields
  <2>1. new = Made(s, f.aggregation \in Aggregations, v)
    BY <1>2, Zenon DEF FieldAssignment
  <2>2. Grows(made.sess, s) /\ Stashed(s.expressions, k, f.expression)
    <3>1. CASE f.expression = Blank
      BY <1>0, <3>1, GrowsItself DEF Stashed
    <3>2. CASE f.expression # Blank
      BY <1>0, <3>2, StashGrows
    <3> QED
      BY <3>1, <3>2
  <2>3. FieldFollows(s.expressions, field, f)
    <3>1. /\ DOMAIN field = {"name", "aggregation", "node"}
          /\ field.name = f.name /\ field.aggregation = f.aggregation /\ field.node = k
      OBVIOUS
    <3>2. f.aggregation # "" /\ (f.aggregation # "count" => f.expression # Blank)
      BY <1>2 DEF validateField
    <3> HIDE DEF field, s, k, f
    <3> QED
      BY <2>2, <3>1, <3>2 DEF FieldFollows
  <2> HIDE DEF s, field
  <2>4. /\ DOMAIN v = DOMAIN made.value
        /\ v.fields = Append(fs, field)
    BY DEF FieldsGood
  <2> HIDE DEF v
  <2>5. Grows(c.sess, s)
    BY <1>0, <2>2, GrowsOn DEF FieldsGood
  <2>6. /\ IsSequence(fs) /\ Len(fs) = i - 1
        /\ \A j \in 1 .. i - 1 : FieldFollows(made.sess.expressions, fs[j], c.fields[j])
    BY <1>2 DEF FieldsGood
  <2> HIDE DEF fs
  <2>7. /\ IsSequence(v.fields) /\ Len(v.fields) = i /\ v.fields[i] = field
        /\ \A j \in 1 .. i - 1 : v.fields[j] = fs[j]
    BY <2>4, <2>6, AppendFacts
  <2>8. \A j \in 1 .. i : FieldFollows(s.expressions, v.fields[j], c.fields[j])
    <3> TAKE j \in 1 .. i
    <3>1. CASE j = i
      BY <2>3, <2>7, <3>1 DEF f
    <3>2. CASE j \in 1 .. i - 1
      BY <1>0, <2>2, <2>6, <2>7, <3>2, FieldFollowsOn
    <3> QED
      BY <3>1, <3>2
  <2>9. DOMAIN new = {"sess", "ok", "value"} /\ new.sess = s /\ new.value = v
    BY <2>1 DEF Made
  <2> HIDE DEF new
  <2>10. FieldsGood(c, i, new)
    BY <2>4, <2>5, <2>7, <2>8, <2>9 DEF FieldsGood
  <2> QED
    BY <2>10 DEF new, f
<1> QED
  BY <1>1, <1>2

LEMMA BuilderMade ==
  ASSUME NEW s, NEW b, GoodSession(s), HasExpressions(b)
  PROVE  /\ Grows(s, MessageBuilder(s, b).sess)
         /\ DOMAIN MessageBuilder(s, b) = {"sess", "ok", "value"}
         /\ MessageBuilder(s, b).ok =>
              BuilderFollows(MessageBuilder(s, b).sess.expressions, MessageBuilder(s, b).value, b)
<1> DEFINE c     == [sess |-> s, fields |-> b.fields]
           v     == [given |-> TRUE, type |-> b.type, dotted |-> b.dotted, fields |-> <<>>]
           first == Made(s, TRUE, v)
           n     == Len(b.fields)
           m     == MessageBuilder(s, b)
<1>1. n \in Nat /\ DOMAIN b.fields = 1 .. n /\ \A i \in 1 .. n : IsExpression(b.fields[i].expression)
  BY SeqFacts DEF HasExpressions
<1>2. MessageBuilder(s, b) = Fields!FoldOf(c, first, b.fields)
  BY Zenon DEF MessageBuilder, Fields!FoldOf, FieldStep, FoldLeft, MapThenFoldSet,
               Max, Fields!MapThenFoldSet, Fields!Largest
<1>3. c.sess = s /\ c.fields = b.fields
  OBVIOUS
<1> HIDE DEF c
<1>4. FieldsGood(c, 0, first)
  <2>1. /\ DOMAIN first = {"sess", "ok", "value"}
        /\ first.sess = s /\ first.value = v /\ first.ok = TRUE
    BY DEF Made
  <2>2. /\ DOMAIN v = {"given", "type", "dotted", "fields"}
        /\ v.fields = <<>>
    OBVIOUS
  <2> HIDE DEF first, v
  <2> QED
    BY <1>3, <2>1, <2>2, EmptyFacts, GrowsItself DEF FieldsGood
<1>5. ASSUME NEW i \in 1 .. n, NEW x, FieldsGood(c, i - 1, x)
      PROVE  FieldsGood(c, i, FieldStep(c, x, b.fields[i]))
  <2>1. i \in Nat /\ i # 0
    OBVIOUS
  <2>2. IsExpression(c.fields[i].expression) /\ GoodSession(c.sess)
    BY <1>1, <1>3
  <2>3. FieldsGood(c, i, FieldAssignment(x, c.fields[i]))
    BY <1>5, <2>1, <2>2, FieldTaken
  <2> QED
    BY <1>3, <2>3 DEF FieldStep
<1> HIDE DEF first, n, m
<1>i. Fields!Inductive
  BY NaturalInduction, Zenon DEF Fields!Inductive
<1>6. FieldsGood(c, n, m)
  BY <1>i, <1>1, <1>2, <1>4, <1>5, Fields!FoldGood DEF m
<1>7. DOMAIN m.value.fields = 1 .. Len(m.value.fields)
  BY <1>6, SeqFacts DEF FieldsGood
<1>8. m.ok => BuilderFollows(m.sess.expressions, m.value, b)
  BY <1>3, <1>6, <1>7 DEF FieldsGood, BuilderFollows, n
<1> QED
  BY <1>3, <1>6, <1>8 DEF FieldsGood, m

LEMMA TriggerFollowsOn ==
  ASSUME NEW s, NEW t, NEW x, NEW r, GoodSession(s), Grows(s, t),
         TriggerFollows(s.expressions, x, r)
  PROVE  TriggerFollows(t.expressions, x, r)
  BY StashedOn DEF TriggerFollows

LEMMA BuilderFollowsOn ==
  ASSUME NEW s, NEW t, NEW b, NEW r, GoodSession(s), Grows(s, t),
         BuilderFollows(s.expressions, b, r)
  PROVE  BuilderFollows(t.expressions, b, r)
  BY FieldFollowsOn DEF BuilderFollows

-----------------------------------------------------------------------------
(* Sources and reports. *)

\* bs has the builder, if the source is an aggregator.
SourceFollows(es, x, bs) ==
  /\ DOMAIN x = {"name", "type", "identifier", "connection", "triggers", "builder"}
  /\ x.type \in {"data_source", "aggregator"}
  /\ bs = <<>> => /\ DOMAIN x.builder = {"given", "type", "dotted", "fields"}
                  /\ x.builder.fields = <<>>
  /\ bs # <<>> => BuilderFollows(es, x.builder, bs[1])

ReportFollows(es, x, r) ==
  /\ DOMAIN x = {"name", "triggers", "incomplete", "builder"}
  /\ BuilderFollows(es, x.builder, r.builder)

LEMMA SourceFollowsOn ==
  ASSUME NEW s, NEW t, NEW x, NEW bs, GoodSession(s), Grows(s, t),
         SourceFollows(s.expressions, x, bs)
  PROVE  SourceFollows(t.expressions, x, bs)
  BY BuilderFollowsOn DEF SourceFollows

LEMMA ReportFollowsOn ==
  ASSUME NEW s, NEW t, NEW x, NEW r, GoodSession(s), Grows(s, t),
         ReportFollows(s.expressions, x, r)
  PROVE  ReportFollows(t.expressions, x, r)
  BY BuilderFollowsOn DEF ReportFollows

LEMMA DataSourceMade ==
  ASSUME NEW s, NEW d, GoodSession(s)
  PROVE  /\ Grows(s, DataSource(s, d).sess)
         /\ SourceFollows(DataSource(s, d).sess.expressions, DataSource(s, d).value, <<>>)
<1> DEFINE x == DataSource(s, d).value
<1>1. DataSource(s, d).sess = s
  BY DEF DataSource, Made
<1>2. /\ DOMAIN x = {"name", "type", "identifier", "connection", "triggers", "builder"}
      /\ x.type = "data_source"
      /\ x.builder = [given |-> FALSE, type |-> NoType, dotted |-> FALSE, fields |-> <<>>]
  BY DEF DataSource, Made
<1> HIDE DEF x
<1>3. DOMAIN x.builder = {"given", "type", "dotted", "fields"} /\ x.builder.fields = <<>>
  BY <1>2
<1> QED
  BY <1>1, <1>2, <1>3, GrowsItself DEF SourceFollows, x

LEMMA AggregatorMade ==
  ASSUME NEW s, NEW a, GoodSession(s), HasExpressions(a.builder)
  PROVE  /\ Grows(s, Aggregator(s, a).sess)
         /\ Aggregator(s, a).ok =>
              SourceFollows(Aggregator(s, a).sess.expressions, Aggregator(s, a).value, <<a.builder>>)
<1> DEFINE m == MessageBuilder(s, a.builder)
           v == [name |-> a.name, type |-> "aggregator", identifier |-> NoType,
                 connection |-> "", triggers |-> a.triggers, builder |-> m.value]
           made == Aggregator(s, a)
<1>1. /\ Grows(s, m.sess) /\ DOMAIN m = {"sess", "ok", "value"}
      /\ m.ok => BuilderFollows(m.sess.expressions, m.value, a.builder)
  BY BuilderMade
<1> HIDE DEF m
<1>2. made = [m EXCEPT !.value = v]
  BY Zenon DEF Aggregator, m
<1>3. /\ DOMAIN v = {"name", "type", "identifier", "connection", "triggers", "builder"}
      /\ v.type = "aggregator" /\ v.builder = m.value
  OBVIOUS
<1> HIDE DEF v
<1>4. made.sess = m.sess /\ made.ok = m.ok /\ made.value = v
  BY <1>1, <1>2
<1> HIDE DEF made
<1>5. <<a.builder>> # <<>> /\ <<a.builder>>[1] = a.builder
  OBVIOUS
<1> QED
  BY <1>1, <1>3, <1>4, <1>5 DEF SourceFollows, made

LEMMA ReportMade ==
  ASSUME NEW s, NEW r, GoodSession(s), HasExpressions(r.builder)
  PROVE  /\ Grows(s, Report(s, r).sess)
         /\ Report(s, r).ok => ReportFollows(Report(s, r).sess.expressions, Report(s, r).value, r)
<1> DEFINE m == MessageBuilder(s, r.builder)
           v == [name |-> r.name, triggers |-> r.triggers,
                 incomplete |-> r.incomplete, builder |-> m.value]
           made == Report(s, r)
<1>1. /\ Grows(s, m.sess) /\ DOMAIN m = {"sess", "ok", "value"}
      /\ m.ok => BuilderFollows(m.sess.expressions, m.value, r.builder)
  BY BuilderMade
<1> HIDE DEF m
<1>2. made = [m EXCEPT !.value = v]
  BY Zenon DEF Report, m
<1>3. DOMAIN v = {"name", "triggers", "incomplete", "builder"} /\ v.builder = m.value
  OBVIOUS
<1> HIDE DEF v
<1>4. made.sess = m.sess /\ made.ok = m.ok /\ made.value = v
  BY <1>1, <1>2
<1> HIDE DEF made
<1> QED
  BY <1>1, <1>3, <1>4 DEF ReportFollows, made

\* The builder of a publisher, if it is an aggregation.
PublisherBuilder(p) == IF p.aggregation = <<>> THEN <<>> ELSE <<p.aggregation[1].builder>>

LEMMA PublisherMade ==
  ASSUME NEW s, NEW p, GoodSession(s), IsSequence(p.aggregation),
         \A a \in Range(p.aggregation) : HasExpressions(a.builder)
  PROVE  /\ Grows(s, DeprecatedSource(s, p).sess)
         /\ DeprecatedSource(s, p).ok =>
              SourceFollows(DeprecatedSource(s, p).sess.expressions, DeprecatedSource(s, p).value,
                            PublisherBuilder(p))
<1>1. CASE p.aggregation # <<>>
  <2> DEFINE a == [name |-> p.name, triggers |-> p.aggregation[1].triggers,
                   builder |-> p.aggregation[1].builder]
  <2>1. 1 \in DOMAIN p.aggregation
    BY <1>1, SeqFacts, EmptyOnly
  <2>2. a.builder = p.aggregation[1].builder
    OBVIOUS
  <2>3. HasExpressions(a.builder)
    BY <2>1, <2>2, RangeMember
  <2>4. DeprecatedSource(s, p) = Aggregator(s, a)
    BY <1>1, Zenon DEF DeprecatedSource
  <2> HIDE DEF a
  <2>5. PublisherBuilder(p) = <<a.builder>>
    BY <1>1, <2>2 DEF PublisherBuilder
  <2> QED
    BY <2>3, <2>4, <2>5, AggregatorMade
<1>2. CASE p.aggregation = <<>>
  <2> DEFINE d == [p.service[1] EXCEPT !.name = p.name]
  <2>1. DeprecatedSource(s, p) = DataSource(s, d)
    BY <1>2, Zenon DEF DeprecatedSource
  <2> HIDE DEF d
  <2>2. PublisherBuilder(p) = <<>>
    BY <1>2 DEF PublisherBuilder
  <2> QED
    BY <2>1, <2>2, DataSourceMade
<1> QED
  BY <1>1, <1>2

-----------------------------------------------------------------------------
(* The lists of the session. *)

FollowedTriggers(s, n) ==
  /\ Len(s.triggers) = n
  /\ \A i \in 1 .. n : TriggerFollows(s.expressions, s.triggers[i], req.triggers[i])

FollowedSources(s, n) ==
  /\ Len(s.sources) = n
  /\ \A i \in 1 .. n : SourceFollows(s.expressions, s.sources[i], RequestedBuilders[i])

FollowedReports(s, n) ==
  /\ Len(s.reports) = n
  /\ \A i \in 1 .. n : ReportFollows(s.expressions, s.reports[i], req.report_configs[i])

Followed(s, nt, ns, nr) ==
  FollowedTriggers(s, nt) /\ FollowedSources(s, ns) /\ FollowedReports(s, nr)

LEMMA FollowedOn ==
  ASSUME NEW s, NEW t, NEW nt, NEW ns, NEW nr, GoodSession(s), Grows(s, t), Followed(s, nt, ns, nr)
  PROVE  Followed(t, nt, ns, nr)
<1>1. t.triggers = s.triggers /\ t.sources = s.sources /\ t.reports = s.reports
  BY DEF Grows
<1>2. FollowedTriggers(t, nt)
  BY <1>1, TriggerFollowsOn DEF Followed, FollowedTriggers
<1>3. FollowedSources(t, ns)
  BY <1>1, SourceFollowsOn DEF Followed, FollowedSources
<1>4. FollowedReports(t, nr)
  BY <1>1, ReportFollowsOn DEF Followed, FollowedReports
<1> QED
  BY <1>2, <1>3, <1>4 DEF Followed

(* The session with one value more. *)
Added(s, into, v) == [s EXCEPT ![into] = Append(@, v)]

LEMMA TriggerAdded ==
  ASSUME NEW s, NEW n \in Nat, NEW ns, NEW nr, NEW v, GoodSession(s), Followed(s, n, ns, nr),
         TriggerFollows(s.expressions, v, req.triggers[n + 1])
  PROVE  GoodSession(Added(s, "triggers", v)) /\ Followed(Added(s, "triggers", v), n + 1, ns, nr)
<1> DEFINE t == Added(s, "triggers", v)
<1>1. /\ DOMAIN t = DOMAIN s /\ t.triggers = Append(s.triggers, v)
      /\ t.sources = s.sources /\ t.reports = s.reports /\ t.expressions = s.expressions
      /\ t.descriptors = s.descriptors
  BY DEF GoodSession, Added
<1> HIDE DEF t
<1>2. IsSequence(s.triggers) /\ Len(s.triggers) = n
  BY DEF GoodSession, Followed, FollowedTriggers
<1>3. /\ IsSequence(t.triggers) /\ Len(t.triggers) = n + 1
      /\ \A i \in 1 .. n : t.triggers[i] = s.triggers[i]
      /\ t.triggers[n + 1] = v
  BY <1>1, <1>2, AppendFacts
<1>4. GoodSession(t)
  BY <1>1, <1>3 DEF GoodSession
<1>5. \A i \in 1 .. n + 1 : i \in 1 .. n \/ i = n + 1
  OBVIOUS
<1>6. \A i \in 1 .. n : TriggerFollows(s.expressions, s.triggers[i], req.triggers[i])
  BY DEF Followed, FollowedTriggers
<1>7. FollowedTriggers(t, n + 1)
  BY <1>1, <1>3, <1>5, <1>6 DEF FollowedTriggers
<1>8. FollowedSources(t, ns) /\ FollowedReports(t, nr)
  BY <1>1 DEF Followed, FollowedSources, FollowedReports
<1> QED
  BY <1>4, <1>7, <1>8 DEF Followed, t

LEMMA SourceAdded ==
  ASSUME NEW s, NEW n \in Nat, NEW nt, NEW nr, NEW v, GoodSession(s), Followed(s, nt, n, nr),
         SourceFollows(s.expressions, v, RequestedBuilders[n + 1])
  PROVE  GoodSession(Added(s, "sources", v)) /\ Followed(Added(s, "sources", v), nt, n + 1, nr)
<1> DEFINE t == Added(s, "sources", v)
<1>1. /\ DOMAIN t = DOMAIN s /\ t.sources = Append(s.sources, v)
      /\ t.triggers = s.triggers /\ t.reports = s.reports /\ t.expressions = s.expressions
      /\ t.descriptors = s.descriptors
  BY DEF GoodSession, Added
<1> HIDE DEF t
<1>2. IsSequence(s.sources) /\ Len(s.sources) = n
  BY DEF GoodSession, Followed, FollowedSources
<1>3. /\ IsSequence(t.sources) /\ Len(t.sources) = n + 1
      /\ \A i \in 1 .. n : t.sources[i] = s.sources[i]
      /\ t.sources[n + 1] = v
  BY <1>1, <1>2, AppendFacts
<1>4. GoodSession(t)
  BY <1>1, <1>3 DEF GoodSession
<1>5. \A i \in 1 .. n + 1 : i \in 1 .. n \/ i = n + 1
  OBVIOUS
<1>6. \A i \in 1 .. n : SourceFollows(s.expressions, s.sources[i], RequestedBuilders[i])
  BY DEF Followed, FollowedSources
<1>7. FollowedSources(t, n + 1)
  BY <1>1, <1>3, <1>5, <1>6 DEF FollowedSources
<1>8. FollowedTriggers(t, nt) /\ FollowedReports(t, nr)
  BY <1>1 DEF Followed, FollowedTriggers, FollowedReports
<1> QED
  BY <1>4, <1>7, <1>8 DEF Followed, t

LEMMA ReportAdded ==
  ASSUME NEW s, NEW n \in Nat, NEW nt, NEW ns, NEW v, GoodSession(s), Followed(s, nt, ns, n),
         ReportFollows(s.expressions, v, req.report_configs[n + 1])
  PROVE  GoodSession(Added(s, "reports", v)) /\ Followed(Added(s, "reports", v), nt, ns, n + 1)
<1> DEFINE t == Added(s, "reports", v)
<1>1. /\ DOMAIN t = DOMAIN s /\ t.reports = Append(s.reports, v)
      /\ t.triggers = s.triggers /\ t.sources = s.sources /\ t.expressions = s.expressions
      /\ t.descriptors = s.descriptors
  BY DEF GoodSession, Added
<1> HIDE DEF t
<1>2. IsSequence(s.reports) /\ Len(s.reports) = n
  BY DEF GoodSession, Followed, FollowedReports
<1>3. /\ IsSequence(t.reports) /\ Len(t.reports) = n + 1
      /\ \A i \in 1 .. n : t.reports[i] = s.reports[i]
      /\ t.reports[n + 1] = v
  BY <1>1, <1>2, AppendFacts
<1>4. GoodSession(t)
  BY <1>1, <1>3 DEF GoodSession
<1>5. \A i \in 1 .. n + 1 : i \in 1 .. n \/ i = n + 1
  OBVIOUS
<1>6. \A i \in 1 .. n : ReportFollows(s.expressions, s.reports[i], req.report_configs[i])
  BY DEF Followed, FollowedReports
<1>7. FollowedReports(t, n + 1)
  BY <1>1, <1>3, <1>5, <1>6 DEF FollowedReports
<1>8. FollowedTriggers(t, nt) /\ FollowedSources(t, ns)
  BY <1>1 DEF Followed, FollowedTriggers, FollowedSources
<1> QED
  BY <1>4, <1>7, <1>8 DEF Followed, t

(* Adding to a list keeps the session good, whatever is added. *)
LEMMA AddedGood ==
  ASSUME NEW s, NEW into \in {"triggers", "sources", "reports"}, NEW v, GoodSession(s)
  PROVE  GoodSession(Added(s, into, v))
<1> DEFINE t == Added(s, into, v)
<1>1. /\ IsSequence(Append(s.triggers, v)) /\ IsSequence(Append(s.sources, v))
      /\ IsSequence(Append(s.reports, v))
  BY AppendFacts DEF GoodSession
<1>2. /\ DOMAIN t = DOMAIN s /\ t.expressions = s.expressions /\ t.descriptors = s.descriptors
      /\ t.triggers \in {s.triggers, Append(s.triggers, v)}
      /\ t.sources \in {s.sources, Append(s.sources, v)}
      /\ t.reports \in {s.reports, Append(s.reports, v)}
  BY DEF GoodSession, Added
<1> HIDE DEF t
<1>3. GoodSession(t)
  BY <1>1, <1>2 DEF GoodSession
<1> QED
  BY <1>3 DEF t

\* The errors are of items of the request.
ItemLists ==
  {"descriptor_protos", "triggers", "publishers", "data_sources", "aggregators", "report_configs"}
ErrsOK(es) == \A e \in es : e.list \in ItemLists /\ e.item \in DOMAIN req[e.list]

ItemTaken(p, done, into, made) ==
  /\ GoodSession(p.sess) /\ ErrsOK(p.errs)
  /\ p.errs = {} => /\ done.errs = {} /\ made.ok
                    /\ p.sess = Added(made.sess, into, made.value)

LEMMA ItemParsed ==
  ASSUME NEW done, NEW list, NEW into \in {"triggers", "sources", "reports"}, NEW i, NEW made,
         NEW accepted, GoodSession(made.sess), ErrsOK(done.errs),
         list \in ItemLists, i \in DOMAIN req[list]
  PROVE  ItemTaken(ParseItem(done, list, into, i, made, accepted), done, into, made)
<1> DEFINE p  == ParseItem(done, list, into, i, made, accepted)
           ok == made.ok /\ accepted /\ made.value.name \notin NamesOf(made.sess[into])
           new == Added(made.sess, into, made.value)
           e   == [list |-> list, item |-> i]
<1>1. CASE ok
  <2>1. p.sess = new /\ p.errs = done.errs
    BY <1>1, Zenon DEF ParseItem, Added
  <2>2. GoodSession(new)
    BY AddedGood
  <2> HIDE DEF p, new
  <2>3. ItemTaken(p, done, into, made)
    BY <1>1, <2>1, <2>2 DEF ItemTaken, new
  <2> QED
    BY <2>3 DEF p
<1>2. CASE ~ok
  <2>1. p.sess = made.sess /\ p.errs = done.errs \cup {e}
    BY <1>2, Zenon DEF ParseItem
  <2>2. e.list = list /\ e.item = i
    OBVIOUS
  <2> HIDE DEF p, e
  <2>3. ItemTaken(p, done, into, made)
    BY <2>1, <2>2 DEF ErrsOK, ItemTaken
  <2> QED
    BY <2>3 DEF p
<1> QED
  BY <1>1, <1>2

IsConcat(u, s, t) ==
  /\ IsSequence(u) /\ Len(u) = Len(s) + Len(t)
  /\ \A i \in 1 .. Len(s) : u[i] = s[i]
  /\ \A i \in 1 .. Len(t) : u[Len(s) + i] = t[i]

LEMMA ConcatFacts ==
  ASSUME NEW s, NEW t, IsSequence(s), IsSequence(t)
  PROVE  IsConcat(s \o t, s, t)
<1> DEFINE S == Range(s) \cup Range(t)
<1>1. s \in Seq(S) /\ t \in Seq(S)
  <2>1. s \in Seq(Range(s)) /\ t \in Seq(Range(t)) /\ Range(s) \subseteq S /\ Range(t) \subseteq S
    BY DEF IsSequence
  <2> HIDE DEF S
  <2> QED
    BY <2>1
<1> HIDE DEF S
<1>2. s \o t \in Seq(S)
  BY <1>1
<1>3. IsSequence(s \o t)
  BY <1>2, SeqIsSeq
<1>4. Len(s) \in Nat /\ Len(t) \in Nat
  BY <1>1
<1>5. Len(s \o t) = Len(s) + Len(t)
  BY <1>1
<1>6. \A i \in 1 .. Len(s) + Len(t) : (s \o t)[i] = IF i <= Len(s) THEN s[i] ELSE t[i - Len(s)]
  BY <1>1
<1>7. \A i \in 1 .. Len(t) :
        Len(s) + i \in 1 .. Len(s) + Len(t) /\ ~(Len(s) + i <= Len(s)) /\ (Len(s) + i) - Len(s) = i
  BY <1>4
<1>8. \A i \in 1 .. Len(s) : i \in 1 .. Len(s) + Len(t) /\ i <= Len(s)
  BY <1>4
<1>9. \A i \in 1 .. Len(t) : (s \o t)[Len(s) + i] = t[i]
  BY <1>6, <1>7
<1>10. \A i \in 1 .. Len(s) : (s \o t)[i] = s[i]
  BY <1>6, <1>8
<1> QED
  BY <1>3, <1>5, <1>9, <1>10 DEF IsConcat

NT == Len(req.triggers)
NP == Len(req.publishers)
ND == Len(req.data_sources)
NA == Len(req.aggregators)
NR == Len(req.report_configs)

LEMMA Lengths ==
  ASSUME IsRequest(req)
  PROVE  /\ NT \in Nat /\ NP \in Nat /\ ND \in Nat /\ NA \in Nat /\ NR \in Nat
         /\ DOMAIN req.triggers = 1 .. NT /\ DOMAIN req.publishers = 1 .. NP
         /\ DOMAIN req.data_sources = 1 .. ND /\ DOMAIN req.aggregators = 1 .. NA
         /\ DOMAIN req.report_configs = 1 .. NR
  BY SeqFacts DEF IsRequest, NT, NP, ND, NA, NR

LEMMA Requested ==
  ASSUME IsRequest(req)
  PROVE  /\ DOMAIN RequestedBuilders = 1 .. NP + ND + NA
         /\ \A i \in 1 .. NP : RequestedBuilders[i] = PublisherBuilder(req.publishers[i])
         /\ \A i \in 1 .. ND : RequestedBuilders[NP + i] = <<>>
         /\ \A i \in 1 .. NA : RequestedBuilders[NP + ND + i] = <<req.aggregators[i].builder>>
<1> DEFINE p == [i \in DOMAIN req.publishers |-> PublisherBuilder(req.publishers[i])]
           d == [i \in DOMAIN req.data_sources |-> <<>>]
           a == [i \in DOMAIN req.aggregators |-> <<req.aggregators[i].builder>>]
<1>0. /\ NP \in Nat /\ ND \in Nat /\ NA \in Nat
      /\ DOMAIN req.publishers = 1 .. NP /\ DOMAIN req.data_sources = 1 .. ND
      /\ DOMAIN req.aggregators = 1 .. NA
  BY Lengths
<1>1. RequestedBuilders = (p \o d) \o a
  BY Zenon DEF RequestedBuilders, PublisherBuilder
<1>2. /\ p = [i \in 1 .. NP |-> p[i]] /\ d = [i \in 1 .. ND |-> d[i]] /\ a = [i \in 1 .. NA |-> a[i]]
      /\ \A i \in 1 .. NP : p[i] = PublisherBuilder(req.publishers[i])
      /\ \A i \in 1 .. ND : d[i] = <<>>
      /\ \A i \in 1 .. NA : a[i] = <<req.aggregators[i].builder>>
  BY <1>0
<1> HIDE DEF p, d, a
<1>3. /\ IsSequence(p) /\ IsSequence(d) /\ IsSequence(a)
      /\ Len(p) = NP /\ Len(d) = ND /\ Len(a) = NA
  BY <1>0, <1>2, FunctionIsSeq
<1> DEFINE q == p \o d
           r == q \o a
<1>4. IsConcat(q, p, d)
  BY <1>3, ConcatFacts
<1> HIDE DEF q
<1>5. /\ IsSequence(q) /\ Len(q) = NP + ND
      /\ \A i \in 1 .. NP : q[i] = p[i]
      /\ \A i \in 1 .. ND : q[NP + i] = d[i]
  BY <1>3, <1>4 DEF IsConcat
<1>6. IsConcat(r, q, a)
  BY <1>3, <1>5, ConcatFacts
<1>r. RequestedBuilders = r
  BY <1>1 DEF q
<1> HIDE DEF r
<1>7. /\ IsSequence(r) /\ Len(r) = (NP + ND) + NA
      /\ \A i \in 1 .. NP + ND : r[i] = q[i]
      /\ \A i \in 1 .. NA : r[(NP + ND) + i] = a[i]
  BY <1>3, <1>5, <1>6 DEF IsConcat
<1>8. \A i \in 1 .. NP : i \in 1 .. NP + ND
  BY <1>0
<1>9. \A i \in 1 .. ND : NP + i \in 1 .. NP + ND
  BY <1>0
<1>10. DOMAIN r = 1 .. NP + ND + NA
  BY <1>7, SeqFacts
<1> QED
  BY <1>2, <1>5, <1>7, <1>8, <1>9, <1>10, <1>r

-----------------------------------------------------------------------------
(* The five lists, one after the other. *)

DoneGood(s, es, nt, ns, nr) ==
  GoodSession(s) /\ ErrsOK(es) /\ (es = {} => Followed(s, nt, ns, nr))

TriggerStep(c, done, i) ==
  ParseItem(done, "triggers", "triggers", i, Trigger(done.sess, req["triggers"][i]), TRUE)
TriggersGood(c, i, done) == DoneGood(done.sess, done.errs, i, 0, 0)
TriggerList == INSTANCE Induction WITH Step <- TriggerStep, Good <- TriggersGood

PublisherStep(c, done, i) ==
  ParseItem(done, "publishers", "sources", i, DeprecatedSource(done.sess, req["publishers"][i]),
            ShallowValidateSource(DeprecatedSource(done.sess, req["publishers"][i]).value))
PublishersGood(c, i, done) == DoneGood(done.sess, done.errs, NT, i, 0)
PublisherList == INSTANCE Induction WITH Step <- PublisherStep, Good <- PublishersGood

DataSourceStep(c, done, i) ==
  ParseItem(done, "data_sources", "sources", i, DataSource(done.sess, req["data_sources"][i]),
            ShallowValidateDataSource(DataSource(done.sess, req["data_sources"][i]).value))
DataSourcesGood(c, i, done) == DoneGood(done.sess, done.errs, NT, NP + i, 0)
DataSourceList == INSTANCE Induction WITH Step <- DataSourceStep, Good <- DataSourcesGood

AggregatorStep(c, done, i) ==
  ParseItem(done, "aggregators", "sources", i, Aggregator(done.sess, req["aggregators"][i]),
            ShallowValidateAggregator(Aggregator(done.sess, req["aggregators"][i]).value))
AggregatorsGood(c, i, done) == DoneGood(done.sess, done.errs, NT, NP + ND + i, 0)
AggregatorList == INSTANCE Induction WITH Step <- AggregatorStep, Good <- AggregatorsGood

ReportStep(c, done, i) ==
  ParseItem(done, "report_configs", "reports", i, Report(done.sess, req["report_configs"][i]),
            ShallowValidateMetricsReportConfig(Report(done.sess, req["report_configs"][i]).value))
ReportsGood(c, i, done) == DoneGood(done.sess, done.errs, NT, NP + ND + NA, i)
ReportList == INSTANCE Induction WITH Step <- ReportStep, Good <- ReportsGood

LEMMA TriggersParsed ==
  ASSUME IsRequest(req), DoneGood(sess, errs, 0, 0, 0), parseTriggers
  PROVE  DoneGood(sess', errs', NT, 0, 0)
<1> DEFINE base == [sess |-> sess, errs |-> errs]
           seq  == [i \in DOMAIN req["triggers"] |-> i]
           new  == TriggerList!FoldOf(0, base, seq)
<1>0. NT \in Nat /\ DOMAIN req["triggers"] = 1 .. NT /\ "triggers" \in ItemLists
      /\ "triggers" \in {"triggers", "sources", "reports"}
  BY Lengths DEF ItemLists
<1>1. sess' = new.sess /\ errs' = new.errs
  BY Zenon DEF parseTriggers, ParseList, TriggerList!FoldOf, TriggerStep, FoldLeft, MapThenFoldSet,
               Max, TriggerList!MapThenFoldSet, TriggerList!Largest
<1>2. TriggersGood(0, 0, base)
  BY DEF TriggersGood
<1>3. ASSUME NEW i \in 1 .. NT, NEW done, TriggersGood(0, i - 1, done)
      PROVE  TriggersGood(0, i, TriggerStep(0, done, seq[i]))
  <2> DEFINE r    == req["triggers"][i]
             made == Trigger(done.sess, r)
             p    == ParseItem(done, "triggers", "triggers", i, made, TRUE)
  <2>0. seq[i] = i /\ i \in DOMAIN req["triggers"] /\ i - 1 \in Nat /\ (i - 1) + 1 = i
    BY <1>0
  <2>1. IsExpression(r.initialize) /\ IsExpression(r.selector)
    <3>1. r \in Range(req.triggers)
      BY <1>0, RangeMember
    <3> HIDE DEF r
    <3> QED
      BY <3>1 DEF IsRequest
  <2>2. GoodSession(done.sess) /\ ErrsOK(done.errs)
        /\ (done.errs = {} => Followed(done.sess, i - 1, 0, 0))
    BY <1>3 DEF TriggersGood, DoneGood
  <2>3. Grows(done.sess, made.sess) /\ TriggerFollows(made.sess.expressions, made.value, r)
    BY <2>1, <2>2, TriggerMade
  <2> HIDE DEF made
  <2>4. GoodSession(made.sess)
    BY <2>3 DEF Grows
  <2>p. ItemTaken(p, done, "triggers", made)
    BY <1>0, <2>0, <2>2, <2>4, ItemParsed
  <2>7. TriggerStep(0, done, seq[i]) = p
    BY <2>0 DEF TriggerStep, made
  <2> HIDE DEF p
  <2>5. /\ GoodSession(p.sess) /\ ErrsOK(p.errs)
        /\ p.errs = {} => done.errs = {} /\ p.sess = Added(made.sess, "triggers", made.value)
    BY <2>p DEF ItemTaken
  <2>6. p.errs = {} => Followed(p.sess, i, 0, 0)
    <3> SUFFICES ASSUME p.errs = {} PROVE Followed(p.sess, i, 0, 0)
      OBVIOUS
    <3>1. Followed(made.sess, i - 1, 0, 0)
      BY <2>2, <2>3, <2>5, FollowedOn
    <3> HIDE DEF r
    <3>2. TriggerFollows(made.sess.expressions, made.value, req.triggers[(i - 1) + 1])
      BY <2>0, <2>3 DEF r
    <3>3. Followed(Added(made.sess, "triggers", made.value), (i - 1) + 1, 0, 0)
      BY <2>0, <2>4, <3>1, <3>2, TriggerAdded
    <3> QED
      BY <2>0, <2>5, <3>3
  <2> QED
    BY <2>5, <2>6, <2>7 DEF TriggersGood, DoneGood
<1>4. DOMAIN seq = 1 .. NT
  BY <1>0
<1> HIDE DEF base, seq
<1>i. TriggerList!Inductive
  BY NaturalInduction, Zenon DEF TriggerList!Inductive
<1>5. TriggersGood(0, NT, TriggerList!FoldOf(0, base, seq))
  BY <1>i, <1>0, <1>2, <1>3, <1>4, TriggerList!FoldGood
<1> QED
  BY <1>1, <1>5 DEF TriggersGood

LEMMA PublishersParsed ==
  ASSUME IsRequest(req), DoneGood(sess, errs, NT, 0, 0), parseDeprecatedSources
  PROVE  DoneGood(sess', errs', NT, NP, 0)
<1> DEFINE base == [sess |-> sess, errs |-> errs]
           seq  == [i \in DOMAIN req["publishers"] |-> i]
           new  == PublisherList!FoldOf(0, base, seq)
<1>0. /\ NP \in Nat /\ ND \in Nat /\ NP \in Nat
      /\ DOMAIN req["publishers"] = 1 .. NP /\ "publishers" \in ItemLists
      /\ "sources" \in {"triggers", "sources", "reports"}
  BY Lengths DEF ItemLists
<1>1. sess' = new.sess /\ errs' = new.errs
  BY Zenon DEF parseDeprecatedSources, ParseList, PublisherList!FoldOf, PublisherStep, FoldLeft, MapThenFoldSet,
               Max, PublisherList!MapThenFoldSet, PublisherList!Largest
<1>2. PublishersGood(0, 0, base)
  <2>1. TRUE
    BY <1>0
  <2> QED
    BY <2>1 DEF PublishersGood
<1>3. ASSUME NEW i \in 1 .. NP, NEW done, PublishersGood(0, i - 1, done)
      PROVE  PublishersGood(0, i, PublisherStep(0, done, seq[i]))
  <2> DEFINE r    == req["publishers"][i]
             made == DeprecatedSource(done.sess, r)
             p    == ParseItem(done, "publishers", "sources", i, made, ShallowValidateSource(made.value))
             n    == i - 1
  <2>0. /\ seq[i] = i /\ i \in DOMAIN req["publishers"] /\ n \in Nat /\ n + 1 = i
    BY <1>0
  <2>1. IsSequence(r.aggregation) /\ \A a \in Range(r.aggregation) : HasExpressions(a.builder)
    <3>1. r \in Range(req.publishers)
      BY <1>0, RangeMember
    <3> HIDE DEF r
    <3> QED
      BY <3>1 DEF IsRequest
  <2>2. GoodSession(done.sess) /\ ErrsOK(done.errs)
        /\ (done.errs = {} => Followed(done.sess, NT, i - 1, 0))
    BY <1>3 DEF PublishersGood, DoneGood
  <2>3. Grows(done.sess, made.sess) /\ (made.ok => SourceFollows(made.sess.expressions, made.value, PublisherBuilder(r)))
    BY <2>1, <2>2, PublisherMade
  <2>4. GoodSession(made.sess)
    BY <2>3 DEF Grows
  <2>5. ItemTaken(p, done, "sources", made)
    <3> HIDE DEF made
    <3> QED
      BY <1>0, <2>0, <2>2, <2>4, ItemParsed
  <2>6. PublisherStep(0, done, seq[i]) = p
    BY <2>0 DEF PublisherStep
  <2> HIDE DEF made, p, n, r
  <2>7. /\ GoodSession(p.sess) /\ ErrsOK(p.errs)
        /\ p.errs = {} => /\ done.errs = {} /\ made.ok
                          /\ p.sess = Added(made.sess, "sources", made.value)
    BY <2>5 DEF ItemTaken
  <2>8. ASSUME p.errs = {} PROVE Followed(p.sess, NT, i, 0)
    <3>1. Followed(made.sess, NT, n, 0)
      BY <2>2, <2>3, <2>7, <2>8, FollowedOn DEF n
    <3>2. RequestedBuilders[n + 1] = PublisherBuilder(r)
      BY <2>0, Requested DEF r
    <3>3. SourceFollows(made.sess.expressions, made.value, RequestedBuilders[n + 1])
      BY <2>3, <2>7, <2>8, <3>2
    <3>4. Followed(Added(made.sess, "sources", made.value), NT, n + 1, 0)
      BY <2>0, <2>4, <3>1, <3>3, SourceAdded
    <3> QED
      BY <2>0, <2>7, <2>8, <3>4
  <2> QED
    BY <2>6, <2>7, <2>8 DEF PublishersGood, DoneGood
<1>4. DOMAIN seq = 1 .. NP
  BY <1>0
<1> HIDE DEF base, seq
<1>i. PublisherList!Inductive
  BY NaturalInduction, Zenon DEF PublisherList!Inductive
<1>5. PublishersGood(0, NP, PublisherList!FoldOf(0, base, seq))
  BY <1>i, <1>0, <1>2, <1>3, <1>4, PublisherList!FoldGood
<1> QED
  BY <1>1, <1>5 DEF PublishersGood

LEMMA DataSourcesParsed ==
  ASSUME IsRequest(req), DoneGood(sess, errs, NT, NP, 0), parseDataSources
  PROVE  DoneGood(sess', errs', NT, NP + ND, 0)
<1> DEFINE base == [sess |-> sess, errs |-> errs]
           seq  == [i \in DOMAIN req["data_sources"] |-> i]
           new  == DataSourceList!FoldOf(0, base, seq)
<1>0. /\ NP \in Nat /\ ND \in Nat /\ ND \in Nat
      /\ DOMAIN req["data_sources"] = 1 .. ND /\ "data_sources" \in ItemLists
      /\ "sources" \in {"triggers", "sources", "reports"}
  BY Lengths DEF ItemLists
<1>1. sess' = new.sess /\ errs' = new.errs
  BY Zenon DEF parseDataSources, ParseList, DataSourceList!FoldOf, DataSourceStep, FoldLeft, MapThenFoldSet,
               Max, DataSourceList!MapThenFoldSet, DataSourceList!Largest
<1>2. DataSourcesGood(0, 0, base)
  <2>1. NP + 0 = NP
    BY <1>0
  <2> QED
    BY <2>1 DEF DataSourcesGood
<1>3. ASSUME NEW i \in 1 .. ND, NEW done, DataSourcesGood(0, i - 1, done)
      PROVE  DataSourcesGood(0, i, DataSourceStep(0, done, seq[i]))
  <2> DEFINE r    == req["data_sources"][i]
             made == DataSource(done.sess, r)
             p    == ParseItem(done, "data_sources", "sources", i, made, ShallowValidateDataSource(made.value))
             n    == NP + (i - 1)
  <2>0. /\ seq[i] = i /\ i \in DOMAIN req["data_sources"] /\ n \in Nat /\ n + 1 = NP + i
    BY <1>0
  <2>1. TRUE
    OBVIOUS
  <2>2. GoodSession(done.sess) /\ ErrsOK(done.errs)
        /\ (done.errs = {} => Followed(done.sess, NT, NP + (i - 1), 0))
    BY <1>3 DEF DataSourcesGood, DoneGood
  <2>3. Grows(done.sess, made.sess) /\ (made.ok => SourceFollows(made.sess.expressions, made.value, <<>>))
    BY <2>1, <2>2, DataSourceMade
  <2>4. GoodSession(made.sess)
    BY <2>3 DEF Grows
  <2>5. ItemTaken(p, done, "sources", made)
    <3> HIDE DEF made
    <3> QED
      BY <1>0, <2>0, <2>2, <2>4, ItemParsed
  <2>6. DataSourceStep(0, done, seq[i]) = p
    BY <2>0 DEF DataSourceStep
  <2> HIDE DEF made, p, n, r
  <2>7. /\ GoodSession(p.sess) /\ ErrsOK(p.errs)
        /\ p.errs = {} => /\ done.errs = {} /\ made.ok
                          /\ p.sess = Added(made.sess, "sources", made.value)
    BY <2>5 DEF ItemTaken
  <2>8. ASSUME p.errs = {} PROVE Followed(p.sess, NT, NP + i, 0)
    <3>1. Followed(made.sess, NT, n, 0)
      BY <2>2, <2>3, <2>7, <2>8, FollowedOn DEF n
    <3>2. RequestedBuilders[n + 1] = <<>>
      BY <2>0, Requested
    <3>3. SourceFollows(made.sess.expressions, made.value, RequestedBuilders[n + 1])
      BY <2>3, <2>7, <2>8, <3>2
    <3>4. Followed(Added(made.sess, "sources", made.value), NT, n + 1, 0)
      BY <2>0, <2>4, <3>1, <3>3, SourceAdded
    <3> QED
      BY <2>0, <2>7, <2>8, <3>4
  <2> QED
    BY <2>6, <2>7, <2>8 DEF DataSourcesGood, DoneGood
<1>4. DOMAIN seq = 1 .. ND
  BY <1>0
<1> HIDE DEF base, seq
<1>i. DataSourceList!Inductive
  BY NaturalInduction, Zenon DEF DataSourceList!Inductive
<1>5. DataSourcesGood(0, ND, DataSourceList!FoldOf(0, base, seq))
  BY <1>i, <1>0, <1>2, <1>3, <1>4, DataSourceList!FoldGood
<1> QED
  BY <1>1, <1>5 DEF DataSourcesGood

LEMMA AggregatorsParsed ==
  ASSUME IsRequest(req), DoneGood(sess, errs, NT, NP + ND, 0), parseAggregators
  PROVE  DoneGood(sess', errs', NT, NP + ND + NA, 0)
<1> DEFINE base == [sess |-> sess, errs |-> errs]
           seq  == [i \in DOMAIN req["aggregators"] |-> i]
           new  == AggregatorList!FoldOf(0, base, seq)
<1>0. /\ NP \in Nat /\ ND \in Nat /\ NA \in Nat
      /\ DOMAIN req["aggregators"] = 1 .. NA /\ "aggregators" \in ItemLists
      /\ "sources" \in {"triggers", "sources", "reports"}
  BY Lengths DEF ItemLists
<1>1. sess' = new.sess /\ errs' = new.errs
  BY Zenon DEF parseAggregators, ParseList, AggregatorList!FoldOf, AggregatorStep, FoldLeft, MapThenFoldSet,
               Max, AggregatorList!MapThenFoldSet, AggregatorList!Largest
<1>2. AggregatorsGood(0, 0, base)
  <2>1. NP + ND + 0 = NP + ND
    BY <1>0
  <2> QED
    BY <2>1 DEF AggregatorsGood
<1>3. ASSUME NEW i \in 1 .. NA, NEW done, AggregatorsGood(0, i - 1, done)
      PROVE  AggregatorsGood(0, i, AggregatorStep(0, done, seq[i]))
  <2> DEFINE r    == req["aggregators"][i]
             made == Aggregator(done.sess, r)
             p    == ParseItem(done, "aggregators", "sources", i, made, ShallowValidateAggregator(made.value))
             n    == NP + ND + (i - 1)
  <2>0. /\ seq[i] = i /\ i \in DOMAIN req["aggregators"] /\ n \in Nat /\ n + 1 = NP + ND + i
    BY <1>0
  <2>1. HasExpressions(r.builder)
    <3>1. r \in Range(req.aggregators)
      BY <1>0, RangeMember
    <3> HIDE DEF r
    <3> QED
      BY <3>1 DEF IsRequest
  <2>2. GoodSession(done.sess) /\ ErrsOK(done.errs)
        /\ (done.errs = {} => Followed(done.sess, NT, NP + ND + (i - 1), 0))
    BY <1>3 DEF AggregatorsGood, DoneGood
  <2>3. Grows(done.sess, made.sess) /\ (made.ok => SourceFollows(made.sess.expressions, made.value, <<r.builder>>))
    BY <2>1, <2>2, AggregatorMade
  <2>4. GoodSession(made.sess)
    BY <2>3 DEF Grows
  <2>5. ItemTaken(p, done, "sources", made)
    <3> HIDE DEF made
    <3> QED
      BY <1>0, <2>0, <2>2, <2>4, ItemParsed
  <2>6. AggregatorStep(0, done, seq[i]) = p
    BY <2>0 DEF AggregatorStep
  <2> HIDE DEF made, p, n, r
  <2>7. /\ GoodSession(p.sess) /\ ErrsOK(p.errs)
        /\ p.errs = {} => /\ done.errs = {} /\ made.ok
                          /\ p.sess = Added(made.sess, "sources", made.value)
    BY <2>5 DEF ItemTaken
  <2>8. ASSUME p.errs = {} PROVE Followed(p.sess, NT, NP + ND + i, 0)
    <3>1. Followed(made.sess, NT, n, 0)
      BY <2>2, <2>3, <2>7, <2>8, FollowedOn DEF n
    <3>2. RequestedBuilders[n + 1] = <<r.builder>>
      BY <2>0, Requested DEF r
    <3>3. SourceFollows(made.sess.expressions, made.value, RequestedBuilders[n + 1])
      BY <2>3, <2>7, <2>8, <3>2
    <3>4. Followed(Added(made.sess, "sources", made.value), NT, n + 1, 0)
      BY <2>0, <2>4, <3>1, <3>3, SourceAdded
    <3> QED
      BY <2>0, <2>7, <2>8, <3>4
  <2> QED
    BY <2>6, <2>7, <2>8 DEF AggregatorsGood, DoneGood
<1>4. DOMAIN seq = 1 .. NA
  BY <1>0
<1> HIDE DEF base, seq
<1>i. AggregatorList!Inductive
  BY NaturalInduction, Zenon DEF AggregatorList!Inductive
<1>5. AggregatorsGood(0, NA, AggregatorList!FoldOf(0, base, seq))
  BY <1>i, <1>0, <1>2, <1>3, <1>4, AggregatorList!FoldGood
<1> QED
  BY <1>1, <1>5 DEF AggregatorsGood

LEMMA ReportsParsed ==
  ASSUME IsRequest(req), DoneGood(sess, errs, NT, NP + ND + NA, 0), parseReportConfigs
  PROVE  DoneGood(sess', errs', NT, NP + ND + NA, NR)
<1> DEFINE base == [sess |-> sess, errs |-> errs]
           seq  == [i \in DOMAIN req["report_configs"] |-> i]
           new  == ReportList!FoldOf(0, base, seq)
<1>0. /\ NP \in Nat /\ ND \in Nat /\ NR \in Nat
      /\ DOMAIN req["report_configs"] = 1 .. NR /\ "report_configs" \in ItemLists
      /\ "reports" \in {"triggers", "sources", "reports"}
  BY Lengths DEF ItemLists
<1>1. sess' = new.sess /\ errs' = new.errs
  BY Zenon DEF parseReportConfigs, ParseList, ReportList!FoldOf, ReportStep, FoldLeft, MapThenFoldSet,
               Max, ReportList!MapThenFoldSet, ReportList!Largest
<1>2. ReportsGood(0, 0, base)
  <2>1. TRUE
    BY <1>0
  <2> QED
    BY <2>1 DEF ReportsGood
<1>3. ASSUME NEW i \in 1 .. NR, NEW done, ReportsGood(0, i - 1, done)
      PROVE  ReportsGood(0, i, ReportStep(0, done, seq[i]))
  <2> DEFINE r    == req["report_configs"][i]
             made == Report(done.sess, r)
             p    == ParseItem(done, "report_configs", "reports", i, made, ShallowValidateMetricsReportConfig(made.value))
             n    == i - 1
  <2>0. /\ seq[i] = i /\ i \in DOMAIN req["report_configs"] /\ n \in Nat /\ n + 1 = i
    BY <1>0
  <2>1. HasExpressions(r.builder)
    <3>1. r \in Range(req.report_configs)
      BY <1>0, RangeMember
    <3> HIDE DEF r
    <3> QED
      BY <3>1 DEF IsRequest
  <2>2. GoodSession(done.sess) /\ ErrsOK(done.errs)
        /\ (done.errs = {} => Followed(done.sess, NT, NP + ND + NA, i - 1))
    BY <1>3 DEF ReportsGood, DoneGood
  <2>3. Grows(done.sess, made.sess) /\ (made.ok => ReportFollows(made.sess.expressions, made.value, r))
    BY <2>1, <2>2, ReportMade
  <2>4. GoodSession(made.sess)
    BY <2>3 DEF Grows
  <2>5. ItemTaken(p, done, "reports", made)
    <3> HIDE DEF made
    <3> QED
      BY <1>0, <2>0, <2>2, <2>4, ItemParsed
  <2>6. ReportStep(0, done, seq[i]) = p
    BY <2>0 DEF ReportStep
  <2> HIDE DEF made, p, n, r
  <2>7. /\ GoodSession(p.sess) /\ ErrsOK(p.errs)
        /\ p.errs = {} => /\ done.errs = {} /\ made.ok
                          /\ p.sess = Added(made.sess, "reports", made.value)
    BY <2>5 DEF ItemTaken
  <2>8. ASSUME p.errs = {} PROVE Followed(p.sess, NT, NP + ND + NA, i)
    <3>1. Followed(made.sess, NT, NP + ND + NA, n)
      BY <2>2, <2>3, <2>7, <2>8, FollowedOn DEF n
    <3>2. req.report_configs[n + 1] = r
      BY <2>0 DEF r
    <3>3. ReportFollows(made.sess.expressions, made.value, req.report_configs[n + 1])
      BY <2>3, <2>7, <2>8, <3>2
    <3>4. Followed(Added(made.sess, "reports", made.value), NT, NP + ND + NA, n + 1)
      BY <2>0, <2>4, <3>1, <3>3, ReportAdded
    <3> QED
      BY <2>0, <2>7, <2>8, <3>4
  <2> QED
    BY <2>6, <2>7, <2>8 DEF ReportsGood, DoneGood
<1>4. DOMAIN seq = 1 .. NR
  BY <1>0
<1> HIDE DEF base, seq
<1>i. ReportList!Inductive
  BY NaturalInduction, Zenon DEF ReportList!Inductive
<1>5. ReportsGood(0, NR, ReportList!FoldOf(0, base, seq))
  BY <1>i, <1>0, <1>2, <1>3, <1>4, ReportList!FoldGood
<1> QED
  BY <1>1, <1>5 DEF ReportsGood

-----------------------------------------------------------------------------
(* Reach is the least set with S that next does not leave. *)

NoProperty(c, i, x) == TRUE

WalkStep(c, within, i) ==
  IF i = 0 THEN c[1]
  ELSE LET near == within[i - 1]
       IN  near \cup UNION {c[2][x] : x \in near \cap DOMAIN c[2]}
Walks == INSTANCE Induction WITH Step <- WalkStep, Good <- NoProperty

Walk(w, S, next, n) ==
  /\ w[0] = S
  /\ \A i \in 1 .. n : w[i] = w[i - 1] \cup UNION {next[x] : x \in w[i - 1] \cap DOMAIN next}

LEMMA ReachOfPair ==
  ASSUME NEW c, NEW n \in Nat, n = Cardinality(DOMAIN c[2])
  PROVE  \E w : Walk(w, c[1], c[2], n) /\ Reach(c[1], c[2]) = w[n]
<1> DEFINE w == Walks!RecursionOf(c, 0 .. n)
<1>1. ASSUME NEW i \in 0 .. n, NEW f, NEW g, \A j \in 0 .. i - 1 : f[j] = g[j]
      PROVE  WalkStep(c, f, i) = WalkStep(c, g, i)
  <2>1. CASE i = 0
    BY <2>1, Zenon DEF WalkStep
  <2>2. CASE i # 0
    <3>1. i - 1 \in 0 .. i - 1
      BY <2>2
    <3>2. f[i - 1] = g[i - 1]
      BY <1>1, <3>1
    <3> QED
      BY <3>2, Zenon DEF WalkStep
  <2> QED
    BY <2>1, <2>2
<1>2. Walks!Progressive(c, 0, n) /\ 0 \in Nat
  BY <1>1, Zenon DEF Walks!Progressive
<1>i. Walks!Inductive
  BY NaturalInduction, Zenon DEF Walks!Inductive
<1>3. Walks!Unfolds(w, c, 0 .. n)
  BY <1>i, <1>2, Walks!RecursionUnfolds, Zenon
<1>4. Reach(c[1], c[2]) = w[n]
  BY Zenon DEF Reach, Walks!RecursionOf, WalkStep
<1> HIDE DEF w
<1>5. \A i \in 0 .. n : w[i] = WalkStep(c, w, i)
  BY <1>3 DEF Walks!Unfolds
<1>6. w[0] = c[1]
  <2>1. 0 \in 0 .. n
    OBVIOUS
  <2> QED
    BY <1>5, <2>1, Zenon DEF WalkStep
<1>7. ASSUME NEW i \in 1 .. n
      PROVE  w[i] = w[i - 1] \cup UNION {c[2][x] : x \in w[i - 1] \cap DOMAIN c[2]}
  <2>1. i \in 0 .. n /\ i # 0
    OBVIOUS
  <2> QED
    BY <1>5, <2>1, Zenon DEF WalkStep
<1>8. Walk(w, c[1], c[2], n)
  BY <1>6, <1>7, Zenon DEF Walk
<1> QED
  BY <1>4, <1>8

LEMMA ReachWalks ==
  ASSUME NEW S, NEW next, NEW n \in Nat, n = Cardinality(DOMAIN next)
  PROVE  \E w : Walk(w, S, next, n) /\ Reach(S, next) = w[n]
<1>1. PICK c : c[1] = S /\ c[2] = next
  <2>1. <<S, next>>[1] = S /\ <<S, next>>[2] = next
    OBVIOUS
  <2> QED
    BY <2>1, Zenon
<1>2. n = Cardinality(DOMAIN c[2])
  BY <1>1
<1> QED
  BY <1>1, <1>2, ReachOfPair

\* b is a with all that one step reaches.
Grown(a, b, next) ==
  /\ a \subseteq b
  /\ \A x \in a \cap DOMAIN next : next[x] \subseteq b
  /\ \A y \in b : y \in a \/ \E x \in a \cap DOMAIN next : y \in next[x]

LEMMA WalkGrows ==
  ASSUME NEW S, NEW next, NEW n \in Nat, NEW w, Walk(w, S, next, n), NEW i \in 1 .. n
  PROVE  Grown(w[i - 1], w[i], next)
<1> DEFINE U == {next[x] : x \in w[i - 1] \cap DOMAIN next}
<1>1. w[i] = w[i - 1] \cup UNION U
  BY Zenon DEF Walk
<1>2. \A x \in w[i - 1] \cap DOMAIN next : next[x] \in U
  OBVIOUS
<1>3. \A X \in U : \E x \in w[i - 1] \cap DOMAIN next : X = next[x]
  OBVIOUS
<1> HIDE DEF U
<1> QED
  BY <1>1, <1>2, <1>3 DEF Grown

Closed(T, next) == \A x \in T \cap DOMAIN next : next[x] \subseteq T

LEMMA ReachStarts ==
  ASSUME NEW S, NEW next, IsFiniteSet(DOMAIN next)
  PROVE  S \subseteq Reach(S, next)
<1> DEFINE n == Cardinality(DOMAIN next)
<1>1. n \in Nat
  BY FS_CardinalityType
<1> HIDE DEF n
<1>2. PICK w : Walk(w, S, next, n) /\ Reach(S, next) = w[n]
  BY <1>1, ReachWalks DEF n
<1> DEFINE T == {k \in Nat : S \subseteq w[k]}
<1>3. 0 \in T
  BY <1>2 DEF Walk
<1>4. ASSUME NEW k \in 0 .. n - 1, k \in T PROVE k + 1 \in T
  <2>1. k + 1 \in 1 .. n /\ (k + 1) - 1 = k /\ k + 1 \in Nat
    BY <1>1
  <2>2. Grown(w[k], w[k + 1], next)
    BY <1>1, <1>2, <2>1, WalkGrows
  <2> QED
    BY <1>4, <2>1, <2>2 DEF Grown
<1> HIDE DEF T
<1>5. n \in T
  BY <1>1, <1>3, <1>4, UpTo
<1> QED
  BY <1>2, <1>5 DEF T

LEMMA ReachStays ==
  ASSUME NEW S, NEW next, IsFiniteSet(DOMAIN next), NEW T, S \subseteq T, Closed(T, next)
  PROVE  Reach(S, next) \subseteq T
<1> DEFINE n == Cardinality(DOMAIN next)
<1>1. n \in Nat
  BY FS_CardinalityType
<1> HIDE DEF n
<1>2. PICK w : Walk(w, S, next, n) /\ Reach(S, next) = w[n]
  BY <1>1, ReachWalks DEF n
<1> DEFINE K == {k \in Nat : w[k] \subseteq T}
<1>3. 0 \in K
  BY <1>2 DEF Walk
<1>4. ASSUME NEW k \in 0 .. n - 1, k \in K PROVE k + 1 \in K
  <2>1. k + 1 \in 1 .. n /\ (k + 1) - 1 = k /\ k + 1 \in Nat
    BY <1>1
  <2>2. w[k] \subseteq T
    BY <1>4
  <2>3. Grown(w[k], w[k + 1], next)
    BY <1>1, <1>2, <2>1, WalkGrows
  <2>4. w[k + 1] \subseteq T
    BY <2>2, <2>3 DEF Closed, Grown
  <2> QED
    BY <2>1, <2>4
<1> HIDE DEF K
<1>5. n \in K
  BY <1>1, <1>3, <1>4, UpTo
<1> QED
  BY <1>2, <1>5 DEF K

LEMMA ReachCloses ==
  ASSUME NEW S, NEW next, IsFiniteSet(DOMAIN next)
  PROVE  Closed(Reach(S, next), next)
<1> DEFINE D == DOMAIN next
           n == Cardinality(D)
<1>1. n \in Nat
  BY FS_CardinalityType
<1>d. D = DOMAIN next /\ n = Cardinality(D) /\ IsFiniteSet(D)
  OBVIOUS
<1> HIDE DEF n
<1>2. PICK w : Walk(w, S, next, n) /\ Reach(S, next) = w[n]
  BY <1>1, ReachWalks DEF n
<1> HIDE DEF D
<1> DEFINE C(k) == Cardinality(w[k] \cap D)
           T == {k \in Nat : Closed(w[k], next) \/ C(k) > k}
<1>3. ASSUME NEW k PROVE C(k) \in Nat /\ C(k) <= n /\ (C(k) = 0 => w[k] \cap D = {})
  <2>1. w[k] \cap D \in SUBSET D
    OBVIOUS
  <2>2. IsFiniteSet(w[k] \cap D) /\ C(k) <= n
    BY <1>d, <2>1, FS_Subset
  <2> QED
    BY <2>2, FS_CardinalityType, FS_EmptySet
<1>4. 0 \in T
  <2>1. CASE C(0) = 0
    <3>1. Closed(w[0], next)
      BY <1>3, <1>d, <2>1 DEF Closed
    <3> QED
      BY <3>1
  <2>2. CASE C(0) # 0
    <3>1. C(0) \in Nat
      BY <1>3
    <3>2. C(0) > 0
      BY <2>2, <3>1
    <3> QED
      BY <3>2
  <2> QED
    BY <2>1, <2>2
<1>5. ASSUME NEW k \in 0 .. n - 1, k \in T PROVE k + 1 \in T
  <2>1. k + 1 \in 1 .. n /\ (k + 1) - 1 = k /\ k + 1 \in Nat /\ k \in Nat
    BY <1>1
  <2>2. /\ w[k] \subseteq w[k + 1]
        /\ \A x \in w[k] \cap D : next[x] \subseteq w[k + 1]
        /\ \A y \in w[k + 1] : y \in w[k] \/ \E x \in w[k] \cap D : y \in next[x]
    <3>1. Grown(w[k], w[k + 1], next)
      BY <1>1, <1>2, <2>1, WalkGrows
    <3> QED
      BY <1>d, <3>1 DEF Grown
  <2>3. CASE Closed(w[k], next)
    <3>1. w[k + 1] = w[k]
      BY <2>2, <2>3, <1>d DEF Closed
    <3>2. Closed(w[k + 1], next)
      BY <2>3, <3>1
    <3> QED
      BY <2>1, <3>2
  <2>4. CASE ~Closed(w[k], next) /\ ~Closed(w[k + 1], next)
    <3>1. PICK x \in w[k + 1] \cap D : ~(next[x] \subseteq w[k + 1])
      BY <2>4, <1>d DEF Closed
    <3>2. x \notin w[k]
      BY <2>2, <3>1
    <3> DEFINE A == w[k] \cap D
               B == w[k + 1] \cap D
    <3>3. A \in SUBSET B /\ A # B /\ B \in SUBSET D
      BY <2>2, <3>1, <3>2
    <3>4. Cardinality(A) = C(k) /\ Cardinality(B) = C(k + 1)
      OBVIOUS
    <3> HIDE DEF A, B
    <3>5. IsFiniteSet(B)
      BY <1>d, <3>3, FS_Subset
    <3>6. Cardinality(A) <= Cardinality(B) /\ Cardinality(B) # Cardinality(A)
      BY <3>3, <3>5, FS_Subset
    <3>7. C(k) \in Nat /\ C(k + 1) \in Nat /\ C(k) > k
      BY <1>3, <1>5, <2>4
    <3> HIDE DEF C
    <3>8. C(k + 1) > k + 1
      BY <2>1, <3>4, <3>6, <3>7
    <3> QED
      BY <2>1, <3>8
  <2> QED
    BY <2>1, <2>3, <2>4
<1>6. n \in T
  <2> HIDE DEF T
  <2>1. \A k \in 0 .. n - 1 : k \in T => k + 1 \in T
    BY <1>5
  <2>2. \A k \in 0 .. n : k \in T
    BY <1>1, <1>4, <2>1, UpTo, Zenon
  <2> QED
    BY <1>1, <2>2
<1>7. ~(C(n) > n)
  BY <1>1, <1>3
<1>8. Closed(w[n], next)
  BY <1>6, <1>7
<1> QED
  BY <1>2, <1>8

-----------------------------------------------------------------------------
(* The nodes of the configuration. *)

NodeFields == {"type", "name", "names", "args", "value"}

LEMMA SeqMembers ==
  ASSUME NEW S, NEW s, s \in Seq(S)
  PROVE  Len(s) \in Nat /\ DOMAIN s = 1 .. Len(s) /\ \A i \in DOMAIN s : s[i] \in S
  OBVIOUS

LEMMA ExpressionFacts ==
  ASSUME NEW e, IsExpression(e)
  PROVE  /\ Len(e) \in Nat /\ DOMAIN e = 1 .. Len(e)
         /\ \A i \in 1 .. Len(e) :
              /\ DOMAIN e[i] = NodeFields
              /\ Len(e[i].args) \in Nat /\ DOMAIN e[i].args = 1 .. Len(e[i].args)
              /\ \A a \in DOMAIN e[i].args : e[i].args[a] \in 1 .. i - 1
              /\ HasShape(e[i])
<1>1. Len(e) \in Nat /\ DOMAIN e = 1 .. Len(e)
  BY SeqFacts DEF IsExpression
<1>2. ASSUME NEW i \in 1 .. Len(e)
      PROVE  /\ DOMAIN e[i] = NodeFields
             /\ Len(e[i].args) \in Nat /\ DOMAIN e[i].args = 1 .. Len(e[i].args)
             /\ \A a \in DOMAIN e[i].args : e[i].args[a] \in 1 .. i - 1
             /\ HasShape(e[i])
  <2> DEFINE n == e[i]
             as == e[i].args
  <2>0. i \in DOMAIN e
    BY <1>1
  <2>1. DOMAIN n = NodeFields /\ as \in Seq(1 .. i - 1) /\ HasShape(n)
    BY <2>0, Zenon DEF IsExpression, NodeFields
  <2> HIDE DEF n, as
  <2>2. Len(as) \in Nat /\ DOMAIN as = 1 .. Len(as) /\ \A a \in DOMAIN as : as[a] \in 1 .. i - 1
    BY <2>1, SeqMembers
  <2> QED
    BY <2>1, <2>2 DEF n, as
<1> QED
  BY <1>1, <1>2

\* The node m stands for the node n of an expression whose nodes are at the
\* positions at.  Inference gives a builder its type.
Stands(m, n, at) ==
  /\ m.type = n.type /\ m.names = n.names /\ m.value = n.value
  /\ n.type # "builder" => m.name = n.name
  /\ DOMAIN m.args = DOMAIN n.args
  /\ \A a \in DOMAIN n.args : m.args[a] = at[n.args[a]]

Embeds(nodes, at, e, k) ==
  \A j \in 1 .. k : at[j] \in 1 .. Len(nodes) /\ Stands(nodes[at[j]], e[j], at)

TreeStep(nodes, tree, i) ==
  [nodes[i] EXCEPT !.args = [a \in DOMAIN @ |-> tree[@[a]]],
                   !.name = IF nodes[i].type = "builder" THEN NoType ELSE @]
Trees == INSTANCE Induction WITH Step <- TreeStep, Good <- NoProperty

LEMMA TreeUnfolds ==
  ASSUME NEW nodes, IsExpression(nodes)
  PROVE  \E tree : /\ \A i \in 1 .. Len(nodes) : tree[i] = TreeStep(nodes, tree, i)
                   /\ \A i \in 1 .. Len(nodes) : Tree(nodes, i) = tree[i]
<1> DEFINE n == Len(nodes)
           tree == Trees!RecursionOf(nodes, DOMAIN nodes)
<1>1. /\ n \in Nat /\ DOMAIN nodes = 1 .. n
      /\ \A i \in 1 .. n : \A a \in DOMAIN nodes[i].args : nodes[i].args[a] \in 1 .. i - 1
  BY ExpressionFacts
<1>2. ASSUME NEW i \in 1 .. n, NEW f, NEW g, \A j \in 1 .. i - 1 : f[j] = g[j]
      PROVE  TreeStep(nodes, f, i) = TreeStep(nodes, g, i)
  <2>1. [a \in DOMAIN nodes[i].args |-> f[nodes[i].args[a]]]
          = [a \in DOMAIN nodes[i].args |-> g[nodes[i].args[a]]]
    BY <1>1, <1>2
  <2> QED
    BY <2>1, Zenon DEF TreeStep
<1>3. Trees!Progressive(nodes, 1, n)
  BY <1>2, Zenon DEF Trees!Progressive
<1>4. 1 \in Nat
  OBVIOUS
<1>i. Trees!Inductive
  BY NaturalInduction, Zenon DEF Trees!Inductive
<1>5. Trees!Unfolds(tree, nodes, DOMAIN nodes)
  BY <1>i, <1>1, <1>3, <1>4, Trees!RecursionUnfolds, Zenon
<1>6. ASSUME NEW r PROVE Tree(nodes, r) = tree[r]
  BY Zenon DEF Tree, Trees!RecursionOf, TreeStep
<1> HIDE DEF tree
<1>7. \A i \in 1 .. n : tree[i] = TreeStep(nodes, tree, i)
  BY <1>1, <1>5 DEF Trees!Unfolds
<1> QED
  BY <1>6, <1>7

LEMMA SameNode ==
  ASSUME NEW m, NEW n, NEW at, NEW t, NEW u, NEW i, NEW j, NEW nodes, NEW e,
         m = nodes[i], n = e[j],
         DOMAIN m = NodeFields, DOMAIN n = NodeFields, Stands(m, n, at),
         \A a \in DOMAIN n.args : t[at[n.args[a]]] = u[n.args[a]]
  PROVE  TreeStep(nodes, t, i) = TreeStep(e, u, j)
<1> DEFINE x == [a \in DOMAIN m.args |-> t[m.args[a]]]
           y == [a \in DOMAIN n.args |-> u[n.args[a]]]
           p == IF m.type = "builder" THEN NoType ELSE m.name
           q == IF n.type = "builder" THEN NoType ELSE n.name
<1>1. x = y
  BY DEF Stands
<1>2. p = q
  BY DEF Stands
<1>3. TreeStep(nodes, t, i) = [m EXCEPT !.args = x, !.name = p]
  BY DEF TreeStep, NodeFields
<1>4. TreeStep(e, u, j) = [n EXCEPT !.args = y, !.name = q]
  BY DEF TreeStep, NodeFields
<1> HIDE DEF x, y, p, q
<1>5. \A f \in NodeFields : f \in {"args", "name"} \/ m[f] = n[f]
  BY DEF Stands, NodeFields
<1>6. [m EXCEPT !.args = x, !.name = p] = [n EXCEPT !.args = x, !.name = p]
  BY <1>5 DEF NodeFields
<1> QED
  BY <1>1, <1>2, <1>3, <1>4, <1>6

(* Nodes that stand for those of an expression have its trees. *)
LEMMA SameTrees ==
  ASSUME NEW nodes, NEW e, NEW at, IsExpression(nodes), IsExpression(e), Embeds(nodes, at, e, Len(e))
  PROVE  \A j \in 1 .. Len(e) : Tree(nodes, at[j]) = Tree(e, j)
<1>1. PICK t : /\ \A i \in 1 .. Len(nodes) : t[i] = TreeStep(nodes, t, i)
               /\ \A i \in 1 .. Len(nodes) : Tree(nodes, i) = t[i]
  BY TreeUnfolds
<1>2. PICK u : /\ \A i \in 1 .. Len(e) : u[i] = TreeStep(e, u, i)
               /\ \A i \in 1 .. Len(e) : Tree(e, i) = u[i]
  BY TreeUnfolds
<1> DEFINE T == {j \in Nat : t[at[j]] = u[j]}
           k == Len(e)
<1>3. /\ k \in Nat
      /\ \A i \in 1 .. Len(nodes) : DOMAIN nodes[i] = NodeFields
      /\ \A j \in 1 .. k : /\ DOMAIN e[j] = NodeFields
                           /\ \A a \in DOMAIN e[j].args : e[j].args[a] \in 1 .. j - 1
  BY ExpressionFacts
<1>4. ASSUME NEW j \in 1 .. k, \A i \in 1 .. j - 1 : i \in T PROVE j \in T
  <2>1. at[j] \in 1 .. Len(nodes) /\ Stands(nodes[at[j]], e[j], at)
    BY DEF Embeds
  <2>2. \A a \in DOMAIN e[j].args : t[at[e[j].args[a]]] = u[e[j].args[a]]
    BY <1>3, <1>4
  <2>3. TreeStep(nodes, t, at[j]) = TreeStep(e, u, j)
    BY <1>3, <2>1, <2>2, SameNode
  <2>4. t[at[j]] = u[j]
    BY <1>1, <1>2, <2>1, <2>3
  <2> QED
    BY <2>4
<1> HIDE DEF T
<1>5. \A j \in 1 .. k : (\A i \in 1 .. j - 1 : i \in T) => j \in T
  BY <1>4
<1>6. \A j \in 1 .. k : j \in T
  BY <1>3, <1>5, Strong, Zenon
<1>7. ASSUME NEW j \in 1 .. k PROVE Tree(nodes, at[j]) = Tree(e, j)
  <2>1. t[at[j]] = u[j]
    BY <1>6 DEF T
  <2>2. at[j] \in 1 .. Len(nodes)
    BY DEF Embeds
  <2> QED
    BY <1>1, <1>2, <2>1, <2>2
<1> QED
  BY <1>7

LEMMA MinFact ==
  ASSUME NEW k \in Nat, NEW s \in SUBSET (1 .. k), s # {}
  PROVE  Min(s) \in s
<1>1. s \in SUBSET Nat
  OBVIOUS
<1>2. PICK x \in s : \A y \in s : ~(y < x)
  BY <1>1, Least
<1>3. \A y \in s : x <= y
  BY <1>2
<1> QED
  BY <1>2, <1>3 DEF Min

\* The first of the nodes stay where they are.
Extends(nodes, more) ==
  /\ Len(nodes) <= Len(more)
  /\ \A i \in 1 .. Len(nodes) : more[i] = nodes[i]

LEMMA ExtendsOn ==
  ASSUME NEW l, NEW m, NEW n, IsExpression(l), IsExpression(m), IsExpression(n),
         Extends(l, m), Extends(m, n)
  PROVE  Extends(l, n)
<1>1. Len(l) \in Nat /\ Len(m) \in Nat /\ Len(n) \in Nat
  BY ExpressionFacts
<1> QED
  BY <1>1 DEF Extends

LEMMA EmbedsOn ==
  ASSUME NEW nodes, NEW more, NEW at, NEW e, NEW k, IsExpression(nodes), IsExpression(more),
         Extends(nodes, more), Embeds(nodes, at, e, k)
  PROVE  Embeds(more, at, e, k)
<1>1. Len(nodes) \in Nat /\ Len(more) \in Nat
  BY ExpressionFacts
<1>2. \A i \in 1 .. Len(nodes) : i \in 1 .. Len(more) /\ more[i] = nodes[i]
  BY <1>1 DEF Extends
<1> QED
  BY <1>2 DEF Embeds

(* One node more. *)
LEMMA NodeAppended ==
  ASSUME NEW nodes, IsExpression(nodes), NEW node, DOMAIN node = NodeFields,
         node.args \in Seq(1 .. Len(nodes)), HasShape(node)
  PROVE  /\ IsExpression(Append(nodes, node)) /\ Extends(nodes, Append(nodes, node))
         /\ Len(Append(nodes, node)) = Len(nodes) + 1
         /\ Append(nodes, node)[Len(nodes) + 1] = node
<1> DEFINE more == Append(nodes, node)
           n    == Len(nodes)
<1>1. n \in Nat /\ DOMAIN nodes = 1 .. n /\ IsSequence(nodes)
  BY ExpressionFacts DEF IsExpression
<1>2. /\ IsSequence(more) /\ Len(more) = n + 1 /\ DOMAIN more = 1 .. n + 1
      /\ \A i \in 1 .. n : more[i] = nodes[i]
      /\ more[n + 1] = node
  BY <1>1, AppendFacts
<1> HIDE DEF more
<1>3. \A i \in 1 .. n + 1 : i \in 1 .. n \/ i = n + 1
  BY <1>1
<1>4. \A i \in 1 .. n : /\ DOMAIN nodes[i] = NodeFields /\ nodes[i].args \in Seq(1 .. i - 1)
                        /\ HasShape(nodes[i])
  BY <1>1, Zenon DEF IsExpression, NodeFields
<1>5. (n + 1) - 1 = n
  BY <1>1
<1>6. \A i \in 1 .. n + 1 : /\ DOMAIN more[i] = NodeFields /\ more[i].args \in Seq(1 .. i - 1)
                            /\ HasShape(more[i])
  BY <1>2, <1>3, <1>4, <1>5
<1>7. IsExpression(more)
  BY <1>2, <1>6, Zenon DEF IsExpression, NodeFields
<1>8. Extends(nodes, more)
  BY <1>1, <1>2 DEF Extends
<1> QED
  BY <1>2, <1>7, <1>8 DEF more

LEMMA FunctionInSeq ==
  ASSUME NEW S, NEW n \in Nat, NEW f, f = [i \in 1 .. n |-> f[i]], \A i \in 1 .. n : f[i] \in S
  PROVE  f \in Seq(S)
  BY IsASeq

\* PushNode has found or made the node, at this place.
Placed(new, done, node, place) ==
  /\ DOMAIN new = {"nodes", "at"}
  /\ IsExpression(new.nodes) /\ Extends(done.nodes, new.nodes)
  /\ new.at = Append(done.at, place)
  /\ place \in 1 .. Len(new.nodes) /\ new.nodes[place] = node

\* What compileOne has made after the first i nodes of an expression.
PushStep(c, done, n) == PushNode(done, n)
Pushed(c, i, done) ==
  /\ DOMAIN done = {"nodes", "at"}
  /\ IsExpression(done.nodes) /\ Extends(c.nodes, done.nodes)
  /\ IsSequence(done.at) /\ Len(done.at) = i
  /\ Embeds(done.nodes, done.at, c.e, i)
Pushes == INSTANCE Induction WITH Step <- PushStep, Good <- Pushed

LEMMA NodePushed ==
  ASSUME NEW c, IsExpression(c.nodes), IsExpression(c.e), NEW i \in 1 .. Len(c.e), NEW done,
         Pushed(c, i - 1, done)
  PROVE  Pushed(c, i, PushNode(done, c.e[i]))
<1> DEFINE n     == c.e[i]
           as    == [a \in DOMAIN n.args |-> done.at[n.args[a]]]
           node  == [n EXCEPT !.args = as]
           nodes == done.nodes
           known == {j \in DOMAIN nodes : nodes[j] = node}
           new   == PushNode(done, n)
           len   == Len(done.nodes)
<1>1. /\ DOMAIN n = NodeFields /\ Len(n.args) \in Nat /\ DOMAIN n.args = 1 .. Len(n.args)
      /\ \A a \in DOMAIN n.args : n.args[a] \in 1 .. i - 1
      /\ HasShape(n)
  BY ExpressionFacts
<1>2. i \in Nat /\ i - 1 \in Nat /\ (i - 1) + 1 = i
  BY ExpressionFacts
<1>3. /\ DOMAIN done = {"nodes", "at"} /\ IsExpression(nodes) /\ Extends(c.nodes, nodes)
      /\ IsSequence(done.at) /\ Len(done.at) = i - 1 /\ Embeds(nodes, done.at, c.e, i - 1)
  BY DEF Pushed
<1>4. len \in Nat /\ DOMAIN nodes = 1 .. len
  BY <1>3, ExpressionFacts
<1> HIDE DEF n
<1>5. \A a \in DOMAIN n.args : done.at[n.args[a]] \in 1 .. len
  BY <1>1, <1>3 DEF Embeds
<1>6. as \in Seq(1 .. len) /\ DOMAIN as = DOMAIN n.args /\ Len(as) = Len(n.args)
      /\ \A a \in DOMAIN n.args : as[a] = done.at[n.args[a]]
  <2>1. as = [a \in 1 .. Len(n.args) |-> as[a]] /\ \A a \in 1 .. Len(n.args) : as[a] \in 1 .. len
    BY <1>1, <1>5
  <2>2. DOMAIN as = DOMAIN n.args /\ \A a \in DOMAIN n.args : as[a] = done.at[n.args[a]]
    OBVIOUS
  <2> HIDE DEF as, len
  <2>3. as \in Seq(1 .. len)
    BY <1>1, <2>1, FunctionInSeq
  <2>4. Len(as) = Len(n.args)
    BY <1>1, <2>1, FunctionIsSeq
  <2> QED
    BY <2>2, <2>3, <2>4
<1> HIDE DEF as, len
<1>7. /\ DOMAIN node = NodeFields /\ node.args = as
      /\ node.type = n.type /\ node.name = n.name /\ node.names = n.names /\ node.value = n.value
  BY <1>1 DEF NodeFields
<1>8. new = IF known = {}
            THEN [nodes |-> Append(nodes, node), at |-> Append(done.at, len + 1)]
            ELSE [done EXCEPT !.at = Append(@, Min(known))]
  BY Zenon DEF PushNode, as, len
<1> HIDE DEF node
<1>s. HasShape(node)
  BY <1>1, <1>6, <1>7 DEF HasShape
<1>9. \A at : (\A j \in 1 .. i - 1 : at[j] = done.at[j]) => Stands(node, n, at)
  BY <1>1, <1>6, <1>7 DEF Stands
<1>p. \E place : Placed(new, done, node, place)
  <2>1. CASE known = {}
    <3> DEFINE more == Append(nodes, node)
               at   == Append(done.at, len + 1)
    <3>1. new = [nodes |-> more, at |-> at]
      BY <1>8, <2>1
    <3>2. /\ IsExpression(more) /\ Extends(nodes, more)
          /\ Len(more) = len + 1 /\ more[len + 1] = node
      BY <1>3, <1>6, <1>7, <1>s, NodeAppended DEF len
    <3>3. len + 1 \in 1 .. len + 1
      BY <1>4
    <3> HIDE DEF more, new
    <3>4. DOMAIN new = {"nodes", "at"} /\ new.nodes = more /\ new.at = at
      BY <3>1
    <3>5. Placed(new, done, node, len + 1)
      BY <3>2, <3>3, <3>4 DEF Placed
    <3> QED
      BY <3>5
  <2>2. CASE known # {}
    <3>1. new = [done EXCEPT !.at = Append(@, Min(known))]
      BY <1>8, <2>2
    <3>2. Min(known) \in known
      BY <1>4, <2>2, MinFact
    <3>3. Min(known) \in 1 .. len /\ nodes[Min(known)] = node
      BY <1>4, <3>2
    <3> DEFINE place == Min(known)
               at    == Append(done.at, place)
    <3> HIDE DEF place, new
    <3>4. new = [done EXCEPT !.at = at]
      BY <1>3, <3>1 DEF place
    <3> HIDE DEF at
    <3>5. DOMAIN new = {"nodes", "at"} /\ new.nodes = nodes /\ new.at = at
      BY <1>3, <3>4
    <3>6. Extends(nodes, nodes)
      BY <1>4 DEF Extends, len
    <3>7. Placed(new, done, node, place)
      BY <1>3, <3>3, <3>5, <3>6 DEF Placed, place, at, len
    <3> QED
      BY <3>7
  <2> QED
    BY <2>1, <2>2
<1> DEFINE more == new.nodes
           at   == new.at
<1> HIDE DEF new
<1>o. PICK place : Placed(new, done, node, place)
  BY <1>p
<1>m. /\ DOMAIN new = {"nodes", "at"} /\ IsExpression(more) /\ Extends(nodes, more)
      /\ at = Append(done.at, place) /\ place \in 1 .. Len(more) /\ more[place] = node
  BY <1>o DEF Placed
<1> HIDE DEF more, at
<1>10. /\ IsSequence(at) /\ Len(at) = i /\ at[i] = place
       /\ \A j \in 1 .. i - 1 : at[j] = done.at[j]
  BY <1>2, <1>3, <1>m, AppendFacts
<1>11. Extends(c.nodes, more)
  BY <1>3, <1>m, ExtendsOn
<1>12. Embeds(more, done.at, c.e, i - 1)
  BY <1>3, <1>m, EmbedsOn
<1>13. Stands(more[place], n, at)
  BY <1>9, <1>10, <1>m
<1>14. ASSUME NEW j \in 1 .. i - 1
       PROVE  at[j] \in 1 .. Len(more) /\ Stands(more[at[j]], c.e[j], at)
  <2>1. at[j] = done.at[j] /\ at[j] \in 1 .. Len(more) /\ Stands(more[at[j]], c.e[j], done.at)
    BY <1>10, <1>12 DEF Embeds
  <2>2. \A a \in DOMAIN c.e[j].args : c.e[j].args[a] \in 1 .. i - 1
    <3>1. j \in 1 .. Len(c.e) /\ j - 1 <= i - 1
      BY <1>2, ExpressionFacts
    <3>2. \A a \in DOMAIN c.e[j].args : c.e[j].args[a] \in 1 .. j - 1
      BY <3>1, ExpressionFacts
    <3> QED
      BY <1>2, <3>1, <3>2
  <2> QED
    BY <1>10, <2>1, <2>2 DEF Stands
<1>15. \A j \in 1 .. i : j \in 1 .. i - 1 \/ j = i
  BY <1>2
<1>16. Embeds(more, at, c.e, i)
  BY <1>10, <1>13, <1>14, <1>15, <1>m DEF Embeds, n
<1> QED
  BY <1>10, <1>11, <1>16, <1>m DEF Pushed, n, more, at, new

\* The node at the index is the root of the expression.
Denoted(nodes, index, e) == \E at : Embeds(nodes, at, e, Len(e)) /\ index = at[Len(e)]

LEMMA NotBlank ==
  ASSUME NEW e, IsExpression(e), e # Blank
  PROVE  Len(e) \in Nat /\ Len(e) \in 1 .. Len(e)
<1>1. Len(e) \in Nat /\ Len(e) # 0
  BY ExpressionFacts, EmptyOnly DEF IsExpression, Blank
<1> QED
  BY <1>1

LEMMA DenotedFacts ==
  ASSUME NEW nodes, NEW index, NEW e, IsExpression(nodes), IsExpression(e), e # Blank,
         Denoted(nodes, index, e)
  PROVE  index \in 1 .. Len(nodes) /\ index # 0 /\ Tree(nodes, index) = Tree(e, Len(e))
<1>1. PICK at : Embeds(nodes, at, e, Len(e)) /\ index = at[Len(e)]
  BY DEF Denoted
<1>2. Len(e) \in Nat /\ Len(e) \in 1 .. Len(e)
  BY NotBlank
<1>3. Tree(nodes, at[Len(e)]) = Tree(e, Len(e))
  BY <1>1, <1>2, SameTrees
<1>4. index \in 1 .. Len(nodes)
  BY <1>1, <1>2 DEF Embeds
<1> QED
  BY <1>1, <1>3, <1>4

LEMMA DenotedOn ==
  ASSUME NEW nodes, NEW more, NEW index, NEW e, IsExpression(nodes), IsExpression(more),
         Extends(nodes, more), Denoted(nodes, index, e)
  PROVE  Denoted(more, index, e)
  BY EmbedsOn DEF Denoted

(* The nodes of one expression. *)
LEMMA ExpressionPushed ==
  ASSUME NEW nodes, NEW e, IsExpression(nodes), IsExpression(e), e # Blank,
         NEW pushed, pushed = FoldLeft(PushNode, [nodes |-> nodes, at |-> <<>>], e)
  PROVE  /\ IsExpression(pushed.nodes) /\ Extends(nodes, pushed.nodes)
         /\ Denoted(pushed.nodes, Last(pushed.at), e)
<1> DEFINE c     == [nodes |-> nodes, e |-> e]
           first == [nodes |-> nodes, at |-> <<>>]
           n     == Len(e)
<1>1. pushed = Pushes!FoldOf(c, first, e)
  BY Zenon DEF Pushes!FoldOf, PushStep, FoldLeft, MapThenFoldSet,
               Max, Pushes!MapThenFoldSet, Pushes!Largest
<1>2. c.nodes = nodes /\ c.e = e
  OBVIOUS
<1>3. n \in Nat /\ DOMAIN e = 1 .. n
  BY ExpressionFacts
<1> HIDE DEF c
<1>4. Pushed(c, 0, first)
  <2>1. DOMAIN first = {"nodes", "at"} /\ first.nodes = nodes /\ first.at = <<>>
    OBVIOUS
  <2> HIDE DEF first
  <2>2. Extends(nodes, nodes)
    <3>1. Len(nodes) \in Nat
      BY ExpressionFacts
    <3> QED
      BY <3>1 DEF Extends
  <2>3. Embeds(nodes, first.at, e, 0)
    BY DEF Embeds
  <2> QED
    BY <1>2, <2>1, <2>2, <2>3, EmptyFacts DEF Pushed
<1>5. ASSUME NEW i \in 1 .. n, NEW x, Pushed(c, i - 1, x)
      PROVE  Pushed(c, i, PushStep(c, x, e[i]))
  <2>1. Pushed(c, i, PushNode(x, c.e[i]))
    BY <1>2, <1>5, NodePushed
  <2> QED
    BY <1>2, <2>1 DEF PushStep
<1> HIDE DEF first, n
<1>i. Pushes!Inductive
  BY NaturalInduction, Zenon DEF Pushes!Inductive
<1>6. Pushed(c, n, pushed)
  BY <1>i, <1>1, <1>3, <1>4, <1>5, Pushes!FoldGood
<1>7. Embeds(pushed.nodes, pushed.at, e, Len(e)) /\ Last(pushed.at) = pushed.at[Len(e)]
  BY <1>2, <1>6 DEF Pushed, n, Last
<1>8. Denoted(pushed.nodes, Last(pushed.at), e)
  BY <1>7 DEF Denoted
<1> QED
  BY <1>2, <1>6, <1>8 DEF Pushed

CompileStep(c, done, e) == compileOne(done, e)
CompiledSoFar(c, i, done) ==
  /\ IsExpression(done.nodes)
  /\ IsSequence(done.mapping) /\ Len(done.mapping) = i
  /\ \A j \in 1 .. i : Denoted(done.nodes, done.mapping[j], c[j])
Compiles == INSTANCE Induction WITH Step <- CompileStep, Good <- CompiledSoFar

(* All expressions of the session. *)
LEMMA AllCompiled ==
  ASSUME NEW es, IsSequence(es),
         \A i \in DOMAIN es : IsExpression(es[i]) /\ es[i] # Blank
  PROVE  CompiledSoFar(es, Len(es), CompileAll(es))
<1> DEFINE first == [nodes |-> <<>>, mapping |-> <<>>]
           n     == Len(es)
<1>1. CompileAll(es) = Compiles!FoldOf(es, first, es)
  BY Zenon DEF CompileAll, Compiles!FoldOf, CompileStep, FoldLeft, MapThenFoldSet,
               Max, Compiles!MapThenFoldSet, Compiles!Largest
<1>2. n \in Nat /\ DOMAIN es = 1 .. n
  BY SeqFacts
<1>3. CompiledSoFar(es, 0, first)
  <2>1. first.nodes = <<>> /\ first.mapping = <<>>
    OBVIOUS
  <2> HIDE DEF first
  <2>2. IsExpression(<<>>)
    BY EmptyFacts DEF IsExpression
  <2> QED
    BY <2>1, <2>2, EmptyFacts DEF CompiledSoFar
<1>4. ASSUME NEW i \in 1 .. n, NEW done, CompiledSoFar(es, i - 1, done)
      PROVE  CompiledSoFar(es, i, CompileStep(es, done, es[i]))
  <2> DEFINE e      == es[i]
             pushed == FoldLeft(PushNode, [nodes |-> done.nodes, at |-> <<>>], e)
             m      == Append(done.mapping, Last(pushed.at))
             new    == CompileStep(es, done, es[i])
  <2>0. i \in Nat /\ i - 1 \in Nat /\ (i - 1) + 1 = i /\ \A j \in 1 .. i : j \in 1 .. i - 1 \/ j = i
    BY <1>2
  <2>1. new = [nodes |-> pushed.nodes, mapping |-> m]
    BY Zenon DEF CompileStep, compileOne
  <2>2. IsExpression(e) /\ e # Blank
    BY <1>2
  <2>3. IsExpression(done.nodes) /\ IsSequence(done.mapping) /\ Len(done.mapping) = i - 1
        /\ \A j \in 1 .. i - 1 : Denoted(done.nodes, done.mapping[j], es[j])
    BY <1>4 DEF CompiledSoFar
  <2> HIDE DEF new, e
  <2>4. /\ IsExpression(pushed.nodes) /\ Extends(done.nodes, pushed.nodes)
        /\ Denoted(pushed.nodes, Last(pushed.at), e)
    BY <2>2, <2>3, ExpressionPushed
  <2> HIDE DEF pushed
  <2>5. /\ IsSequence(m) /\ Len(m) = i /\ m[i] = Last(pushed.at)
        /\ \A j \in 1 .. i - 1 : m[j] = done.mapping[j]
    BY <2>0, <2>3, AppendFacts
  <2> HIDE DEF m
  <2>6. new.nodes = pushed.nodes /\ new.mapping = m
    BY <2>1
  <2>7. \A j \in 1 .. i - 1 : Denoted(pushed.nodes, m[j], es[j])
    BY <2>3, <2>4, <2>5, DenotedOn
  <2>8. \A j \in 1 .. i : Denoted(pushed.nodes, m[j], es[j])
    BY <2>0, <2>4, <2>5, <2>7 DEF e
  <2>9. CompiledSoFar(es, i, new)
    BY <2>4, <2>5, <2>6, <2>8 DEF CompiledSoFar
  <2> QED
    BY <2>9 DEF new
<1> HIDE DEF first, n
<1>i. Compiles!Inductive
  BY NaturalInduction, Zenon DEF Compiles!Inductive
<1>5. CompiledSoFar(es, n, Compiles!FoldOf(es, first, es))
  BY <1>i, <1>2, <1>3, <1>4, Compiles!FoldGood
<1> QED
  BY <1>1, <1>5 DEF n

-----------------------------------------------------------------------------
(* The configuration that compileSession assembles. *)

IndexDenotes(nodes, index, e) == IF e = Blank THEN index = 0 ELSE Denoted(nodes, index, e)

TriggerDenotes(nodes, t, r) ==
  /\ t.source = IF r.source # "" THEN r.source ELSE r.publisher
  /\ IndexDenotes(nodes, t.initialize, r.initialize)
  /\ IndexDenotes(nodes, t.selector, r.selector)

FieldDenotes(nodes, f, r) ==
  /\ f.name = r.name
  /\ f.aggregation # ""
  /\ f.aggregation # "count" => r.expression # Blank
  /\ IndexDenotes(nodes, f.node, r.expression)

BuilderDenotes(nodes, b, r) ==
  /\ DOMAIN b = {"given", "type", "dotted", "fields"}
  /\ DOMAIN b.fields = DOMAIN r.fields /\ IsFiniteSet(DOMAIN b.fields)
  /\ \A i \in DOMAIN b.fields : FieldDenotes(nodes, b.fields[i], r.fields[i])

SourceDenotes(nodes, x, bs) ==
  /\ DOMAIN x = {"name", "type", "identifier", "connection", "triggers", "builder"}
  /\ x.type \in {"data_source", "aggregator"}
  /\ bs = <<>> => /\ DOMAIN x.builder = {"given", "type", "dotted", "fields"}
                  /\ DOMAIN x.builder.fields = {}
  /\ bs # <<>> => BuilderDenotes(nodes, x.builder, bs[1])

ReportDenotes(nodes, x, r) ==
  /\ DOMAIN x = {"name", "triggers", "incomplete", "builder"}
  /\ BuilderDenotes(nodes, x.builder, r.builder)

ConfigDenotes(config) ==
  /\ DOMAIN config = {"uuid", "nodes", "triggers", "sources", "reports", "start", "stop",
                      "deactivate", "descriptors"}
  /\ IsExpression(config.nodes)
  /\ DOMAIN config.triggers = 1 .. NT
  /\ \A i \in 1 .. NT : TriggerDenotes(config.nodes, config.triggers[i], req.triggers[i])
  /\ DOMAIN config.sources = 1 .. NP + ND + NA
  /\ \A i \in 1 .. NP + ND + NA :
       SourceDenotes(config.nodes, config.sources[i], RequestedBuilders[i])
  /\ DOMAIN config.reports = 1 .. NR
  /\ \A i \in 1 .. NR : ReportDenotes(config.nodes, config.reports[i], req.report_configs[i])

\* compiled is what CompileAll makes of the expressions es.
IsCompiled(es, compiled) == IsSequence(es) /\ CompiledSoFar(es, Len(es), compiled)

LEMMA IndexReplaced ==
  ASSUME NEW es, NEW compiled, NEW id, NEW e, IsCompiled(es, compiled), Stashed(es, id, e)
  PROVE  IndexDenotes(compiled.nodes, IF id = 0 THEN 0 ELSE compiled.mapping[id], e)
<1>1. CASE e = Blank
  BY <1>1 DEF Stashed, IndexDenotes
<1>2. CASE e # Blank
  <2>1. id \in 1 .. Len(es) /\ es[id] = e /\ Len(es) \in Nat
    BY <1>2, SeqFacts DEF Stashed, IsCompiled
  <2>2. id # 0
    BY <2>1
  <2>3. Denoted(compiled.nodes, compiled.mapping[id], e)
    BY <2>1 DEF IsCompiled, CompiledSoFar
  <2> QED
    BY <1>2, <2>2, <2>3 DEF IndexDenotes
<1> QED
  BY <1>1, <1>2

LEMMA TriggerReplaced ==
  ASSUME NEW es, NEW compiled, NEW t, NEW r, IsCompiled(es, compiled), TriggerFollows(es, t, r)
  PROVE  TriggerDenotes(compiled.nodes, getTriggersWithReplacedIndices(compiled.mapping, t), r)
<1> DEFINE new == getTriggersWithReplacedIndices(compiled.mapping, t)
           i   == IF t.initialize = 0 THEN 0 ELSE compiled.mapping[t.initialize]
           j   == IF t.selector = 0 THEN 0 ELSE compiled.mapping[t.selector]
<1>1. {"source", "initialize", "selector"} \subseteq DOMAIN t
  BY DEF TriggerFollows
<1>2. new = [t EXCEPT !.selector = j, !.initialize = i]
  BY <1>1 DEF getTriggersWithReplacedIndices
<1>3. IndexDenotes(compiled.nodes, i, r.initialize) /\ IndexDenotes(compiled.nodes, j, r.selector)
  BY IndexReplaced DEF TriggerFollows
<1> HIDE DEF new, i, j
<1>4. new.source = t.source /\ new.selector = j /\ new.initialize = i
  BY <1>1, <1>2
<1>5. TriggerDenotes(compiled.nodes, new, r)
  BY <1>3, <1>4 DEF TriggerDenotes, TriggerFollows
<1> QED
  BY <1>5 DEF new

FieldReplaced(mapping, f) == IF f.node = 0 THEN f ELSE [f EXCEPT !.node = mapping[f.node]]

LEMMA FieldReplacedDenotes ==
  ASSUME NEW es, NEW compiled, NEW f, NEW r, IsCompiled(es, compiled), FieldFollows(es, f, r)
  PROVE  FieldDenotes(compiled.nodes, FieldReplaced(compiled.mapping, f), r)
<1> DEFINE new == FieldReplaced(compiled.mapping, f)
           i   == IF f.node = 0 THEN 0 ELSE compiled.mapping[f.node]
<1>1. IndexDenotes(compiled.nodes, i, r.expression)
  BY IndexReplaced DEF FieldFollows
<1>2. new.name = f.name /\ new.aggregation = f.aggregation /\ new.node = i
  BY DEF FieldReplaced, FieldFollows
<1> HIDE DEF new, i
<1>3. FieldDenotes(compiled.nodes, new, r)
  BY <1>1, <1>2 DEF FieldDenotes, FieldFollows
<1> QED
  BY <1>3 DEF new

FieldsReplaced(new, mapping, b) ==
  /\ DOMAIN new = {"given", "type", "dotted", "fields"}
  /\ DOMAIN new.fields = DOMAIN b.fields
  /\ \A i \in DOMAIN b.fields : new.fields[i] = FieldReplaced(mapping, b.fields[i])

LEMMA BuilderReplaced ==
  ASSUME NEW mapping, NEW b, DOMAIN b = {"given", "type", "dotted", "fields"}
  PROVE  FieldsReplaced(translateMessageBuilderExpressionNodes(mapping, b), mapping, b)
<1> DEFINE fs == [i \in DOMAIN b.fields |-> FieldReplaced(mapping, b.fields[i])]
<1>1. translateMessageBuilderExpressionNodes(mapping, b) = [b EXCEPT !.fields = fs]
  BY Zenon DEF translateMessageBuilderExpressionNodes, FieldReplaced
<1>2. DOMAIN fs = DOMAIN b.fields
      /\ \A i \in DOMAIN b.fields : fs[i] = FieldReplaced(mapping, b.fields[i])
  OBVIOUS
<1> HIDE DEF fs
<1>3. DOMAIN [b EXCEPT !.fields = fs] = DOMAIN b /\ [b EXCEPT !.fields = fs].fields = fs
  OBVIOUS
<1> QED
  BY <1>1, <1>2, <1>3 DEF FieldsReplaced

LEMMA BuilderReplacedDenotes ==
  ASSUME NEW es, NEW compiled, NEW b, NEW r, IsCompiled(es, compiled), BuilderFollows(es, b, r),
         IsSequence(r.fields)
  PROVE  BuilderDenotes(compiled.nodes, translateMessageBuilderExpressionNodes(compiled.mapping, b), r)
<1> DEFINE new == translateMessageBuilderExpressionNodes(compiled.mapping, b)
<1>1. FieldsReplaced(new, compiled.mapping, b)
  BY BuilderReplaced DEF BuilderFollows
<1> HIDE DEF new
<1>2. DOMAIN b.fields = DOMAIN r.fields /\ IsFiniteSet(DOMAIN r.fields)
  BY SeqFacts, SeqFinite DEF BuilderFollows
<1>3. \A i \in DOMAIN b.fields : FieldDenotes(compiled.nodes, new.fields[i], r.fields[i])
  BY <1>1, FieldReplacedDenotes DEF BuilderFollows, FieldsReplaced
<1>4. BuilderDenotes(compiled.nodes, new, r)
  BY <1>1, <1>2, <1>3 DEF BuilderDenotes, FieldsReplaced
<1> QED
  BY <1>4 DEF new

LEMMA SourceReplaced ==
  ASSUME NEW es, NEW compiled, NEW x, NEW bs, IsCompiled(es, compiled), SourceFollows(es, x, bs),
         bs # <<>> => IsSequence(bs[1].fields)
  PROVE  SourceDenotes(compiled.nodes, WithReplacedIndices(compiled.mapping, x), bs)
<1> DEFINE new == WithReplacedIndices(compiled.mapping, x)
           b   == translateMessageBuilderExpressionNodes(compiled.mapping, x.builder)
<1>1. new = [x EXCEPT !.builder = b]
  BY Zenon DEF WithReplacedIndices
<1>2. bs # <<>> => BuilderDenotes(compiled.nodes, b, bs[1])
  BY BuilderReplacedDenotes DEF SourceFollows
<1>3. ASSUME bs = <<>>
      PROVE  DOMAIN b = {"given", "type", "dotted", "fields"} /\ DOMAIN b.fields = {}
  <2>1. DOMAIN x.builder = {"given", "type", "dotted", "fields"} /\ x.builder.fields = <<>>
    BY <1>3 DEF SourceFollows
  <2>2. FieldsReplaced(b, compiled.mapping, x.builder)
    BY <2>1, BuilderReplaced
  <2> QED
    BY <2>1, <2>2, EmptyFacts DEF FieldsReplaced
<1> HIDE DEF new, b
<1>4. DOMAIN new = DOMAIN x /\ new.builder = b /\ new.type = x.type
  BY <1>1 DEF SourceFollows
<1>5. SourceDenotes(compiled.nodes, new, bs)
  BY <1>2, <1>3, <1>4 DEF SourceDenotes, SourceFollows
<1> QED
  BY <1>5 DEF new

LEMMA ReportReplaced ==
  ASSUME NEW es, NEW compiled, NEW x, NEW r, IsCompiled(es, compiled), ReportFollows(es, x, r),
         IsSequence(r.builder.fields)
  PROVE  ReportDenotes(compiled.nodes, WithReplacedIndices(compiled.mapping, x), r)
<1> DEFINE new == WithReplacedIndices(compiled.mapping, x)
           b   == translateMessageBuilderExpressionNodes(compiled.mapping, x.builder)
<1>1. new = [x EXCEPT !.builder = b]
  BY Zenon DEF WithReplacedIndices
<1>2. BuilderDenotes(compiled.nodes, b, r.builder)
  BY BuilderReplacedDenotes DEF ReportFollows
<1> HIDE DEF new, b
<1>3. DOMAIN new = DOMAIN x /\ new.builder = b
  BY <1>1 DEF ReportFollows
<1>4. ReportDenotes(compiled.nodes, new, r)
  BY <1>2, <1>3 DEF ReportDenotes, ReportFollows
<1> QED
  BY <1>4 DEF new

LEMMA RequestedIsBuilder ==
  ASSUME IsRequest(req), NEW i \in 1 .. NP + ND + NA, RequestedBuilders[i] # <<>>
  PROVE  /\ HasExpressions(RequestedBuilders[i][1])
         /\ \A b \in Range(RequestedBuilders[i]) : b = RequestedBuilders[i][1]
<1> DEFINE bs == RequestedBuilders[i]
<1> SUFFICES ASSUME NEW b, bs = <<b>>, HasExpressions(b)
             PROVE  HasExpressions(bs[1]) /\ \A x \in Range(bs) : x = bs[1]
  <2>0. NP \in Nat /\ ND \in Nat /\ NA \in Nat
    BY Lengths
  <2>1. CASE i \in 1 .. NP
    <3> DEFINE p == req.publishers[i]
    <3>1. bs = PublisherBuilder(p)
      BY <2>1, Requested
    <3>2. p \in Range(req.publishers)
      BY <2>1, Lengths, RangeMember
    <3> HIDE DEF p
    <3>3. p.aggregation # <<>> /\ bs = <<p.aggregation[1].builder>>
      BY <3>1 DEF PublisherBuilder
    <3>4. IsSequence(p.aggregation) /\ \A a \in Range(p.aggregation) : HasExpressions(a.builder)
      BY <3>2 DEF IsRequest
    <3>5. 1 \in DOMAIN p.aggregation
      BY <3>3, <3>4, SeqFacts, EmptyOnly
    <3>6. HasExpressions(p.aggregation[1].builder)
      BY <3>4, <3>5, RangeMember
    <3> QED
      BY <3>3, <3>6
  <2>2. CASE i \in NP + 1 .. NP + ND
    <3>1. i - NP \in 1 .. ND /\ NP + (i - NP) = i
      BY <2>0, <2>2
    <3>2. bs = <<>>
      BY <3>1, Requested
    <3> QED
      BY <3>2
  <2>3. CASE i \in NP + ND + 1 .. NP + ND + NA
    <3> DEFINE j == i - (NP + ND)
               a == req.aggregators[j]
    <3>1. j \in 1 .. NA /\ NP + ND + j = i
      BY <2>0, <2>3
    <3> HIDE DEF j
    <3>2. bs = <<a.builder>>
      BY <3>1, Requested
    <3>3. a \in Range(req.aggregators)
      BY <3>1, Lengths, RangeMember
    <3> HIDE DEF a
    <3>4. HasExpressions(a.builder)
      BY <3>3 DEF IsRequest
    <3> QED
      BY <3>2, <3>4
  <2> QED
    BY <2>0, <2>1, <2>2, <2>3
<1>1. DOMAIN bs = {1} /\ bs[1] = b
  OBVIOUS
<1> HIDE DEF bs
<1> QED
  BY <1>1 DEF Range

(* What compileSession makes of a session that follows the request. *)
LEMMA AssembledDenotes ==
  ASSUME IsRequest(req), GoodSession(sess), Followed(sess, NT, NP + ND + NA, NR),
         NEW config, config = Assembled(CompileAll(sess.expressions))
  PROVE  /\ ConfigDenotes(config)
         /\ config.stop = sess.stop /\ config.deactivate = sess.deactivate
         /\ config.descriptors \in {sess.descriptors, <<>>}
<1> DEFINE es == sess.expressions
           compiled == CompileAll(es)
           ts == [i \in DOMAIN sess.triggers |->
                    getTriggersWithReplacedIndices(compiled.mapping, sess.triggers[i])]
           ss == [i \in DOMAIN sess.sources |->
                    WithReplacedIndices(compiled.mapping, sess.sources[i])]
           rs == [i \in DOMAIN sess.reports |->
                    WithReplacedIndices(compiled.mapping, sess.reports[i])]
           NS == NP + ND + NA
<1>1. /\ DOMAIN config = {"uuid", "nodes", "triggers", "sources", "reports", "start", "stop",
                          "deactivate", "descriptors"}
      /\ config.nodes = compiled.nodes /\ config.triggers = ts /\ config.sources = ss
      /\ config.reports = rs /\ config.stop = sess.stop /\ config.deactivate = sess.deactivate
      /\ config.descriptors = IF ParameterOf("no_inference", FALSE) THEN sess.descriptors ELSE <<>>
  <2> HIDE DEF compiled
  <2> QED
    BY Zenon DEF Assembled, compiled
<1>2. IsCompiled(es, compiled)
  BY AllCompiled DEF GoodSession, IsCompiled
<1>3. IsExpression(compiled.nodes)
  BY <1>2 DEF IsCompiled, CompiledSoFar
<1>4. DOMAIN sess.triggers = 1 .. NT /\ DOMAIN sess.sources = 1 .. NS /\ DOMAIN sess.reports = 1 .. NR
  BY SeqFacts DEF GoodSession, Followed, FollowedTriggers, FollowedSources, FollowedReports
<1> HIDE DEF compiled, es
<1>5. DOMAIN ts = 1 .. NT
      /\ \A i \in 1 .. NT : ts[i] = getTriggersWithReplacedIndices(compiled.mapping, sess.triggers[i])
  BY <1>4
<1>6. DOMAIN ss = 1 .. NS
      /\ \A i \in 1 .. NS : ss[i] = WithReplacedIndices(compiled.mapping, sess.sources[i])
  BY <1>4
<1>7. DOMAIN rs = 1 .. NR
      /\ \A i \in 1 .. NR : rs[i] = WithReplacedIndices(compiled.mapping, sess.reports[i])
  BY <1>4
<1> HIDE DEF ts, ss, rs, NS
<1>8. ASSUME NEW i \in 1 .. NT PROVE TriggerDenotes(compiled.nodes, ts[i], req.triggers[i])
  <2>1. TriggerFollows(es, sess.triggers[i], req.triggers[i])
    BY DEF Followed, FollowedTriggers, es
  <2> QED
    BY <1>2, <1>5, <2>1, TriggerReplaced
<1>9. ASSUME NEW i \in 1 .. NS PROVE SourceDenotes(compiled.nodes, ss[i], RequestedBuilders[i])
  <2>1. SourceFollows(es, sess.sources[i], RequestedBuilders[i])
    BY DEF Followed, FollowedSources, es, NS
  <2>2. RequestedBuilders[i] # <<>> => IsSequence(RequestedBuilders[i][1].fields)
    BY RequestedIsBuilder DEF HasExpressions, NS
  <2> QED
    BY <1>2, <1>6, <2>1, <2>2, SourceReplaced
<1>10. ASSUME NEW i \in 1 .. NR PROVE ReportDenotes(compiled.nodes, rs[i], req.report_configs[i])
  <2>1. ReportFollows(es, sess.reports[i], req.report_configs[i])
    BY DEF Followed, FollowedReports, es
  <2>2. IsSequence(req.report_configs[i].builder.fields)
    <3>1. req.report_configs[i] \in Range(req.report_configs)
      BY Lengths, RangeMember
    <3> QED
      BY <3>1 DEF IsRequest, HasExpressions
  <2> QED
    BY <1>2, <1>7, <2>1, <2>2, ReportReplaced
<1>11. ConfigDenotes(config)
  BY <1>1, <1>3, <1>5, <1>6, <1>7, <1>8, <1>9, <1>10 DEF ConfigDenotes, NS
<1> QED
  BY <1>1, <1>11

-----------------------------------------------------------------------------
(* Inference changes the types of builders only. *)

\* more has the nodes of nodes, but for the types of builders.
SameNodes(nodes, more) ==
  /\ DOMAIN more = DOMAIN nodes /\ Len(more) = Len(nodes)
  /\ \A i \in DOMAIN nodes :
       /\ more[i].type = nodes[i].type /\ more[i].names = nodes[i].names
       /\ more[i].args = nodes[i].args
       /\ nodes[i].type # "builder" => more[i].name = nodes[i].name

\* The items denote in more what they denote in nodes.
Carries(nodes, more) == \A index, e : Denoted(nodes, index, e) => Denoted(more, index, e)

LEMMA NodeRetyped ==
  ASSUME NEW nodes, IsExpression(nodes), NEW k \in DOMAIN nodes, nodes[k].type = "builder",
         NEW x, NEW more, more = [nodes EXCEPT ![k].name = x]
  PROVE  IsExpression(more) /\ SameNodes(nodes, more) /\ Carries(nodes, more)
<1> DEFINE n == Len(nodes)
<1>1. /\ n \in Nat /\ DOMAIN nodes = 1 .. n /\ \A i \in 1 .. n : DOMAIN nodes[i] = NodeFields
      /\ IsSequence(nodes)
  BY ExpressionFacts DEF IsExpression
<1>2. more = [i \in 1 .. n |-> more[i]] /\ DOMAIN more = 1 .. n
  BY <1>1
<1> HIDE DEF n
<1>f. \A f : f = [i \in 1 .. n |-> f[i]] => IsSequence(f) /\ Len(f) = n
  BY <1>1, FunctionIsSeq
<1>3. IsSequence(more) /\ Len(more) = n
  BY <1>2, <1>f, Zenon
<1>4. ASSUME NEW i \in 1 .. n
      PROVE  /\ DOMAIN more[i] = NodeFields
             /\ more[i].type = nodes[i].type /\ more[i].names = nodes[i].names
             /\ more[i].value = nodes[i].value /\ more[i].args = nodes[i].args
             /\ nodes[i].type # "builder" => more[i].name = nodes[i].name
  <2>1. CASE i = k
    <3>1. more[i] = [nodes[i] EXCEPT !.name = x]
      BY <1>1, <2>1
    <3> QED
      BY <1>1, <2>1, <3>1 DEF NodeFields
  <2>2. CASE i # k
    <3>1. more[i] = nodes[i]
      BY <1>1, <2>2
    <3> QED
      BY <1>1, <3>1
  <2> QED
    BY <2>1, <2>2
<1>5. \A i \in 1 .. n : nodes[i].args \in Seq(1 .. i - 1) /\ HasShape(nodes[i])
  BY <1>1, Zenon DEF IsExpression
<1>6. \A i \in 1 .. n : more[i].args \in Seq(1 .. i - 1) /\ HasShape(more[i])
  BY <1>4, <1>5 DEF HasShape
<1>7. IsExpression(more)
  BY <1>2, <1>3, <1>4, <1>6, Zenon DEF IsExpression, NodeFields
<1>8. ASSUME NEW at, NEW e, Embeds(nodes, at, e, Len(e)) PROVE Embeds(more, at, e, Len(e))
  <2> SUFFICES ASSUME NEW j \in 1 .. Len(e)
               PROVE  at[j] \in 1 .. Len(more) /\ Stands(more[at[j]], e[j], at)
    BY DEF Embeds
  <2>1. at[j] \in 1 .. n /\ Stands(nodes[at[j]], e[j], at)
    BY <1>8 DEF Embeds, n
  <2> QED
    BY <1>3, <1>4, <2>1 DEF Stands
<1>9. \A index, e : Denoted(nodes, index, e) => Denoted(more, index, e)
  BY <1>8 DEF Denoted
<1>10. SameNodes(nodes, more)
  BY <1>1, <1>2, <1>3, <1>4 DEF SameNodes, n
<1> QED
  BY <1>7, <1>9, <1>10 DEF Carries

\* y differs from x only in the type of its builder.
Alike(x, y) ==
  /\ DOMAIN y = DOMAIN x /\ \A f \in DOMAIN x \ {"builder"} : y[f] = x[f]
  /\ DOMAIN y.builder = DOMAIN x.builder
  /\ y.builder.fields = x.builder.fields

LEMMA BuilderCarried ==
  ASSUME NEW nodes, NEW more, Carries(nodes, more), NEW b, NEW r, BuilderDenotes(nodes, b, r)
  PROVE  BuilderDenotes(more, b, r)
  BY DEF BuilderDenotes, FieldDenotes, IndexDenotes, Carries

LEMMA BuilderAlike ==
  ASSUME NEW nodes, NEW b, NEW c, NEW r, DOMAIN c = DOMAIN b, c.fields = b.fields,
         BuilderDenotes(nodes, b, r)
  PROVE  BuilderDenotes(nodes, c, r)
  BY DEF BuilderDenotes

LEMMA SourceCarried ==
  ASSUME NEW nodes, NEW more, Carries(nodes, more), NEW x, NEW y, Alike(x, y), NEW bs,
         SourceDenotes(nodes, x, bs)
  PROVE  SourceDenotes(more, y, bs)
<1>1. bs # <<>> => BuilderDenotes(more, y.builder, bs[1])
  BY BuilderCarried, BuilderAlike DEF SourceDenotes, Alike
<1>2. y.type = x.type
  BY DEF SourceDenotes, Alike
<1> QED
  BY <1>1, <1>2 DEF SourceDenotes, Alike

LEMMA ReportCarried ==
  ASSUME NEW nodes, NEW more, Carries(nodes, more), NEW x, NEW y, Alike(x, y), NEW r,
         ReportDenotes(nodes, x, r)
  PROVE  ReportDenotes(more, y, r)
<1>1. BuilderDenotes(more, y.builder, r.builder)
  BY BuilderCarried, BuilderAlike DEF ReportDenotes, Alike
<1> QED
  BY <1>1 DEF ReportDenotes, Alike

\* d is c with other types.
Retyped(c, d) ==
  /\ DOMAIN d = DOMAIN c
  /\ IsExpression(d.nodes) /\ Carries(c.nodes, d.nodes) /\ SameNodes(c.nodes, d.nodes)
  /\ d.triggers = c.triggers
  /\ DOMAIN d.sources = DOMAIN c.sources
  /\ \A i \in DOMAIN c.sources : Alike(c.sources[i], d.sources[i])
  /\ DOMAIN d.reports = DOMAIN c.reports
  /\ \A i \in DOMAIN c.reports : Alike(c.reports[i], d.reports[i])
  /\ d.stop = c.stop /\ d.deactivate = c.deactivate /\ d.descriptors = c.descriptors

LEMMA ConfigRetyped ==
  ASSUME NEW c, NEW d, ConfigDenotes(c), Retyped(c, d)
  PROVE  ConfigDenotes(d)
<1>1. \A i \in 1 .. NT : TriggerDenotes(d.nodes, d.triggers[i], req.triggers[i])
  BY DEF ConfigDenotes, Retyped, TriggerDenotes, IndexDenotes, Carries
<1>2. \A i \in 1 .. NP + ND + NA : SourceDenotes(d.nodes, d.sources[i], RequestedBuilders[i])
  BY SourceCarried DEF ConfigDenotes, Retyped
<1>3. \A i \in 1 .. NR : ReportDenotes(d.nodes, d.reports[i], req.report_configs[i])
  BY ReportCarried DEF ConfigDenotes, Retyped
<1> QED
  BY <1>1, <1>2, <1>3 DEF ConfigDenotes, Retyped

LEMMA CarriesItself == ASSUME NEW nodes PROVE Carries(nodes, nodes) /\ SameNodes(nodes, nodes)
  BY DEF Carries, SameNodes

LEMMA AlikeItself == ASSUME NEW x PROVE Alike(x, x)
  BY DEF Alike

LEMMA TypingAlike ==
  ASSUME NEW x, NEW type, {"builder"} \subseteq DOMAIN x,
         DOMAIN x.builder = {"given", "type", "dotted", "fields"}, NEW y,
         y = [x EXCEPT !.builder = Typing(x.builder, type)]
  PROVE  Alike(x, y)
<1> DEFINE b == Typing(x.builder, type)
<1>1. DOMAIN b = DOMAIN x.builder /\ b.fields = x.builder.fields
  BY DEF Typing
<1> HIDE DEF b
<1>2. y.builder = b /\ DOMAIN y = DOMAIN x /\ \A f \in DOMAIN x \ {"builder"} : y[f] = x[f]
  BY DEF b
<1> QED
  BY <1>1, <1>2 DEF Alike

(* What the inference graph has of expression nodes are builders. *)
LEMMA GraphBuilders ==
  ASSUME NEW n \in InferenceNodes, n.node # 0
  PROVE  IsBuilder(n.node)
<1> DEFINE declared == {SourceName(s.name) : s \in Range(mc.sources)}
             \cup {MessageBuilderNode(i) : i \in {i \in DOMAIN mc.nodes : IsBuilder(i)}}
<1>1. \A i, name : MessageBuilderNode(i).node = i /\ SourceName(name).node = 0
  BY DEF MessageBuilderNode, SourceName
<1>2. ASSUME NEW root, n \in findDeps(root) PROVE IsBuilder(n.node)
  <2>1. (\E i : IsBuilder(i) /\ n = MessageBuilderNode(i)) \/ \E name : n = SourceName(name)
    BY <1>2 DEF findDeps
  <2> QED
    BY <1>1, <2>1
<1>3. n \in declared \/ \E m : n \in InferenceDeps(m)
  BY Zenon DEF InferenceNodes
<1>4. CASE n \in declared
  BY <1>1, <1>4
<1>5. CASE \E m : n \in InferenceDeps(m)
  <2>1. \E root : n \in findDeps(root)
    BY <1>5, Zenon DEF InferenceDeps
  <2> QED
    BY <1>2, <2>1
<1> QED
  BY <1>3, <1>4, <1>5

LEMMA BuilderFields ==
  ASSUME ConfigDenotes(mc), IsRequest(req)
  PROVE  /\ \A k \in DOMAIN mc.sources :
              /\ {"builder"} \subseteq DOMAIN mc.sources[k]
              /\ DOMAIN mc.sources[k].builder = {"given", "type", "dotted", "fields"}
              /\ IsFiniteSet(DOMAIN mc.sources[k].builder.fields)
         /\ \A k \in DOMAIN mc.reports :
              /\ {"builder"} \subseteq DOMAIN mc.reports[k]
              /\ DOMAIN mc.reports[k].builder = {"given", "type", "dotted", "fields"}
              /\ IsFiniteSet(DOMAIN mc.reports[k].builder.fields)
<1>1. ASSUME NEW k \in DOMAIN mc.sources
      PROVE  /\ {"builder"} \subseteq DOMAIN mc.sources[k]
             /\ DOMAIN mc.sources[k].builder = {"given", "type", "dotted", "fields"}
             /\ IsFiniteSet(DOMAIN mc.sources[k].builder.fields)
  <2>1. SourceDenotes(mc.nodes, mc.sources[k], RequestedBuilders[k])
    BY DEF ConfigDenotes
  <2> QED
    BY <2>1, FS_EmptySet DEF SourceDenotes, BuilderDenotes
<1>2. ASSUME NEW k \in DOMAIN mc.reports
      PROVE  /\ {"builder"} \subseteq DOMAIN mc.reports[k]
             /\ DOMAIN mc.reports[k].builder = {"given", "type", "dotted", "fields"}
             /\ IsFiniteSet(DOMAIN mc.reports[k].builder.fields)
  <2>1. ReportDenotes(mc.nodes, mc.reports[k], req.report_configs[k])
    BY DEF ConfigDenotes
  <2> QED
    BY <2>1 DEF ReportDenotes, BuilderDenotes
<1> QED
  BY <1>1, <1>2

ConfigFields ==
  {"uuid", "nodes", "triggers", "sources", "reports", "start", "stop", "deactivate", "descriptors"}

LEMMA NodeTyped ==
  ASSUME ConfigDenotes(mc), NEW k, IsBuilder(k), NEW x, NEW d, d = [mc EXCEPT !.nodes[k].name = x]
  PROVE  Retyped(mc, d)
<1>1. DOMAIN mc = ConfigFields /\ IsExpression(mc.nodes) /\ k \in DOMAIN mc.nodes
      /\ mc.nodes[k].type = "builder"
  BY DEF ConfigDenotes, ConfigFields, IsBuilder
<1> DEFINE more == [mc.nodes EXCEPT ![k].name = x]
<1>m. more = [mc.nodes EXCEPT ![k].name = x]
  OBVIOUS
<1> HIDE DEF more
<1>2. IsExpression(more) /\ SameNodes(mc.nodes, more) /\ Carries(mc.nodes, more)
  BY <1>1, <1>m, NodeRetyped
<1>3. d = [mc EXCEPT !.nodes = more]
  BY DEF more
<1>4. /\ DOMAIN d = DOMAIN mc /\ d.nodes = more /\ d.triggers = mc.triggers
      /\ d.sources = mc.sources /\ d.reports = mc.reports
      /\ d.stop = mc.stop /\ d.deactivate = mc.deactivate /\ d.descriptors = mc.descriptors
  BY <1>1, <1>3 DEF ConfigFields
<1> QED
  BY <1>2, <1>4, AlikeItself DEF Retyped

LEMMA SourceTyped ==
  ASSUME IsRequest(req), ConfigDenotes(mc), NEW k \in DOMAIN mc.sources, NEW type,
         NEW d, d = [mc EXCEPT !.sources[k].builder = Typing(@, type)]
  PROVE  Retyped(mc, d)
<1>1. DOMAIN mc = ConfigFields /\ IsExpression(mc.nodes)
  BY DEF ConfigDenotes, ConfigFields
<1> DEFINE y  == [mc.sources[k] EXCEPT !.builder = Typing(mc.sources[k].builder, type)]
           ss == [mc.sources EXCEPT ![k] = y]
<1>2. Alike(mc.sources[k], y)
  BY BuilderFields, TypingAlike
<1>3. d = [mc EXCEPT !.sources = ss]
  OBVIOUS
<1> HIDE DEF y
<1>4. /\ DOMAIN ss = DOMAIN mc.sources
      /\ \A i \in DOMAIN mc.sources : ss[i] = IF i = k THEN y ELSE mc.sources[i]
  OBVIOUS
<1> HIDE DEF ss
<1>5. /\ DOMAIN d = DOMAIN mc /\ d.nodes = mc.nodes /\ d.triggers = mc.triggers
      /\ d.sources = ss /\ d.reports = mc.reports
      /\ d.stop = mc.stop /\ d.deactivate = mc.deactivate /\ d.descriptors = mc.descriptors
  BY <1>1, <1>3 DEF ConfigFields
<1>6. \A i \in DOMAIN mc.sources : Alike(mc.sources[i], ss[i])
  BY <1>2, <1>4, AlikeItself
<1> QED
  BY <1>1, <1>4, <1>5, <1>6, AlikeItself, CarriesItself DEF Retyped

LEMMA ReportTyped ==
  ASSUME IsRequest(req), ConfigDenotes(mc), NEW k \in DOMAIN mc.reports, NEW type,
         NEW d, d = [mc EXCEPT !.reports[k].builder = Typing(@, type)]
  PROVE  Retyped(mc, d)
<1>1. DOMAIN mc = ConfigFields /\ IsExpression(mc.nodes)
  BY DEF ConfigDenotes, ConfigFields
<1> DEFINE y  == [mc.reports[k] EXCEPT !.builder = Typing(mc.reports[k].builder, type)]
           rs == [mc.reports EXCEPT ![k] = y]
<1>2. Alike(mc.reports[k], y)
  BY BuilderFields, TypingAlike
<1>3. d = [mc EXCEPT !.reports = rs]
  OBVIOUS
<1> HIDE DEF y
<1>4. /\ DOMAIN rs = DOMAIN mc.reports
      /\ \A i \in DOMAIN mc.reports : rs[i] = IF i = k THEN y ELSE mc.reports[i]
  OBVIOUS
<1> HIDE DEF rs
<1>5. /\ DOMAIN d = DOMAIN mc /\ d.nodes = mc.nodes /\ d.triggers = mc.triggers
      /\ d.sources = mc.sources /\ d.reports = rs
      /\ d.stop = mc.stop /\ d.deactivate = mc.deactivate /\ d.descriptors = mc.descriptors
  BY <1>1, <1>3 DEF ConfigFields
<1>6. \A i \in DOMAIN mc.reports : Alike(mc.reports[i], rs[i])
  BY <1>2, <1>4, AlikeItself
<1> QED
  BY <1>1, <1>4, <1>5, <1>6, AlikeItself, CarriesItself DEF Retyped

(* A step of the inference. *)
LEMMA InferenceRetypes ==
  ASSUME IsRequest(req), ConfigDenotes(mc), InferNext
  PROVE  Retyped(mc, mc')
<1>1. ASSUME NEW n \in InferenceNodes, InferNode(n) PROVE Retyped(mc, mc')
  <2>1. CASE /\ n.node # 0
             /\ \E built \in {processExpressionNodeMessageBuilder(n.node)} :
                  mc' = [mc EXCEPT !.nodes[n.node].name = built.type]
    BY <2>1, GraphBuilders, NodeTyped
  <2>2. CASE mc' = mc
    BY <2>2, AlikeItself, CarriesItself DEF Retyped, ConfigDenotes
  <2>3. CASE \E k \in Aggregators(n.source) :
               \E built \in {processMessageBuilder(n, n.source, mc.sources[k].builder)} :
                 mc' = [mc EXCEPT !.sources[k].builder = Typing(@, built.type)]
    <3>0. PICK k \in Aggregators(n.source) :
            \E built : mc' = [mc EXCEPT !.sources[k].builder = Typing(@, built.type)]
      BY <2>3
    <3>1. PICK built : mc' = [mc EXCEPT !.sources[k].builder = Typing(@, built.type)]
      BY <3>0
    <3>2. k \in DOMAIN mc.sources
      BY DEF Aggregators
    <3> QED
      BY <3>1, <3>2, SourceTyped
  <2> QED
    BY <1>1, <2>1, <2>2, <2>3, Zenon DEF InferNode
<1>2. ASSUME NEW r \in DOMAIN mc.reports, InferReport(r) PROVE Retyped(mc, mc')
  <2>1. PICK built : mc' = [mc EXCEPT !.reports[r].builder = Typing(@, built.type)]
    BY <1>2, Zenon DEF InferReport
  <2> QED
    BY <2>1, ReportTyped
<1> QED
  BY <1>1, <1>2, Zenon DEF InferNext

-----------------------------------------------------------------------------
(* The invariant of a request, stage by stage. *)

\* ToSession takes the canonical name of two, or the deprecated one for the hints.
Chosen(s) ==
  /\ s.stop = IF req.stop # "" THEN req.stop ELSE req.end
  /\ s.deactivate = IF req.deactivate # "" THEN req.deactivate ELSE req.finish
  /\ s.hints = IF req.service_type_hints # <<>> THEN req.service_type_hints
               ELSE req.data_source_message_types

SessionInv ==
  /\ IsRequest(req) /\ IsFileSet(Parsed)
  /\ ErrsOK(errs)
  /\ req.endpoint = "compile" /\ stage \notin {"received", "answered"} => ValidateSchemaConsistency
  /\ (stage = "received" /\ req.endpoint = "compile") \/ stage \in {"signals", "descriptors"} =>
       GoodSession(sess) /\ Followed(sess, 0, 0, 0)
  /\ stage = "triggers"       => DoneGood(sess, errs, 0, 0, 0)
  /\ stage = "publishers"     => DoneGood(sess, errs, NT, 0, 0)
  /\ stage = "data_sources"   => DoneGood(sess, errs, NT, NP, 0)
  /\ stage = "aggregators"    => DoneGood(sess, errs, NT, NP + ND, 0)
  /\ stage = "report_configs" => DoneGood(sess, errs, NT, NP + ND + NA, 0)
  /\ stage = "session"        => DoneGood(sess, errs, NT, NP + ND + NA, NR)
  /\ stage = "compile" =>
       GoodSession(sess) /\ Followed(sess, NT, NP + ND + NA, NR) /\ Chosen(sess)
  /\ UnderWay =>
       /\ ConfigDenotes(mc) /\ Chosen(sess)
       /\ mc.stop = sess.stop /\ mc.deactivate = sess.deactivate

LEMMA SameRequest ==
  ASSUME req' = req
  PROVE  /\ NT' = NT /\ NP' = NP /\ ND' = ND /\ NA' = NA /\ NR' = NR
         /\ RequestedBuilders' = RequestedBuilders /\ Parsed' = Parsed
  BY DEF NT, NP, ND, NA, NR, RequestedBuilders, Parsed

LEMMA FollowedNext ==
  ASSUME req' = req
  PROVE  /\ Followed(sess, 0, 0, 0)' <=> Followed(sess', 0, 0, 0)
         /\ Followed(sess, NT, NP + ND + NA, NR)' <=> Followed(sess', NT, NP + ND + NA, NR)
  BY SameRequest DEF Followed, FollowedTriggers, FollowedSources, FollowedReports

LEMMA ErrsNext == ASSUME req' = req PROVE ErrsOK(errs)' <=> ErrsOK(errs')
  BY DEF ErrsOK

LEMMA DoneNext ==
  ASSUME req' = req
  PROVE  /\ DoneGood(sess, errs, 0, 0, 0)' <=> DoneGood(sess', errs', 0, 0, 0)
         /\ DoneGood(sess, errs, NT, 0, 0)' <=> DoneGood(sess', errs', NT, 0, 0)
         /\ DoneGood(sess, errs, NT, NP, 0)' <=> DoneGood(sess', errs', NT, NP, 0)
         /\ DoneGood(sess, errs, NT, NP + ND, 0)' <=> DoneGood(sess', errs', NT, NP + ND, 0)
         /\ DoneGood(sess, errs, NT, NP + ND + NA, 0)'
              <=> DoneGood(sess', errs', NT, NP + ND + NA, 0)
         /\ DoneGood(sess, errs, NT, NP + ND + NA, NR)'
              <=> DoneGood(sess', errs', NT, NP + ND + NA, NR)
  BY SameRequest, ErrsNext DEF DoneGood, Followed, FollowedTriggers, FollowedSources, FollowedReports

LEMMA ConfigNext == ASSUME req' = req PROVE ConfigDenotes(mc)' <=> ConfigDenotes(mc')
  BY SameRequest DEF ConfigDenotes

LEMMA SchemaNext ==
  ASSUME req' = req
  PROVE  /\ ValidateSchemaConsistency' <=> ValidateSchemaConsistency
         /\ Chosen(sess)' <=> Chosen(sess')
  BY DEF ValidateSchemaConsistency, CanonicalFields, DeprecatedFields, Chosen

(* Steps that leave the request, its session and the configuration alone. *)
LEMMA SessionInvStays ==
  ASSUME SessionInv, UNCHANGED <<req, sess, errs, mc>>,
         \/ stage' \in {stage, "answered"}
         \/ stage = "received" /\ stage' = "signals" /\ req.endpoint = "compile"
            /\ ValidateSchemaConsistency
         \/ stage \in {"infer", "harvest", "prune", "shaken", "compiled"}
            /\ stage' \in {"harvest", "prune", "shaken", "compiled", "validate"}
  PROVE  SessionInv'
<1> USE SameRequest, FollowedNext, ErrsNext, DoneNext, ConfigNext, SchemaNext DEF SessionInv, UnderWay
<1>1. CASE stage' = stage
  BY <1>1
<1>2. CASE stage' = "answered"
  BY <1>2
<1>3. CASE stage = "received" /\ stage' = "signals" /\ req.endpoint = "compile"
           /\ ValidateSchemaConsistency
  BY <1>3
<1>4. CASE stage \in {"infer", "harvest", "prune", "shaken", "compiled"}
           /\ stage' \in {"harvest", "prune", "shaken", "compiled", "validate"}
  BY <1>4
<1> QED
  BY <1>1, <1>2, <1>3, <1>4

LEMMA InitSession == ASSUME Init PROVE SessionInv
<1>1. IsRequest(req) /\ IsFileSet(Parsed)
  BY RequestsAssumption DEF Init, FileSetsOf, Parsed
<1>2. /\ DOMAIN sess = {"triggers", "sources", "reports", "expressions", "start", "stop",
                        "deactivate", "hints", "descriptors"}
      /\ sess.triggers = <<>> /\ sess.sources = <<>> /\ sess.reports = <<>>
      /\ sess.expressions = <<>> /\ sess.descriptors = <<>>
  BY DEF Init
<1>3. stage = "received" /\ errs = {}
  BY DEF Init
<1>4. GoodSession(sess)
  BY <1>2, EmptyFacts, NoFiles DEF GoodSession
<1>5. Followed(sess, 0, 0, 0)
  BY <1>2, EmptyFacts DEF Followed, FollowedTriggers, FollowedSources, FollowedReports
<1> QED
  BY <1>1, <1>3, <1>4, <1>5 DEF SessionInv, ErrsOK, UnderWay

LEMMA ParsingSession ==
  ASSUME SessionInv,
         \/ parseTriggers \/ parseDeprecatedSources \/ parseDataSources \/ parseAggregators
         \/ parseReportConfigs
  PROVE  SessionInv'
<1>0. req' = req /\ IsRequest(req)
  <2>1. req' = req
    BY DEF parseTriggers, parseDeprecatedSources, parseDataSources, parseAggregators,
           parseReportConfigs, Parsing
  <2> QED
    BY <2>1 DEF SessionInv
<1> USE SameRequest, FollowedNext, ErrsNext, DoneNext, SchemaNext
<1>1. CASE parseTriggers
  <2>1. stage = "triggers" /\ stage' = "publishers"
    BY <1>1 DEF parseTriggers, Parsing
  <2>2. DoneGood(sess', errs', NT, 0, 0)
    BY <1>0, <1>1, <2>1, TriggersParsed DEF SessionInv
  <2>3. ErrsOK(errs')
    BY <2>2 DEF DoneGood
  <2> QED
    BY <1>0, <2>1, <2>2, <2>3 DEF SessionInv, UnderWay
<1>2. CASE parseDeprecatedSources
  <2>1. stage = "publishers" /\ stage' = "data_sources"
    BY <1>2 DEF parseDeprecatedSources, Parsing
  <2>2. DoneGood(sess', errs', NT, NP, 0)
    BY <1>0, <1>2, <2>1, PublishersParsed DEF SessionInv
  <2>3. ErrsOK(errs')
    BY <2>2 DEF DoneGood
  <2> QED
    BY <1>0, <2>1, <2>2, <2>3 DEF SessionInv, UnderWay
<1>3. CASE parseDataSources
  <2>1. stage = "data_sources" /\ stage' = "aggregators"
    BY <1>3 DEF parseDataSources, Parsing
  <2>2. DoneGood(sess', errs', NT, NP + ND, 0)
    BY <1>0, <1>3, <2>1, DataSourcesParsed DEF SessionInv
  <2>3. ErrsOK(errs')
    BY <2>2 DEF DoneGood
  <2> QED
    BY <1>0, <2>1, <2>2, <2>3 DEF SessionInv, UnderWay
<1>4. CASE parseAggregators
  <2>1. stage = "aggregators" /\ stage' = "report_configs"
    BY <1>4 DEF parseAggregators, Parsing
  <2>2. DoneGood(sess', errs', NT, NP + ND + NA, 0)
    BY <1>0, <1>4, <2>1, AggregatorsParsed DEF SessionInv
  <2>3. ErrsOK(errs')
    BY <2>2 DEF DoneGood
  <2> QED
    BY <1>0, <2>1, <2>2, <2>3 DEF SessionInv, UnderWay
<1>5. CASE parseReportConfigs
  <2>1. stage = "report_configs" /\ stage' = "session"
    BY <1>5 DEF parseReportConfigs, Parsing
  <2>2. DoneGood(sess', errs', NT, NP + ND + NA, NR)
    BY <1>0, <1>5, <2>1, ReportsParsed DEF SessionInv
  <2>3. ErrsOK(errs')
    BY <2>2 DEF DoneGood
  <2> QED
    BY <1>0, <2>1, <2>2, <2>3 DEF SessionInv, UnderWay
<1> QED
  BY <1>1, <1>2, <1>3, <1>4, <1>5

(* The lists and expressions are what the session is followed by. *)
LEMMA OtherFields ==
  ASSUME NEW s, NEW t, GoodSession(s), DOMAIN t = DOMAIN s, t.triggers = s.triggers,
         t.sources = s.sources, t.reports = s.reports, t.expressions = s.expressions,
         IsFileSet(t.descriptors)
  PROVE  /\ GoodSession(t)
         /\ \A nt, ns, nr : Followed(s, nt, ns, nr) => Followed(t, nt, ns, nr)
<1>1. GoodSession(t)
  BY DEF GoodSession
<1>2. \A nt, ns, nr : Followed(s, nt, ns, nr) => Followed(t, nt, ns, nr)
  BY DEF Followed, FollowedTriggers, FollowedSources, FollowedReports
<1> QED
  BY <1>1, <1>2

LEMMA BuildingSession ==
  ASSUME SessionInv, extendRegistryWithCustomDescriptors \/ RegistryExtended \/ FinishSession
  PROVE  SessionInv'
<1>0. req' = req /\ IsRequest(req)
  BY DEF SessionInv, extendRegistryWithCustomDescriptors, RegistryExtended, FinishSession
<1> USE SameRequest, FollowedNext, ErrsNext, DoneNext, SchemaNext
<1>1. CASE extendRegistryWithCustomDescriptors
  <2>1. /\ stage = "signals" /\ stage' = "descriptors" /\ sess' = sess /\ mc' = mc
        /\ errs' = {[list |-> "descriptor_protos", item |-> i] :
                      i \in {i \in DOMAIN req.descriptor_protos : ~req.descriptor_protos[i].parses}}
    BY <1>1 DEF extendRegistryWithCustomDescriptors
  <2>2. ErrsOK(errs')
    BY <2>1 DEF ErrsOK, ItemLists
  <2>3. GoodSession(sess) /\ Followed(sess, 0, 0, 0)
    BY <2>1 DEF SessionInv
  <2> QED
    BY <1>0, <2>1, <2>2, <2>3 DEF SessionInv, UnderWay
<1>2. CASE RegistryExtended
  <2>1. stage = "descriptors" /\ errs' = errs /\ GoodSession(sess) /\ Followed(sess, 0, 0, 0)
    BY <1>2 DEF SessionInv, RegistryExtended
  <2>2. CASE stage' = "answered"
    BY <1>0, <2>1, <2>2 DEF SessionInv, UnderWay
  <2>3. CASE errs = {} /\ stage' = "triggers" /\ sess' = [sess EXCEPT !.descriptors = Parsed]
    <3>1. /\ DOMAIN sess' = DOMAIN sess /\ sess'.triggers = sess.triggers
          /\ sess'.sources = sess.sources /\ sess'.reports = sess.reports
          /\ sess'.expressions = sess.expressions /\ sess'.descriptors = Parsed
      BY <2>1, <2>3 DEF GoodSession
    <3>2. GoodSession(sess') /\ Followed(sess', 0, 0, 0)
      BY <2>1, <3>1, OtherFields DEF SessionInv
    <3>3. DoneGood(sess', errs', 0, 0, 0)
      BY <2>1, <2>3, <3>2 DEF DoneGood, ErrsOK
    <3> QED
      BY <1>0, <2>1, <2>3, <3>3 DEF SessionInv, UnderWay
  <2> QED
    BY <1>2, <2>2, <2>3 DEF RegistryExtended, Answer
<1>3. CASE FinishSession
  <2> DEFINE stop  == IF req.stop # "" THEN req.stop ELSE req.end
             off   == IF req.deactivate # "" THEN req.deactivate ELSE req.finish
             hints == IF req.service_type_hints # <<>> THEN req.service_type_hints
                      ELSE req.data_source_message_types
  <2>1. stage = "session" /\ errs' = errs /\ DoneGood(sess, errs, NT, NP + ND + NA, NR)
    BY <1>3 DEF SessionInv, FinishSession
  <2>2. CASE stage' = "answered"
    BY <1>0, <2>1, <2>2 DEF SessionInv, UnderWay
  <2>3. CASE /\ errs = {} /\ stage' = "compile"
             /\ sess' = [sess EXCEPT !.start = req.start, !.stop = stop, !.deactivate = off,
                                     !.hints = hints]
    <3> HIDE DEF stop, off, hints
    <3>1. GoodSession(sess) /\ Followed(sess, NT, NP + ND + NA, NR)
      BY <2>1, <2>3 DEF DoneGood
    <3>2. /\ DOMAIN sess' = DOMAIN sess /\ sess'.triggers = sess.triggers
          /\ sess'.sources = sess.sources /\ sess'.reports = sess.reports
          /\ sess'.expressions = sess.expressions
          /\ sess'.stop = stop /\ sess'.deactivate = off /\ sess'.hints = hints
          /\ sess'.descriptors = sess.descriptors
      BY <2>3, <3>1 DEF GoodSession
    <3>3. GoodSession(sess') /\ Followed(sess', NT, NP + ND + NA, NR)
      BY <3>1, <3>2, OtherFields DEF GoodSession
    <3>4. Chosen(sess')
      BY <3>2 DEF Chosen, stop, off, hints
    <3> QED
      BY <1>0, <2>1, <2>3, <3>3, <3>4 DEF SessionInv, UnderWay
  <2> QED
    BY <1>3, <2>2, <2>3 DEF FinishSession, Answer
<1> QED
  BY <1>1, <1>2, <1>3

LEMMA ConfiguringSession ==
  ASSUME SessionInv, compileSession \/ InferNext \/ SetDescriptors
  PROVE  SessionInv'
<1>0. req' = req /\ IsRequest(req) /\ sess' = sess /\ errs' = errs
  BY DEF SessionInv, compileSession, InferNext, SetDescriptors
<1> USE SameRequest, FollowedNext, ErrsNext, DoneNext, SchemaNext, ConfigNext
<1>1. CASE stage' = "answered"
  BY <1>0, <1>1 DEF SessionInv, UnderWay
<1>2. CASE compileSession /\ stage' # "answered"
  <2>1. /\ stage = "compile" /\ stage' \in {"compiled", "infer"}
        /\ mc' = Assembled(CompileAll(sess.expressions))
    BY <1>2, Zenon DEF compileSession, Answer
  <2>2. GoodSession(sess) /\ Followed(sess, NT, NP + ND + NA, NR) /\ Chosen(sess)
    BY <2>1 DEF SessionInv
  <2>3. ConfigDenotes(mc') /\ mc'.stop = sess.stop /\ mc'.deactivate = sess.deactivate
    BY <1>0, <2>1, <2>2, AssembledDenotes
  <2> QED
    BY <1>0, <2>1, <2>2, <2>3 DEF SessionInv, UnderWay
<1>3. CASE InferNext
  <2>1. stage = "infer" /\ stage' = "infer"
    BY <1>3 DEF InferNext
  <2>2. CASE req.endpoint = "compile"
    <3>1. /\ ConfigDenotes(mc) /\ Chosen(sess)
          /\ mc.stop = sess.stop /\ mc.deactivate = sess.deactivate
      BY <2>1, <2>2 DEF SessionInv, UnderWay
    <3>2. Retyped(mc, mc')
      BY <1>0, <1>3, <3>1, InferenceRetypes
    <3>3. ConfigDenotes(mc') /\ mc'.stop = mc.stop /\ mc'.deactivate = mc.deactivate
      BY <3>1, <3>2, ConfigRetyped DEF Retyped
    <3> QED
      BY <1>0, <2>1, <3>1, <3>3 DEF SessionInv, UnderWay
  <2>3. CASE req.endpoint # "compile"
    BY <1>0, <2>1, <2>3 DEF SessionInv, UnderWay
  <2> QED
    BY <2>2, <2>3
<1>4. CASE SetDescriptors /\ stage' # "answered"
  <2>1. /\ stage = "shaken" /\ stage' = "compiled"
        /\ mc' = [mc EXCEPT !.descriptors = OutputDescriptors]
    BY <1>4, Zenon DEF SetDescriptors, Answer
  <2>2. CASE req.endpoint = "compile"
    <3>1. /\ ConfigDenotes(mc) /\ Chosen(sess)
          /\ mc.stop = sess.stop /\ mc.deactivate = sess.deactivate
      BY <2>1, <2>2 DEF SessionInv, UnderWay
    <3>2. /\ DOMAIN mc' = DOMAIN mc /\ mc'.nodes = mc.nodes /\ mc'.triggers = mc.triggers
          /\ mc'.sources = mc.sources /\ mc'.reports = mc.reports
          /\ mc'.stop = mc.stop /\ mc'.deactivate = mc.deactivate
      BY <2>1, <3>1 DEF ConfigDenotes
    <3>3. ConfigDenotes(mc')
      BY <3>1, <3>2 DEF ConfigDenotes
    <3> QED
      BY <1>0, <2>1, <3>1, <3>2, <3>3 DEF SessionInv, UnderWay
  <2>3. CASE req.endpoint # "compile"
    BY <1>0, <2>1, <2>3 DEF SessionInv, UnderWay
  <2> QED
    BY <2>2, <2>3
<1> QED
  BY <1>1, <1>2, <1>3, <1>4

(* The lists of a request that is sent back are the ones it had. *)
LEMMA SendingBack ==
  ASSUME SessionInv, ReceiveConfig \/ ValidateCompiled
  PROVE  SessionInv'
<1>1. CASE ReceiveConfig
  <2>1. /\ stage = "received" /\ req.endpoint # "compile" /\ stage' \in {"answered", "validate"}
        /\ req' = req /\ sess' = sess /\ errs' = errs
    BY <1>1 DEF ReceiveConfig, Answer
  <2> QED
    BY <2>1, SameRequest, FollowedNext, ErrsNext, DoneNext, SchemaNext, ConfigNext
       DEF SessionInv, UnderWay
<1>2. CASE ValidateCompiled
  <2> DEFINE text == textprotoMarshal(TextOf(mc), req.version)
  <2>1. /\ stage' = "received" /\ errs' = errs /\ IsRequest(req) /\ ErrsOK(errs)
        /\ req' = [req EXCEPT !.endpoint = "validate", !.config = mc, !.text = text]
    BY <1>2 DEF ValidateCompiled, SessionInv
  <2> HIDE DEF text
  <2>2. /\ DOMAIN req' = DOMAIN req /\ req'.endpoint = "validate" /\ req'.version = req.version
        /\ req'.triggers = req.triggers /\ req'.publishers = req.publishers
        /\ req'.data_sources = req.data_sources /\ req'.aggregators = req.aggregators
        /\ req'.report_configs = req.report_configs
        /\ req'.descriptor_protos = req.descriptor_protos
    BY <2>1 DEF IsRequest
  <2>3. IsRequest(req') /\ Parsed' = Parsed
    BY <2>1, <2>2 DEF IsRequest, Parsed
  <2>4. \A list \in ItemLists : req'[list] = req[list]
    BY <2>2 DEF ItemLists
  <2>5. ErrsOK(errs)'
    BY <2>1, <2>4 DEF ErrsOK, ItemLists
  <2> QED
    BY <2>1, <2>2, <2>3, <2>5 DEF SessionInv, UnderWay
<1> QED
  BY <1>1, <1>2

LEMMA NextSession == ASSUME SessionInv, [Next]_vars PROVE SessionInv'
<1>1. CASE UNCHANGED vars \/ Done
  <2>1. UNCHANGED <<req, sess, errs, mc, stage>>
    BY <1>1 DEF Done, vars
  <2> QED
    BY <2>1, SessionInvStays
<1>2. CASE Receive
  BY <1>2, SessionInvStays DEF Receive, Answer
<1>3. CASE initializeTypeRegistry \/ RegisterNext \/ RegistryFails \/ CyclicDependency \/ Validated
  <2>1. UNCHANGED <<req, sess, errs, mc>> /\ stage' \in {stage, "answered"}
    BY <1>3 DEF initializeTypeRegistry, RegisterNext, RegistryFails, CyclicDependency, Validated, Answer
  <2> QED
    BY <2>1, SessionInvStays
<1>4. CASE InferTriggers \/ HarvestNext \/ HarvestEnds \/ PruneNext \/ PruneEnds \/ Compiled
  <2>1. /\ UNCHANGED <<req, sess, errs, mc>>
        /\ \/ stage' \in {stage, "answered"}
           \/ stage \in {"infer", "harvest", "prune", "shaken", "compiled"}
              /\ stage' \in {"harvest", "prune", "shaken", "compiled", "validate"}
    BY <1>4 DEF InferTriggers, HarvestNext, HarvestEnds, PruneNext, PruneEnds, Compiled, Answer
  <2> QED
    BY <2>1, SessionInvStays
<1>5. CASE \/ parseTriggers \/ parseDeprecatedSources \/ parseDataSources \/ parseAggregators
           \/ parseReportConfigs
  BY <1>5, ParsingSession
<1>6. CASE extendRegistryWithCustomDescriptors \/ RegistryExtended \/ FinishSession
  BY <1>6, BuildingSession
<1>7. CASE compileSession \/ InferNext \/ SetDescriptors
  BY <1>7, ConfiguringSession
<1>8. CASE ReceiveConfig \/ ValidateCompiled
  BY <1>8, SendingBack
<1> QED
  BY <1>1, <1>2, <1>3, <1>4, <1>5, <1>6, <1>7, <1>8, Zenon DEF Next

(* From the arrival of a request on, what ToSession has stashed stands for what   *)
(* the request has, and from compileSession to the answer the configuration's    *)
(* indices denote it, whatever CompileAll merged and inference renumbered.       *)
THEOREM Sessions == Spec => []SessionInv
<1>1. Init => SessionInv
  BY InitSession
<1>2. SessionInv /\ [Next]_vars => SessionInv'
  BY NextSession
<1> QED
  BY <1>1, <1>2, PTL DEF Spec

-----------------------------------------------------------------------------
(* What the configuration is, for every request. *)

LEMMA NothingIsDropped == ASSUME SessionInv PROVE NothingDropped
<1> SUFFICES ASSUME UnderWay PROVE NothingDropped!2
  BY DEF NothingDropped
<1>1. /\ IsRequest(req) /\ ConfigDenotes(mc) /\ Chosen(sess)
      /\ mc.stop = sess.stop /\ mc.deactivate = sess.deactivate
      /\ ValidateSchemaConsistency
  BY DEF SessionInv, UnderWay
<1>2. ~CanonicalFields \/ ~DeprecatedFields
  BY <1>1 DEF ValidateSchemaConsistency, IsRequest
<1>3. /\ req.stop = "" \/ req.end = ""
      /\ req.deactivate = "" \/ req.finish = ""
      /\ req.service_type_hints = <<>> \/ req.data_source_message_types = <<>>
  BY <1>2, Zenon DEF CanonicalFields, DeprecatedFields
<1>4. /\ {req.stop, req.end} \subseteq {"", mc.stop}
      /\ {req.deactivate, req.finish} \subseteq {"", mc.deactivate}
  BY <1>1, <1>3 DEF Chosen
<1>5. \A h \in {req.service_type_hints, req.data_source_message_types} \ {<<>>} : sess.hints = h
  <2>1. sess.hints = IF req.service_type_hints # <<>> THEN req.service_type_hints
                     ELSE req.data_source_message_types
    BY <1>1 DEF Chosen
  <2>2. CASE req.service_type_hints = <<>>
    BY <2>1, <2>2
  <2>3. CASE req.data_source_message_types = <<>>
    BY <2>1, <2>3
  <2> QED
    BY <1>3, <2>2, <2>3
<1>6. ASSUME NEW i \in DOMAIN req.triggers
      PROVE  {req.triggers[i].source, req.triggers[i].publisher} \subseteq {"", mc.triggers[i].source}
  <2> DEFINE t == req.triggers[i]
  <2>1. t \in Range(req.triggers)
    BY RangeMember
  <2>2. t.type # "data" => t.source = "" /\ t.publisher = ""
    BY <1>1, <2>1 DEF IsRequest
  <2>3. t.type = "data" => t.source = "" \/ t.publisher = ""
    BY <1>2, <2>1 DEF CanonicalFields, DeprecatedFields
  <2>4. i \in 1 .. NT
    BY <1>1, Lengths
  <2>5. mc.triggers[i].source = IF t.source # "" THEN t.source ELSE t.publisher
    BY <1>1, <2>4 DEF ConfigDenotes, TriggerDenotes
  <2> QED
    BY <2>2, <2>3, <2>5
<1> QED
  BY <1>4, <1>5, <1>6

(* ToSession keeps every trigger, source and type hint of an accepted request,   *)
(* for every request.                                                            *)
THEOREM KeepsBothNames == Spec => []NothingDropped
  BY Sessions, NothingIsDropped, PTL

LEMMA IndexFollows ==
  ASSUME NEW index, NEW e, IsExpression(mc.nodes), IsExpression(e),
         IndexDenotes(mc.nodes, index, e)
  PROVE  Denotes(index, e) /\ index \in 0 .. Len(mc.nodes)
<1>1. Len(mc.nodes) \in Nat
  BY ExpressionFacts
<1> QED
  BY <1>1, DenotedFacts DEF IndexDenotes, Denotes

LEMMA BuilderFollowsRequest ==
  ASSUME NEW b, NEW r, IsExpression(mc.nodes), HasExpressions(r), BuilderDenotes(mc.nodes, b, r)
  PROVE  /\ FollowsBuilder(b, r)
         /\ \A i \in DOMAIN b.fields : b.fields[i].node \in 0 .. Len(mc.nodes)
<1>1. ASSUME NEW i \in DOMAIN r.fields
      PROVE  /\ b.fields[i].name = r.fields[i].name
             /\ Denotes(b.fields[i].node, r.fields[i].expression)
             /\ b.fields[i].node \in 0 .. Len(mc.nodes)
  <2>1. IsExpression(r.fields[i].expression)
    BY RangeMember DEF HasExpressions
  <2>2. FieldDenotes(mc.nodes, b.fields[i], r.fields[i])
    BY DEF BuilderDenotes
  <2> QED
    BY <2>1, <2>2, IndexFollows DEF FieldDenotes
<1>2. DOMAIN b.fields = DOMAIN r.fields
  BY DEF BuilderDenotes
<1> QED
  BY <1>1, <1>2 DEF FollowsBuilder

LEMMA ExpressionsFollowed == ASSUME SessionInv PROVE FollowsExpressions
<1> SUFFICES ASSUME UnderWay
             PROVE  /\ \A i \in DOMAIN RequestedBuilders : \A b \in Range(RequestedBuilders[i]) :
                         FollowsBuilder(mc.sources[i].builder, b)
                    /\ \A i \in DOMAIN req.report_configs :
                         FollowsBuilder(mc.reports[i].builder, req.report_configs[i].builder)
                    /\ \A i \in DOMAIN req.triggers :
                         /\ Denotes(mc.triggers[i].selector, req.triggers[i].selector)
                         /\ Denotes(mc.triggers[i].initialize, req.triggers[i].initialize)
  BY DEF FollowsExpressions
<1>1. IsRequest(req) /\ ConfigDenotes(mc)
  BY DEF SessionInv
<1>2. IsExpression(mc.nodes)
  BY <1>1 DEF ConfigDenotes
<1>3. ASSUME NEW i \in DOMAIN RequestedBuilders, NEW b \in Range(RequestedBuilders[i])
      PROVE  FollowsBuilder(mc.sources[i].builder, b)
  <2>1. i \in 1 .. NP + ND + NA
    BY <1>1, Requested
  <2>2. RequestedBuilders[i] # <<>>
    BY <1>3, EmptyFacts
  <2>3. HasExpressions(b) /\ b = RequestedBuilders[i][1]
    BY <1>1, <1>3, <2>1, <2>2, RequestedIsBuilder
  <2>4. BuilderDenotes(mc.nodes, mc.sources[i].builder, b)
    BY <1>1, <2>1, <2>2, <2>3 DEF ConfigDenotes, SourceDenotes
  <2> QED
    BY <1>2, <2>3, <2>4, BuilderFollowsRequest
<1>4. ASSUME NEW i \in DOMAIN req.report_configs
      PROVE  FollowsBuilder(mc.reports[i].builder, req.report_configs[i].builder)
  <2>1. i \in 1 .. NR
    BY <1>1, Lengths
  <2>2. HasExpressions(req.report_configs[i].builder)
    BY <1>1, RangeMember DEF IsRequest
  <2>3. BuilderDenotes(mc.nodes, mc.reports[i].builder, req.report_configs[i].builder)
    BY <1>1, <2>1 DEF ConfigDenotes, ReportDenotes
  <2> QED
    BY <1>2, <2>2, <2>3, BuilderFollowsRequest
<1>5. ASSUME NEW i \in DOMAIN req.triggers
      PROVE  /\ Denotes(mc.triggers[i].selector, req.triggers[i].selector)
             /\ Denotes(mc.triggers[i].initialize, req.triggers[i].initialize)
  <2>1. i \in 1 .. NT
    BY <1>1, Lengths
  <2>2. IsExpression(req.triggers[i].selector) /\ IsExpression(req.triggers[i].initialize)
    BY <1>1, RangeMember DEF IsRequest
  <2>3. TriggerDenotes(mc.nodes, mc.triggers[i], req.triggers[i])
    BY <1>1, <2>1 DEF ConfigDenotes
  <2> QED
    BY <1>2, <2>2, <2>3, IndexFollows DEF TriggerDenotes
<1> QED
  BY <1>3, <1>4, <1>5

(* Every field assignment and trigger of a compiled configuration refers to the  *)
(* tree of the expression the request has at this place, for every request.      *)
THEOREM CompiledExpressions == Spec => []FollowsExpressions
  BY Sessions, ExpressionsFollowed, PTL

-----------------------------------------------------------------------------
(* The types of expressions: what is missing for one is a builder without a  *)
(* type, and one that findDeps finds.                                        *)

TypeFields == {"ok", "type", "typeName", "repeated", "missing"}

IsTyping(t, M) == DOMAIN t = TypeFields /\ t.missing \subseteq M

LEMMA Typings ==
  ASSUME NEW M, NEW X, X \subseteq M, NEW a, NEW b, NEW c
  PROVE  IsTyping(Unresolved(X), M) /\ IsTyping(Scalar(a), M) /\ IsTyping(Resolved(a, b, c), M)
  BY DEF IsTyping, TypeFields, Unresolved, Scalar, Resolved

LEMMA FieldResolved ==
  ASSUME NEW M, NEW t, IsTyping(t, M), NEW name
  PROVE  IsTyping(resolveField(t, name), M)
<1>1. \A a, b, c : IsTyping(Resolved(a, b, c), M) /\ IsTyping(Unresolved({}), M)
  BY Typings
<1> QED
  BY <1>1, Zenon DEF resolveField

NestedStep(c, t, name) == resolveField(t, name)
TypingSoFar(M, i, t) == IsTyping(t, M)
NestedFields == INSTANCE Induction WITH Step <- NestedStep, Good <- TypingSoFar

LEMMA FieldsResolved ==
  ASSUME NEW M, NEW t, IsTyping(t, M), NEW names, IsSequence(names)
  PROVE  IsTyping(FoldLeft(resolveField, t, names), M)
<1>1. FoldLeft(resolveField, t, names) = NestedFields!FoldOf(M, t, names)
  BY Zenon DEF NestedFields!FoldOf, NestedStep, FoldLeft, MapThenFoldSet,
               Max, NestedFields!MapThenFoldSet, NestedFields!Largest
<1> DEFINE n == Len(names)
<1>2. n \in Nat /\ DOMAIN names = 1 .. n
  BY SeqFacts
<1>3. TypingSoFar(M, 0, t)
  BY DEF TypingSoFar
<1>4. ASSUME NEW i \in 1 .. n, NEW x, TypingSoFar(M, i - 1, x)
      PROVE  TypingSoFar(M, i, NestedStep(M, x, names[i]))
  BY <1>4, FieldResolved DEF TypingSoFar, NestedStep
<1> HIDE DEF n
<1>i. NestedFields!Inductive
  BY NaturalInduction, Zenon DEF NestedFields!Inductive
<1>5. TypingSoFar(M, n, NestedFields!FoldOf(M, t, names))
  BY <1>i, <1>2, <1>3, <1>4, NestedFields!FoldGood
<1> QED
  BY <1>1, <1>5 DEF TypingSoFar

\* A source or a builder node that has no type yet.
Untyped(m) ==
  \/ \E i \in DOMAIN mc.nodes :
       m = MessageBuilderNode(i) /\ IsBuilder(i) /\ mc.nodes[i].name = NoType
  \/ \E k \in DOMAIN mc.sources :
       /\ m = SourceName(mc.sources[k].name)
       /\ mc.sources[k].type # "data_source" /\ mc.sources[k].builder.type = NoType

LEMMA SourceResolved ==
  ASSUME NEW name, NEW M, Untyped(SourceName(name)) => SourceName(name) \in M
  PROVE  IsTyping(getSourceMessageName(name), M)
<1> DEFINE found == {s \in Range(mc.sources) : s.name = name}
           s     == CHOOSE s \in found : TRUE
           hints == ti.dataSourceMessageTypes
<1>1. getSourceMessageName(name) =
        IF found = {} THEN Unresolved({})
        ELSE IF s.type = "data_source"
             THEN Resolved("message", IF s.identifier \in DOMAIN hints THEN hints[s.identifier]
                                      ELSE s.identifier, FALSE)
        ELSE IF s.builder.type = NoType THEN Unresolved({SourceName(name)})
        ELSE Resolved("message", s.builder.type, FALSE)
  BY Zenon DEF getSourceMessageName
<1>2. /\ IsTyping(Unresolved({}), M) /\ \A a, b, c : IsTyping(Resolved(a, b, c), M)
      /\ \A X : X \subseteq M => IsTyping(Unresolved(X), M)
  BY Typings
<1>3. CASE found # {} /\ s.type # "data_source" /\ s.builder.type = NoType
  <2>1. s \in Range(mc.sources) /\ s.name = name
    BY <1>3
  <2> HIDE DEF s
  <2>2. PICK k \in DOMAIN mc.sources : s = mc.sources[k]
    BY <2>1, RangeAt
  <2>3. {SourceName(name)} \subseteq M
    BY <1>3, <2>1, <2>2 DEF Untyped
  <2> QED
    BY <1>1, <1>2, <1>3, <2>3 DEF s
<1> HIDE DEF s, found
<1> QED
  BY <1>1, <1>2, <1>3, Zenon

LEMMA ArithResolved ==
  ASSUME NEW op, NEW M, NEW n \in Nat, NEW of, DOMAIN of = 1 .. n,
         \A a \in 1 .. n : IsTyping(of[a], M)
  PROVE  IsTyping(resolveArithExpressions(op, of), M)
<1>1. IsTyping(Unresolved({}), M) /\ \A a : IsTyping(Scalar(a), M)
  BY Typings
<1>2. Failing(of) # {} => IsTyping(of[Min(Failing(of))], M)
  <2>1. Failing(of) \in SUBSET (1 .. n)
    BY DEF Failing
  <2> QED
    BY <2>1, MinFact
<1> QED
  BY <1>1, <1>2, Zenon DEF resolveArithExpressions

LEMMA ListResolved ==
  ASSUME NEW op, NEW M, NEW of, IsTyping(of[1], M), op # "length" => IsTyping(of[2], M)
  PROVE  IsTyping(resolveListExpressions(op, of), M)
<1>1. IsTyping(Unresolved({}), M) /\ \A a : IsTyping(Scalar(a), M)
  BY Typings
<1>2. IsTyping([of[1] EXCEPT !.repeated = FALSE], M)
  BY DEF IsTyping, TypeFields
<1> QED
  BY <1>1, <1>2, Zenon DEF resolveListExpressions

LEMMA CombinationResolved ==
  ASSUME NEW op, NEW M, NEW n \in Nat, NEW of, DOMAIN of = 1 .. n,
         n = (IF IsUnaryOperator(op) THEN 1 ELSE 2), \A a \in 1 .. n : IsTyping(of[a], M)
  PROVE  IsTyping(resolveCombinationNode(op, of), M)
<1>1. \A a : IsTyping(Scalar(a), M)
  BY Typings
<1>2. IsTyping(resolveArithExpressions(op, of), M)
  BY ArithResolved
<1>3. IsTyping(of[1], M) /\ (n = 2 => IsTyping(of[2], M))
  OBVIOUS
<1>4. op = "subscript" => n = 2
  BY DEF IsUnaryOperator, unary
<1>5. op \in {"length", "subscript"} => IsTyping(resolveListExpressions(op, of), M)
  BY <1>3, <1>4, ListResolved
<1> QED
  BY <1>1, <1>2, <1>5 DEF resolveCombinationNode

\* The types of nodes, one after the other.
ResolveStep(c, type, i) ==
  LET n  == mc.nodes[i]
      of == [a \in DOMAIN n.args |-> type[n.args[a]]]
  IN  CASE n.type = "field"       -> resolveFieldLeafNode(n, of)
        [] n.type = "combination" -> resolveCombinationNode(n.name[1], of)
        [] n.type = "timestamp"   -> Scalar("int64")
        [] n.type = "builder"     -> IF n.name = NoType THEN Unresolved({MessageBuilderNode(i)})
                                     ELSE Resolved("message", n.name, FALSE)
        [] OTHER                  -> Scalar(n.type)
Types == INSTANCE Induction WITH Step <- ResolveStep, Good <- NoProperty

LEMMA ResolveUnfolds ==
  ASSUME IsExpression(mc.nodes)
  PROVE  \E type : /\ \A i \in 1 .. Len(mc.nodes) : type[i] = ResolveStep(0, type, i)
                   /\ \A i \in 1 .. Len(mc.nodes) : Resolve(i) = type[i]
<1> DEFINE n == Len(mc.nodes)
           type == Types!RecursionOf(0, DOMAIN mc.nodes)
<1>1. /\ n \in Nat /\ DOMAIN mc.nodes = 1 .. n
      /\ \A i \in 1 .. n : \A a \in DOMAIN mc.nodes[i].args : mc.nodes[i].args[a] \in 1 .. i - 1
  BY ExpressionFacts
<1>2. ASSUME NEW i \in 1 .. n, NEW f, NEW g, \A j \in 1 .. i - 1 : f[j] = g[j]
      PROVE  ResolveStep(0, f, i) = ResolveStep(0, g, i)
  <2>1. [a \in DOMAIN mc.nodes[i].args |-> f[mc.nodes[i].args[a]]]
          = [a \in DOMAIN mc.nodes[i].args |-> g[mc.nodes[i].args[a]]]
    BY <1>1, <1>2
  <2> QED
    BY <2>1, Zenon DEF ResolveStep
<1>3. Types!Progressive(0, 1, n)
  BY <1>2, Zenon DEF Types!Progressive
<1>4. 1 \in Nat
  OBVIOUS
<1>i. Types!Inductive
  BY NaturalInduction, Zenon DEF Types!Inductive
<1>5. Types!Unfolds(type, 0, DOMAIN mc.nodes)
  BY <1>i, <1>1, <1>3, <1>4, Types!RecursionUnfolds, Zenon
<1>6. ASSUME NEW r PROVE Resolve(r) = type[r]
  BY Zenon DEF Resolve, Types!RecursionOf, ResolveStep
<1> HIDE DEF type
<1>7. \A i \in 1 .. n : type[i] = ResolveStep(0, type, i)
  BY <1>1, <1>5 DEF Types!Unfolds
<1> QED
  BY <1>6, <1>7

\* The sources and builder nodes that a set of nodes refers to.
FoundIn(C) ==
  {MessageBuilderNode(i) : i \in {i \in C : IsBuilder(i)}}
    \cup {SourceName(mc.nodes[i].name[1]) :
            i \in {i \in C : mc.nodes[i].type = "field" /\ mc.nodes[i].args = <<>>}}

\* A set of nodes that has the children of each, up to builders.
ClosedNodes(C) ==
  /\ C \subseteq DOMAIN mc.nodes
  /\ \A i \in C : ~IsBuilder(i) => Range(mc.nodes[i].args) \subseteq C

MissingIn(C) == {m \in FoundIn(C) : Untyped(m)}

LEMMA NodeResolved ==
  ASSUME IsExpression(mc.nodes), NEW C, ClosedNodes(C), NEW i \in C, NEW type,
         \A j \in C : j < i => IsTyping(type[j], MissingIn(C))
  PROVE  IsTyping(ResolveStep(0, type, i), MissingIn(C))
<1> DEFINE n  == mc.nodes[i]
           k  == Len(n.args)
           of == [a \in DOMAIN n.args |-> type[n.args[a]]]
           M  == MissingIn(C)
<1>1. /\ i \in DOMAIN mc.nodes /\ i \in Nat /\ k \in Nat /\ DOMAIN n.args = 1 .. k
      /\ \A a \in DOMAIN n.args : n.args[a] \in 1 .. i - 1
      /\ HasShape(n)
  BY ExpressionFacts DEF ClosedNodes
<1>2. /\ IsTyping(Unresolved({}), M)
      /\ \A a : IsTyping(Scalar(a), M) /\ \A b, c : IsTyping(Resolved(a, b, c), M)
      /\ \A X : X \subseteq M => IsTyping(Unresolved(X), M)
  BY Typings
<1>3. DOMAIN of = 1 .. k
  BY <1>1
<1>4. n.type # "builder" => \A a \in 1 .. k : IsTyping(of[a], M)
  <2> SUFFICES ASSUME n.type # "builder", NEW a \in 1 .. k PROVE IsTyping(type[n.args[a]], M)
    BY <1>1
  <2>1. n.args[a] \in Range(n.args) /\ n.args[a] < i
    BY <1>1, RangeMember
  <2>2. ~IsBuilder(i)
    BY DEF IsBuilder
  <2>3. n.args[a] \in C
    BY <2>1, <2>2 DEF ClosedNodes
  <2> QED
    BY <2>1, <2>3
<1>5. ResolveStep(0, type, i) =
        CASE n.type = "field"       -> resolveFieldLeafNode(n, of)
          [] n.type = "combination" -> resolveCombinationNode(n.name[1], of)
          [] n.type = "timestamp"   -> Scalar("int64")
          [] n.type = "builder"     -> IF n.name = NoType THEN Unresolved({MessageBuilderNode(i)})
                                       ELSE Resolved("message", n.name, FALSE)
          [] OTHER                  -> Scalar(n.type)
  BY Zenon DEF ResolveStep
<1> HIDE DEF of
<1>6. n.type = "field" => IsTyping(resolveFieldLeafNode(n, of), M)
  <2> SUFFICES ASSUME n.type = "field" PROVE IsTyping(resolveFieldLeafNode(n, of), M)
    OBVIOUS
  <2> DEFINE base == IF n.args = <<>> THEN getSourceMessageName(n.name[1]) ELSE of[1]
  <2>1. ASSUME n.args = <<>> PROVE IsTyping(base, M)
    <3>1. SourceName(n.name[1]) \in FoundIn(C)
      BY <2>1, Zenon DEF FoundIn
    <3>2. Untyped(SourceName(n.name[1])) => SourceName(n.name[1]) \in M
      BY <3>1 DEF MissingIn
    <3>3. IsTyping(getSourceMessageName(n.name[1]), M)
      BY <3>2, SourceResolved
    <3> QED
      BY <2>1, <3>3, Zenon
  <2>2. ASSUME n.args # <<>> PROVE IsTyping(base, M)
    <3>1. IsSequence(n.args)
      BY <1>1, SeqIsSeq, Zenon DEF IsExpression
    <3>2. k # 0
      BY <2>2, <3>1, EmptyOnly
    <3>3. 1 \in 1 .. k
      BY <1>1, <3>2
    <3>4. IsTyping(of[1], M)
      BY <1>4, <3>3
    <3> QED
      BY <2>2, <3>4, Zenon
  <2>3. IsTyping(base, M)
    BY <2>1, <2>2, Zenon
  <2> HIDE DEF base
  <2>4. IsTyping(FoldLeft(resolveField, base, n.names), M)
    BY <1>1, <2>3, FieldsResolved DEF HasShape
  <2> QED
    BY <2>4, Zenon DEF resolveFieldLeafNode, base
<1>7. n.type = "combination" => IsTyping(resolveCombinationNode(n.name[1], of), M)
  <2> SUFFICES ASSUME n.type = "combination"
               PROVE  IsTyping(resolveCombinationNode(n.name[1], of), M)
    OBVIOUS
  <2>1. k = (IF IsUnaryOperator(n.name[1]) THEN 1 ELSE 2)
    BY <1>1 DEF HasShape
  <2>2. \A a \in 1 .. k : IsTyping(of[a], M)
    BY <1>4
  <2> HIDE DEF n, k, M
  <2> QED
    BY <1>1, <1>3, <2>1, <2>2, CombinationResolved
<1>8. n.type = "builder" /\ n.name = NoType => {MessageBuilderNode(i)} \subseteq M
  BY <1>1 DEF MissingIn, FoundIn, Untyped, IsBuilder
<1> HIDE DEF n, M
<1> QED
  BY <1>2, <1>5, <1>6, <1>7, <1>8, Zenon DEF n, M

LEMMA ExpressionResolved ==
  ASSUME IsExpression(mc.nodes), NEW C, ClosedNodes(C)
  PROVE  \A i \in C : IsTyping(Resolve(i), MissingIn(C))
<1>1. PICK type : /\ \A i \in 1 .. Len(mc.nodes) : type[i] = ResolveStep(0, type, i)
                  /\ \A i \in 1 .. Len(mc.nodes) : Resolve(i) = type[i]
  BY ResolveUnfolds
<1> DEFINE n == Len(mc.nodes)
           T == {i \in Nat : i \in C => IsTyping(type[i], MissingIn(C))}
<1>2. n \in Nat /\ DOMAIN mc.nodes = 1 .. n /\ C \subseteq 1 .. n
  BY ExpressionFacts DEF ClosedNodes
<1>3. ASSUME NEW i \in 1 .. n, \A j \in 1 .. i - 1 : j \in T PROVE i \in T
  <2> SUFFICES ASSUME i \in C PROVE IsTyping(type[i], MissingIn(C))
    OBVIOUS
  <2>1. \A j \in C : j < i => IsTyping(type[j], MissingIn(C))
    BY <1>2, <1>3
  <2> QED
    BY <1>1, <2>1, NodeResolved
<1> HIDE DEF T
<1>4. \A i \in 1 .. n : (\A j \in 1 .. i - 1 : j \in T) => i \in T
  BY <1>3
<1> HIDE DEF n
<1>5. \A i \in 1 .. n : i \in T
  BY <1>2, <1>4, Strong, Zenon
<1>6. \A i \in C : IsTyping(type[i], MissingIn(C))
  BY <1>2, <1>5 DEF T
<1> QED
  BY <1>1, <1>2, <1>6 DEF n

LEMMA SearchFinds ==
  ASSUME IsExpression(mc.nodes), NEW root \in 1 .. Len(mc.nodes)
  PROVE  \E C : ClosedNodes(C) /\ root \in C /\ FoundIn(C) \subseteq findDeps(root)
<1> DEFINE next == [i \in DOMAIN mc.nodes |-> IF IsBuilder(i) THEN {} ELSE Range(mc.nodes[i].args)]
           R == Reach({root}, next)
           C == R \cap DOMAIN mc.nodes
<1>1. /\ Len(mc.nodes) \in Nat /\ DOMAIN mc.nodes = 1 .. Len(mc.nodes)
      /\ \A i \in 1 .. Len(mc.nodes) : \A a \in DOMAIN mc.nodes[i].args : mc.nodes[i].args[a] \in 1 .. i - 1
  BY ExpressionFacts
<1>2. findDeps(root) = FoundIn(C)
  BY Zenon DEF findDeps, FoundIn
<1>3. /\ DOMAIN next = 1 .. Len(mc.nodes)
      /\ \A i \in DOMAIN mc.nodes : ~IsBuilder(i) => next[i] = Range(mc.nodes[i].args)
  BY <1>1
<1> HIDE DEF next
<1>4. IsFiniteSet(DOMAIN next)
  <2>1. 1 \in Int /\ Len(mc.nodes) \in Int
    BY <1>1
  <2>2. IsFiniteSet(1 .. Len(mc.nodes))
    BY <2>1, FS_Interval
  <2> QED
    BY <1>3, <2>2
<1>5. {root} \subseteq R /\ Closed(R, next)
  BY <1>4, ReachStarts, ReachCloses
<1> HIDE DEF R
<1>6. ASSUME NEW i \in C, ~IsBuilder(i), NEW x \in Range(mc.nodes[i].args) PROVE x \in C
  <2>1. x \in R
    BY <1>1, <1>3, <1>5, <1>6 DEF Closed
  <2>2. PICK a \in DOMAIN mc.nodes[i].args : x = mc.nodes[i].args[a]
    BY RangeAt
  <2>3. i \in 1 .. Len(mc.nodes) /\ x \in 1 .. i - 1
    BY <1>1, <2>2
  <2> QED
    BY <1>1, <2>1, <2>3
<1>7. root \in C /\ C \subseteq DOMAIN mc.nodes
  BY <1>1, <1>5
<1> HIDE DEF C
<1>8. ClosedNodes(C)
  BY <1>6, <1>7 DEF ClosedNodes
<1> QED
  BY <1>2, <1>7, <1>8

(* What is missing for the type of an expression. *)
LEMMA MissingFound ==
  ASSUME IsExpression(mc.nodes), NEW root \in 1 .. Len(mc.nodes), NEW M,
         \A m \in findDeps(root) : Untyped(m) => m \in M
  PROVE  IsTyping(Resolve(root), M)
<1>1. PICK C : ClosedNodes(C) /\ root \in C /\ FoundIn(C) \subseteq findDeps(root)
  BY SearchFinds
<1>2. IsTyping(Resolve(root), MissingIn(C))
  BY <1>1, ExpressionResolved
<1>3. MissingIn(C) \subseteq M
  BY <1>1 DEF MissingIn
<1> QED
  BY <1>2, <1>3 DEF IsTyping

-----------------------------------------------------------------------------
(* What a step of the inference does. *)

LEMMA FieldMissing ==
  ASSUME NEW fa, NEW M, fa.aggregation # "count" => IsTyping(Resolve(fa.node), M)
  PROVE  IsTyping(FieldType(fa), M)
<1> DEFINE t == Resolve(fa.node)
           u == normalized(t)
<1>1. IsTyping(Unresolved({}), M) /\ \A a : IsTyping(Scalar(a), M)
  BY Typings
<1>2. ASSUME fa.aggregation # "count" PROVE IsTyping(u, M)
  <2>1. IsTyping(t, M)
    BY <1>2
  <2> HIDE DEF t
  <2>2. IsTyping([t EXCEPT !.typeName = AnyType], M)
    BY <2>1 DEF IsTyping, TypeFields
  <2> QED
    BY <1>1, <2>1, <2>2, Zenon DEF normalized
<1>3. fa.aggregation # "count" => IsTyping([u EXCEPT !.repeated = u.ok], M)
  <2> HIDE DEF u
  <2> QED
    BY <1>2 DEF IsTyping, TypeFields
<1> HIDE DEF u
<1>4. IsTyping(Aggregated(fa.aggregation, u), M)
  BY <1>1, <1>2, <1>3 DEF Aggregated
<1> QED
  BY <1>4 DEF FieldType, u

\* An enum that a field has is one of the registry.
EnumFound(t) == t.type = "enum" => Finds("enum", t.typeName)

LEMMA FieldEnum ==
  ASSUME NEW fa, NEW M, fa.aggregation # "count" => IsTyping(Resolve(fa.node), M)
  PROVE  EnumFound(FieldType(fa))
<1> DEFINE t == Resolve(fa.node)
           u == normalized(t)
<1>1. EnumFound(Unresolved({})) /\ EnumFound(Scalar("int32")) /\ EnumFound(Scalar("double"))
  BY DEF EnumFound, Unresolved, Scalar, Resolved
<1>2. ASSUME fa.aggregation # "count" PROVE IsTyping(u, M) /\ EnumFound(u)
  <2>1. IsTyping(t, M) /\ IsTyping(Unresolved({}), M)
    BY <1>2, Typings
  <2> HIDE DEF t
  <2> DEFINE any == [t EXCEPT !.typeName = AnyType]
  <2>2. IsTyping(any, M) /\ any.type = t.type
    BY <2>1 DEF IsTyping, TypeFields
  <2>3. CASE t.type = "message" /\ ~IsTypeInOutputDescriptors(t.typeName)
    <3>1. u = any
      BY <2>3, Zenon DEF normalized
    <3> QED
      BY <2>2, <2>3, <3>1 DEF EnumFound
  <2>4. CASE t.type = "enum" /\ ~Finds("enum", t.typeName)
    <3>1. u = Unresolved({})
      BY <2>4 DEF normalized
    <3> QED
      BY <1>1, <2>1, <3>1
  <2>5. CASE /\ ~(t.type = "message" /\ ~IsTypeInOutputDescriptors(t.typeName))
             /\ ~(t.type = "enum" /\ ~Finds("enum", t.typeName))
    <3>1. u = t
      BY <2>5, Zenon DEF normalized
    <3> QED
      BY <2>1, <2>5, <3>1 DEF EnumFound
  <2> QED
    BY <2>3, <2>4, <2>5
<1> HIDE DEF u
<1>3. fa.aggregation # "count" => EnumFound([u EXCEPT !.repeated = u.ok])
  BY <1>2 DEF IsTyping, TypeFields, EnumFound
<1>4. EnumFound(Aggregated(fa.aggregation, u))
  BY <1>1, <1>2, <1>3 DEF Aggregated
<1> QED
  BY <1>4 DEF FieldType, u

LEMMA SchemaMissing ==
  ASSUME NEW fields, NEW M,
         \A i \in DOMAIN fields :
           fields[i].aggregation # "count" => IsTyping(Resolve(fields[i].node), M),
         IsFiniteSet(DOMAIN fields)
  PROVE  /\ Schema(fields).missing \subseteq M
         /\ IsFiniteSet(Schema(fields).deps)
         /\ \A name \in Schema(fields).enums : Finds("enum", name)
<1> DEFINE t == [i \in DOMAIN fields |-> FieldType(fields[i])]
<1>1. \A i \in DOMAIN fields : IsTyping(FieldType(fields[i]), M)
  BY FieldMissing
<1>2. /\ DOMAIN t = DOMAIN fields
      /\ \A i \in DOMAIN t : t[i].missing \subseteq M /\ EnumFound(t[i])
  BY <1>1, FieldEnum DEF IsTyping
<1>3. Schema(fields) = SchemaOf(fields, t)
  BY Zenon DEF Schema
<1> HIDE DEF t
<1>4. /\ SchemaOf(fields, t).missing = UNION {t[i].missing : i \in DOMAIN t}
      /\ SchemaOf(fields, t).deps = UNION {AssignmentDeps(fields[i]) : i \in DOMAIN t}
      /\ SchemaOf(fields, t).enums = UNION {trackedEnums(t[i]) : i \in DOMAIN t}
  BY DEF SchemaOf
<1>5. IsFiniteSet(UNION {AssignmentDeps(fields[i]) : i \in DOMAIN t})
  <2> DEFINE f == [i \in DOMAIN t |-> AssignmentDeps(fields[i])]
             F == {AssignmentDeps(fields[i]) : i \in DOMAIN t}
  <2>1. F = {f[i] : i \in DOMAIN t}
    OBVIOUS
  <2>2. \A fa : IsFiniteSet(AssignmentDeps(fa))
    BY FS_EmptySet, FS_Singleton DEF AssignmentDeps, trackedDeps
  <2>3. \A D \in F : IsFiniteSet(D)
    BY <2>2
  <2> HIDE DEF f, F
  <2>4. IsFiniteSet(F)
    BY <1>2, <2>1, ImageFinite
  <2>5. IsFiniteSet(UNION F)
    BY <2>3, <2>4, FS_UNION
  <2> QED
    BY <2>5 DEF F
<1>6. \A i \in DOMAIN t : \A name \in trackedEnums(t[i]) : Finds("enum", name)
  BY <1>2 DEF trackedEnums, EnumFound
<1> QED
  BY <1>2, <1>3, <1>4, <1>5, <1>6

TiFields ==
  {"dataSourceMessageTypes", "adhoc", "deps", "messages", "enums", "inferred", "reports", "errs"}

GoodInference(t) == DOMAIN t = TiFields /\ IsSequence(t.adhoc) /\ IsFiniteSet(t.deps)

\* The types that new refers to and ti does not are in the registry.
Tracked(new) ==
  /\ \A name \in new.messages : name \in ti.messages \/ Finds("message", name)
  /\ \A name \in new.enums : name \in ti.enums \/ Finds("enum", name)

\* What processing a builder may do to ti, if it is of that node and name and
\* what can be missing is in M.
Processed(new, of, name, M) ==
  /\ GoodInference(new)
  /\ new.inferred = ti.inferred /\ new.reports = ti.reports
  /\ ti.messages \subseteq new.messages
  /\ ti.errs \subseteq new.errs
  /\ \A e \in new.errs : e \in ti.errs \/ (e.of = of /\ e.missing \subseteq M)
  /\ \A m \in Range(new.adhoc) : m \in Range(ti.adhoc) \/ m.name = name
  /\ Tracked(new)

Failed(t, of) == \E cause \in t.errs : cause.of = of

LEMMA ProcessedNothing ==
  ASSUME GoodInference(ti), NEW of, NEW name, NEW M
  PROVE  Processed(ti, of, name, M)
  BY DEF Processed, Tracked

LEMMA ErroneousProcessed ==
  ASSUME GoodInference(ti), NEW of, NEW name, NEW M, NEW X, X \subseteq M
  PROVE  Processed(Erroneous(of, X), of, name, M) /\ Failed(Erroneous(of, X), of)
<1> DEFINE e   == [of |-> of, missing |-> X]
           new == Erroneous(of, X)
<1>1. e.of = of /\ e.missing = X
  OBVIOUS
<1> HIDE DEF e
<1>2. /\ DOMAIN new = DOMAIN ti /\ new.errs = ti.errs \cup {e}
      /\ new.adhoc = ti.adhoc /\ new.messages = ti.messages /\ new.inferred = ti.inferred
      /\ new.reports = ti.reports /\ new.deps = ti.deps /\ new.enums = ti.enums
  BY DEF Erroneous, GoodInference, TiFields, e
<1> HIDE DEF new
<1>3. Processed(new, of, name, M) /\ Failed(new, of)
  BY <1>1, <1>2 DEF Processed, Failed, GoodInference, Tracked
<1> QED
  BY <1>3 DEF new

LEMMA AppendRange ==
  ASSUME NEW s, IsSequence(s), NEW x, NEW y \in Range(Append(s, x))
  PROVE  y \in Range(s) \/ y = x
<1>1. PICK i \in DOMAIN Append(s, x) : y = Append(s, x)[i]
  BY RangeAt
<1>2. /\ DOMAIN Append(s, x) = 1 .. Len(s) + 1
      /\ \A j \in 1 .. Len(s) : Append(s, x)[j] = s[j]
      /\ Append(s, x)[Len(s) + 1] = x /\ Len(s) \in Nat /\ DOMAIN s = 1 .. Len(s)
  BY AppendFacts, SeqFacts
<1>3. i = Len(s) + 1 \/ i \in 1 .. Len(s)
  BY <1>1, <1>2
<1> QED
  BY <1>1, <1>2, <1>3, RangeMember

LEMMA NamedType == ASSUME NEW name PROVE <<AdhocPackage, name>> # NoType
  BY DEF NoType

LEMMA SchemaProcessed ==
  ASSUME GoodInference(ti), NEW of, NEW name, NEW M, NEW schema, schema.missing \subseteq M,
         IsFiniteSet(schema.deps), \A x \in schema.enums : Finds("enum", x),
         NEW built, built = registerSchema(of, name, schema)
  PROVE  Processed(built.ti, of, name, M) /\ (built.type = NoType => Failed(built.ti, of))
<1> DEFINE message == AddOrDeduplicateAdhocMessage(name, schema)
           adhoc == IF message[2] THEN Append(ti.adhoc, message[1]) ELSE ti.adhoc
           new == [ti EXCEPT !.adhoc = adhoc, !.deps = ti.deps \cup schema.deps,
                             !.enums = ti.enums \cup schema.enums]
<1>1. CASE ~schema.ok
  <2>1. built = [ti |-> Erroneous(of, schema.missing), type |-> NoType]
    BY <1>1, Zenon DEF registerSchema
  <2>2. built.ti = Erroneous(of, schema.missing)
    BY <2>1
  <2> QED
    BY <2>2, ErroneousProcessed
<1>2. CASE schema.ok
  <2>1. built = [ti |-> new, type |-> <<AdhocPackage, message[1].name>>]
    BY <1>2 DEF registerSchema, GoodInference, TiFields
  <2>2. message[2] => message[1].name = name
    <3> DEFINE identical == {m \in Range(ti.adhoc) : m.fields = schema.fields}
    <3>1. CASE identical = {}
      <4>1. message = <<[name |-> name, fields |-> schema.fields], TRUE>>
        BY <3>1, Zenon DEF AddOrDeduplicateAdhocMessage
      <4>2. message[1] = [name |-> name, fields |-> schema.fields]
        BY <4>1
      <4> QED
        BY <4>2
    <3>2. CASE identical # {}
      <4>1. message = <<CHOOSE m \in identical : TRUE, FALSE>>
        BY <3>2, Zenon DEF AddOrDeduplicateAdhocMessage
      <4> QED
        BY <4>1
    <3> QED
      BY <3>1, <3>2
  <2> HIDE DEF message
  <2>3. IsSequence(adhoc) /\ \A m \in Range(adhoc) : m \in Range(ti.adhoc) \/ m.name = name
    <3>1. CASE message[2]
      BY <2>2, <3>1, AppendFacts, AppendRange DEF GoodInference
    <3>2. CASE ~message[2]
      BY <3>2 DEF GoodInference
    <3> QED
      BY <3>1, <3>2
  <2> HIDE DEF adhoc
  <2>4. /\ DOMAIN new = DOMAIN ti /\ new.adhoc = adhoc /\ new.errs = ti.errs
        /\ new.messages = ti.messages /\ new.inferred = ti.inferred /\ new.reports = ti.reports
        /\ new.deps = ti.deps \cup schema.deps /\ new.enums = ti.enums \cup schema.enums
    BY DEF GoodInference, TiFields
  <2> HIDE DEF new
  <2>d. IsFiniteSet(new.deps)
    BY <2>4, FS_Union, Zenon DEF GoodInference
  <2>t. Tracked(new)
    BY <2>4 DEF Tracked
  <2>5. Processed(new, of, name, M)
    BY <2>3, <2>4, <2>d, <2>t DEF Processed, GoodInference
  <2>6. built.ti = new /\ built.type = <<AdhocPackage, message[1].name>>
    BY <2>1
  <2> QED
    BY <2>5, <2>6, NamedType
<1> QED
  BY <1>1, <1>2

LEMMA PredefinedProcessed ==
  ASSUME GoodInference(ti), NEW of, NEW name, NEW M, NEW type, type # NoType,
         NEW built, built = validatePredefinedMessageType(of, type)
  PROVE  Processed(built.ti, of, name, M) /\ built.type # NoType
<1> DEFINE new == [ti EXCEPT !.messages = ti.messages \cup {type}]
<1>1. /\ DOMAIN new = DOMAIN ti /\ new.adhoc = ti.adhoc /\ new.errs = ti.errs
      /\ new.messages = ti.messages \cup {type} /\ new.inferred = ti.inferred
      /\ new.reports = ti.reports /\ new.deps = ti.deps /\ new.enums = ti.enums
  BY DEF GoodInference, TiFields
<1>2. built.type = type
  BY DEF validatePredefinedMessageType
<1>3. \/ built.ti = Erroneous(of, {}) \/ built.ti = ti
      \/ built.ti = new /\ Finds("message", type)
  <2>1. [ti EXCEPT !.messages = @ \cup {type}] = new
    BY DEF GoodInference, TiFields
  <2> HIDE DEF new
  <2> QED
    BY <2>1 DEF validatePredefinedMessageType
<1> HIDE DEF new
<1>4. Finds("message", type) => Processed(new, of, name, M)
  BY <1>1 DEF Processed, GoodInference, Tracked
<1>5. Processed(Erroneous(of, {}), of, name, M)
  BY ErroneousProcessed
<1> QED
  BY <1>2, <1>3, <1>4, <1>5, ProcessedNothing

LEMMA BuilderProcessed ==
  ASSUME GoodInference(ti), NEW of, NEW name, NEW builder, NEW M,
         \A i \in DOMAIN builder.fields :
           builder.fields[i].aggregation # "count" => IsTyping(Resolve(builder.fields[i].node), M),
         IsFiniteSet(DOMAIN builder.fields),
         NEW built, built = processMessageBuilder(of, name, builder)
  PROVE  /\ Processed(built.ti, of, name, M)
         /\ built.type = NoType =>
              Failed(built.ti, of) \/ IsTypeInOutputDescriptors(<<AdhocPackage, name>>)
<1>1. CASE builder.type # NoType
  <2>1. built = validatePredefinedMessageType(of, builder.type)
    BY <1>1, Zenon DEF processMessageBuilder
  <2> QED
    BY <1>1, <2>1, PredefinedProcessed
<1>2. CASE builder.type = NoType /\ IsTypeInOutputDescriptors(<<AdhocPackage, name>>)
  <2>1. built = [ti |-> ti, type |-> NoType]
    BY <1>2, Zenon DEF processMessageBuilder
  <2>2. built.ti = ti
    BY <2>1
  <2> QED
    BY <1>2, <2>2, ProcessedNothing
<1>3. CASE builder.type = NoType /\ ~IsTypeInOutputDescriptors(<<AdhocPackage, name>>)
  <2> DEFINE schema == Schema(builder.fields)
  <2>1. built = registerSchema(of, name, schema)
    BY <1>3, Zenon DEF processMessageBuilder, generateSchema
  <2>2. /\ schema.missing \subseteq M /\ IsFiniteSet(schema.deps)
        /\ \A x \in schema.enums : Finds("enum", x)
    BY SchemaMissing
  <2> HIDE DEF schema
  <2> QED
    BY <2>1, <2>2, SchemaProcessed
<1> QED
  BY <1>1, <1>2, <1>3

LEMMA NodeProcessed ==
  ASSUME GoodInference(ti), IsExpression(mc.nodes), NEW i, IsBuilder(i), NEW M,
         \A x \in Range(mc.nodes[i].args) : IsTyping(Resolve(x), M),
         NEW built, built = processExpressionNodeMessageBuilder(i)
  PROVE  /\ Processed(built.ti, MessageBuilderNode(i), MsgBuilderNames[i], M)
         /\ built.type = NoType => Failed(built.ti, MessageBuilderNode(i))
<1> DEFINE n    == mc.nodes[i]
           name == MsgBuilderNames[i]
           of   == MessageBuilderNode(i)
           fas  == [f \in DOMAIN n.names |->
                      [name |-> n.names[f], aggregation |-> "none", node |-> n.args[f]]]
<1>1. CASE n.name # NoType
  <2>1. built = validatePredefinedMessageType(of, n.name)
    BY <1>1, Zenon DEF processExpressionNodeMessageBuilder
  <2> HIDE DEF of, name, n
  <2>2. Processed(built.ti, of, name, M) /\ built.type # NoType
    BY <1>1, <2>1, PredefinedProcessed
  <2> QED
    BY <2>2 DEF of, name
<1>2. CASE n.name = NoType /\ IsTypeInOutputDescriptors(<<AdhocPackage, name>>)
  <2>1. built = [ti |-> ti, type |-> <<AdhocPackage, name>>]
    BY <1>2, Zenon DEF processExpressionNodeMessageBuilder
  <2>2. built.ti = ti /\ built.type # NoType
    BY <2>1, NamedType
  <2> QED
    BY <2>2, ProcessedNothing
<1>3. CASE n.name = NoType /\ ~IsTypeInOutputDescriptors(<<AdhocPackage, name>>)
  <2> DEFINE schema == Schema(fas)
  <2>1. built = registerSchema(of, name, schema)
    BY <1>3, Zenon DEF processExpressionNodeMessageBuilder, generateSchema
  <2>2. \A f \in DOMAIN fas : IsTyping(Resolve(fas[f].node), M)
    <3> SUFFICES ASSUME NEW f \in DOMAIN n.names PROVE IsTyping(Resolve(n.args[f]), M)
      OBVIOUS
    <3>1. i \in 1 .. Len(mc.nodes) /\ n.type = "builder"
      BY ExpressionFacts DEF IsBuilder
    <3>2. DOMAIN n.names = DOMAIN n.args
      BY <3>1, ExpressionFacts, SeqFacts DEF HasShape
    <3> QED
      BY <3>2, RangeMember
  <2>f. IsFiniteSet(DOMAIN fas)
    <3>1. i \in 1 .. Len(mc.nodes)
      BY ExpressionFacts DEF IsBuilder
    <3>2. IsSequence(n.names)
      BY <3>1, ExpressionFacts DEF HasShape
    <3> QED
      BY <3>2, SeqFinite
  <2> HIDE DEF fas
  <2>3. /\ schema.missing \subseteq M /\ IsFiniteSet(schema.deps)
        /\ \A x \in schema.enums : Finds("enum", x)
    BY <2>2, <2>f, SchemaMissing
  <2> HIDE DEF schema, of, name
  <2>4. Processed(built.ti, of, name, M) /\ (built.type = NoType => Failed(built.ti, of))
    BY <2>1, <2>3, SchemaProcessed
  <2> QED
    BY <2>4 DEF of, name
<1> QED
  BY <1>1, <1>2, <1>3

-----------------------------------------------------------------------------
(* Names that are taken. *)

LEMMA OneMember ==
  ASSUME NEW n \in Nat, NEW S \in SUBSET (1 .. n)
  PROVE  /\ Cardinality(S) \in Nat
         /\ S # {} => Cardinality(S) >= 1
         /\ \A a, b \in S : a # b => Cardinality(S) >= 2
<1>1. IsFiniteSet(1 .. n)
  BY FS_Interval
<1>2. IsFiniteSet(S) /\ Cardinality(S) \in Nat
  BY <1>1, FS_Subset, FS_CardinalityType
<1>3. S # {} => Cardinality(S) # 0
  BY <1>2, FS_EmptySet
<1>4. ASSUME NEW a \in S, NEW b \in S, a # b PROVE Cardinality(S) >= 2
  <2>1. IsFiniteSet(S \ {a}) /\ Cardinality(S \ {a}) = Cardinality(S) - 1
    BY <1>2, FS_RemoveElement
  <2>2. Cardinality(S \ {a}) # 0 /\ Cardinality(S \ {a}) \in Nat
    BY <1>4, <2>1, FS_EmptySet, FS_CardinalityType
  <2> QED
    BY <1>2, <2>1, <2>2
<1> QED
  BY <1>2, <1>3, <1>4

LEMMA ConfigDomains ==
  ASSUME IsRequest(req), ConfigDenotes(mc)
  PROVE  /\ \E n \in Nat : DOMAIN mc.sources = 1 .. n
         /\ \E n \in Nat : DOMAIN mc.reports = 1 .. n
         /\ \E n \in Nat : DOMAIN mc.nodes = 1 .. n
         /\ \A k \in DOMAIN mc.sources :
              /\ {"name", "type", "builder"} \subseteq DOMAIN mc.sources[k]
              /\ mc.sources[k].type \in {"data_source", "aggregator"}
         /\ \A r \in DOMAIN mc.reports : {"name", "builder"} \subseteq DOMAIN mc.reports[r]
<1>1. NP + ND + NA \in Nat /\ NR \in Nat
  BY Lengths
<1>2. DOMAIN mc.sources = 1 .. NP + ND + NA /\ DOMAIN mc.reports = 1 .. NR
  BY DEF ConfigDenotes
<1>3. \E n \in Nat : DOMAIN mc.nodes = 1 .. n
  BY ExpressionFacts DEF ConfigDenotes
<1>4. ASSUME NEW k \in DOMAIN mc.sources
      PROVE  /\ {"name", "type", "builder"} \subseteq DOMAIN mc.sources[k]
             /\ mc.sources[k].type \in {"data_source", "aggregator"}
  <2>1. SourceDenotes(mc.nodes, mc.sources[k], RequestedBuilders[k])
    BY <1>2 DEF ConfigDenotes
  <2> QED
    BY <2>1 DEF SourceDenotes
<1>5. ASSUME NEW r \in DOMAIN mc.reports PROVE {"name", "builder"} \subseteq DOMAIN mc.reports[r]
  <2>1. ReportDenotes(mc.nodes, mc.reports[r], req.report_configs[r])
    BY <1>2 DEF ConfigDenotes
  <2> QED
    BY <2>1 DEF ReportDenotes
<1> QED
  BY <1>1, <1>2, <1>3, <1>4, <1>5

LEMMA SharedName ==
  ASSUME IsRequest(req), ConfigDenotes(mc), NEW k \in DOMAIN mc.sources, NEW name,
         mc.sources[k].name = name,
         \/ \E l \in DOMAIN mc.sources : l # k /\ mc.sources[l].name = name
         \/ \E r \in DOMAIN mc.reports : mc.reports[r].name = name
         \/ \E i \in DOMAIN mc.nodes : IsBuilder(i) /\ MsgBuilderNames[i] = name
  PROVE  Collides(name)
<1> DEFINE A == {i \in DOMAIN mc.sources : mc.sources[i].name = name}
           B == {i \in DOMAIN mc.reports : mc.reports[i].name = name}
           C == {i \in DOMAIN mc.nodes : IsBuilder(i) /\ MsgBuilderNames[i] = name}
<1>1. /\ \E n \in Nat : A \in SUBSET (1 .. n)
      /\ \E n \in Nat : B \in SUBSET (1 .. n)
      /\ \E n \in Nat : C \in SUBSET (1 .. n)
  BY ConfigDomains
<1>2. k \in A /\ ((\E l \in A : l # k) \/ B # {} \/ C # {})
  OBVIOUS
<1>3. 1 < Cardinality(A) + Cardinality(B) + Cardinality(C) => Collides(name)
  BY Zenon DEF Collides
<1> HIDE DEF A, B, C
<1>4. /\ Cardinality(A) \in Nat /\ Cardinality(A) >= 1
      /\ (\E l \in A : l # k) => Cardinality(A) >= 2
  BY <1>1, <1>2, OneMember
<1>5. Cardinality(B) \in Nat /\ (B # {} => Cardinality(B) >= 1)
  BY <1>1, OneMember
<1>6. Cardinality(C) \in Nat /\ (C # {} => Cardinality(C) >= 1)
  BY <1>1, OneMember
<1> QED
  BY <1>2, <1>3, <1>4, <1>5, <1>6

LEMMA CollidesNext ==
  ASSUME IsRequest(req), ConfigDenotes(mc), Retyped(mc, mc'), NEW name
  PROVE  Collides(name)' <=> Collides(name)
<1>1. /\ \A k \in DOMAIN mc.sources : mc'.sources[k].name = mc.sources[k].name
      /\ \A r \in DOMAIN mc.reports : mc'.reports[r].name = mc.reports[r].name
  BY ConfigDomains DEF Retyped, Alike
<1>2. DOMAIN mc'.nodes = DOMAIN mc.nodes /\ \A i \in DOMAIN mc.nodes : IsBuilder(i)' <=> IsBuilder(i)
  BY DEF Retyped, SameNodes, IsBuilder
<1>3. /\ {i \in DOMAIN mc'.sources : mc'.sources[i].name = name}
           = {i \in DOMAIN mc.sources : mc.sources[i].name = name}
      /\ {i \in DOMAIN mc'.reports : mc'.reports[i].name = name}
           = {i \in DOMAIN mc.reports : mc.reports[i].name = name}
      /\ {i \in DOMAIN mc'.nodes : IsBuilder(i)' /\ MsgBuilderNames[i] = name}
           = {i \in DOMAIN mc.nodes : IsBuilder(i) /\ MsgBuilderNames[i] = name}
  BY <1>1, <1>2 DEF Retyped
<1> QED
  BY <1>3, Zenon DEF Collides

-----------------------------------------------------------------------------
(* The inductive invariant of the inference. *)

\* A source, a report or a builder node whose message has the name.
Maker(name) ==
  \/ \E k \in DOMAIN mc.sources : mc.sources[k].name = name /\ SourceName(name) \in ti.inferred
  \/ \E r \in DOMAIN mc.reports : mc.reports[r].name = name
  \/ \E i \in DOMAIN mc.nodes : IsBuilder(i) /\ MsgBuilderNames[i] = name

\* A builder that is done and has no type has failed, or its name is taken.
Inferred ==
  /\ GoodInference(ti)
  /\ \A i \in DOMAIN mc.nodes :
       IsBuilder(i) /\ mc.nodes[i].name = NoType /\ MessageBuilderNode(i) \in ti.inferred =>
         Failed(ti, MessageBuilderNode(i))
  /\ \A k \in DOMAIN mc.sources : \A name :
       /\ mc.sources[k].type = "aggregator" /\ mc.sources[k].builder.type = NoType
       /\ mc.sources[k].name = name /\ SourceName(name) \in ti.inferred
       => Failed(ti, SourceName(name)) \/ Taken(name)
  /\ \A m \in Range(ti.adhoc) : Maker(m.name)

\* What a step adds to ti.
Gains(new) ==
  /\ ti.inferred \subseteq new.inferred /\ ti.messages \subseteq new.messages
  /\ ti.errs \subseteq new.errs
  /\ new.reports \subseteq ti.reports \cup DOMAIN mc.reports
  /\ Tracked(new)

LEMMA MakerNext ==
  ASSUME IsRequest(req), ConfigDenotes(mc), Retyped(mc, mc'), Gains(ti'), NEW name, Maker(name)
  PROVE  Maker(name)'
<1>1. /\ \A k \in DOMAIN mc.sources : mc'.sources[k].name = mc.sources[k].name
      /\ \A r \in DOMAIN mc.reports : mc'.reports[r].name = mc.reports[r].name
  BY ConfigDomains DEF Retyped, Alike
<1>2. DOMAIN mc'.nodes = DOMAIN mc.nodes /\ \A i \in DOMAIN mc.nodes : IsBuilder(i)' <=> IsBuilder(i)
  BY DEF Retyped, SameNodes, IsBuilder
<1>3. CASE \E k \in DOMAIN mc.sources : mc.sources[k].name = name /\ SourceName(name) \in ti.inferred
  BY <1>1, <1>3 DEF Maker, Gains, Retyped
<1>4. CASE \E r \in DOMAIN mc.reports : mc.reports[r].name = name
  BY <1>1, <1>4 DEF Maker, Retyped
<1>5. CASE \E i \in DOMAIN mc.nodes : IsBuilder(i) /\ MsgBuilderNames[i] = name
  BY <1>2, <1>5 DEF Maker
<1> QED
  BY <1>3, <1>4, <1>5 DEF Maker

LEMMA CauseNext ==
  ASSUME IsRequest(req), ConfigDenotes(mc), Retyped(mc, mc'), Gains(ti'), NEW of, NEW name
  PROVE  /\ Failed(ti, of) => Failed(ti', of)
         /\ Taken(name) => Taken(name)'
<1>1. Collides(name)' <=> Collides(name)
  BY CollidesNext
<1> QED
  BY <1>1 DEF Failed, Gains, Taken

LEMMA NodeNames ==
  /\ \A i, j : MessageBuilderNode(i) = MessageBuilderNode(j) => i = j
  /\ \A a, b : SourceName(a) = SourceName(b) => a = b
  /\ \A i, a : i # 0 => MessageBuilderNode(i) # SourceName(a)
  /\ \A i : MessageBuilderNode(i).node = i /\ MessageBuilderNode(i).source = ""
  /\ \A a : SourceName(a).node = 0 /\ SourceName(a).source = a
<1>1. \A i : MessageBuilderNode(i).node = i /\ MessageBuilderNode(i).source = ""
  BY DEF MessageBuilderNode
<1>2. \A a : SourceName(a).node = 0 /\ SourceName(a).source = a
  BY DEF SourceName
<1>3. ASSUME NEW i, NEW j, MessageBuilderNode(i) = MessageBuilderNode(j) PROVE i = j
  <2>1. MessageBuilderNode(i).node = i /\ MessageBuilderNode(j).node = j
    BY <1>1
  <2> QED
    BY <1>3, <2>1, Zenon
<1>4. ASSUME NEW a, NEW b, SourceName(a) = SourceName(b) PROVE a = b
  <2>1. SourceName(a).source = a /\ SourceName(b).source = b
    BY <1>2
  <2> QED
    BY <1>4, <2>1, Zenon
<1>5. ASSUME NEW i, NEW a, i # 0 PROVE MessageBuilderNode(i) # SourceName(a)
  <2>1. MessageBuilderNode(i).node = i /\ SourceName(a).node = 0
    BY <1>1, <1>2
  <2> QED
    BY <1>5, <2>1, Zenon
<1> QED
  BY <1>1, <1>2, <1>3, <1>4, <1>5, Zenon

(* The inference graph has the sources and the builder nodes. *)
LEMMA GraphNames ==
  ASSUME NEW n \in InferenceNodes
  PROVE  n = SourceName(n.source) \/ n = MessageBuilderNode(n.node)
<1> DEFINE declared == {SourceName(s.name) : s \in Range(mc.sources)}
             \cup {MessageBuilderNode(i) : i \in {i \in DOMAIN mc.nodes : IsBuilder(i)}}
<1>1. n \in declared \/ \E m : n \in InferenceDeps(m)
  BY Zenon DEF InferenceNodes
<1>2. (\E i : n = MessageBuilderNode(i)) \/ \E name : n = SourceName(name)
  <2>1. CASE n \in declared
    BY <2>1
  <2>2. CASE \E m : n \in InferenceDeps(m)
    <3>1. PICK root : n \in findDeps(root)
      BY <2>2, Zenon DEF InferenceDeps
    <3> QED
      BY <3>1 DEF findDeps
  <2> QED
    BY <1>1, <2>1, <2>2
<1> QED
  BY <1>2, NodeNames

LEMMA DeclaredNodes ==
  ASSUME NEW m, Untyped(m)
  PROVE  m \in InferenceNodes
<1>1. CASE \E i \in DOMAIN mc.nodes : m = MessageBuilderNode(i) /\ IsBuilder(i)
  BY <1>1, Zenon DEF InferenceNodes
<1>2. CASE \E k \in DOMAIN mc.sources : m = SourceName(mc.sources[k].name)
  BY <1>2, RangeMember, Zenon DEF InferenceNodes
<1> QED
  BY <1>1, <1>2 DEF Untyped
-----------------------------------------------------------------------------
(* The steps of the inference. *)

\* What can be missing when everything an expression refers to is done.
MissingNow == {m \in ti.inferred : Untyped(m)}

LEMMA DepsTyped ==
  ASSUME IsExpression(mc.nodes), NEW x \in 1 .. Len(mc.nodes), findDeps(x) \subseteq ti.inferred
  PROVE  IsTyping(Resolve(x), MissingNow)
<1>1. \A m \in findDeps(x) : Untyped(m) => m \in MissingNow
  BY DEF MissingNow
<1> QED
  BY <1>1, MissingFound

LEMMA BuilderNodes ==
  ASSUME NEW b, NEW r, IsExpression(mc.nodes), HasExpressions(r), BuilderDenotes(mc.nodes, b, r),
         NEW i \in DOMAIN b.fields, b.fields[i].aggregation # "count"
  PROVE  b.fields[i].node \in 1 .. Len(mc.nodes)
<1>1. i \in DOMAIN r.fields /\ FieldDenotes(mc.nodes, b.fields[i], r.fields[i])
  BY DEF BuilderDenotes
<1>2. r.fields[i].expression # Blank
  BY <1>1 DEF FieldDenotes
<1>3. Denotes(b.fields[i].node, r.fields[i].expression)
  BY <1>1, BuilderFollowsRequest DEF FollowsBuilder
<1>4. b.fields[i].node # 0
  BY <1>2, <1>3 DEF Denotes
<1>5. b.fields[i].node \in 0 .. Len(mc.nodes) /\ Len(mc.nodes) \in Nat
  BY BuilderFollowsRequest, ExpressionFacts
<1> QED
  BY <1>4, <1>5

(* An assignment that is not a count has a node. *)
LEMMA FieldNodes ==
  ASSUME IsRequest(req), ConfigDenotes(mc)
  PROVE  /\ \A k \in DOMAIN mc.sources : \A i \in DOMAIN mc.sources[k].builder.fields :
              mc.sources[k].builder.fields[i].aggregation # "count" =>
                mc.sources[k].builder.fields[i].node \in 1 .. Len(mc.nodes)
         /\ \A k \in DOMAIN mc.reports : \A i \in DOMAIN mc.reports[k].builder.fields :
              mc.reports[k].builder.fields[i].aggregation # "count" =>
                mc.reports[k].builder.fields[i].node \in 1 .. Len(mc.nodes)
<1>1. IsExpression(mc.nodes)
  BY DEF ConfigDenotes
<1>2. ASSUME NEW k \in DOMAIN mc.sources, NEW i \in DOMAIN mc.sources[k].builder.fields,
             mc.sources[k].builder.fields[i].aggregation # "count"
      PROVE  mc.sources[k].builder.fields[i].node \in 1 .. Len(mc.nodes)
  <2> DEFINE b == mc.sources[k].builder
             bs == RequestedBuilders[k]
  <2>1. k \in 1 .. NP + ND + NA /\ SourceDenotes(mc.nodes, mc.sources[k], bs)
    BY DEF ConfigDenotes
  <2>2. bs # <<>>
    BY <1>2, <2>1 DEF SourceDenotes
  <2>3. HasExpressions(bs[1]) /\ BuilderDenotes(mc.nodes, b, bs[1])
    BY <2>1, <2>2, RequestedIsBuilder DEF SourceDenotes
  <2>4. i \in DOMAIN b.fields /\ b.fields[i].aggregation # "count"
    BY <1>2
  <2> HIDE DEF b, bs
  <2>5. b.fields[i].node \in 1 .. Len(mc.nodes)
    BY <1>1, <2>3, <2>4, BuilderNodes
  <2> QED
    BY <2>5 DEF b
<1>3. ASSUME NEW k \in DOMAIN mc.reports, NEW i \in DOMAIN mc.reports[k].builder.fields,
             mc.reports[k].builder.fields[i].aggregation # "count"
      PROVE  mc.reports[k].builder.fields[i].node \in 1 .. Len(mc.nodes)
  <2> DEFINE b == mc.reports[k].builder
             r == req.report_configs[k].builder
  <2>1. k \in 1 .. NR /\ ReportDenotes(mc.nodes, mc.reports[k], req.report_configs[k])
    BY DEF ConfigDenotes
  <2>2. HasExpressions(r)
    BY <2>1, Lengths, RangeMember DEF IsRequest
  <2>3. BuilderDenotes(mc.nodes, b, r)
    BY <2>1 DEF ReportDenotes
  <2>4. i \in DOMAIN b.fields /\ b.fields[i].aggregation # "count"
    BY <1>3
  <2> HIDE DEF b, r
  <2>5. b.fields[i].node \in 1 .. Len(mc.nodes)
    BY <1>1, <2>2, <2>3, <2>4, BuilderNodes
  <2> QED
    BY <2>5 DEF b
<1> QED
  BY <1>2, <1>3

LEMMA UntypedExplained ==
  ASSUME IsRequest(req), ConfigDenotes(mc), Inferred, NEW m \in MissingNow
  PROVE  Failed(ti, m) \/ Taken(m.source)
<1>1. m \in ti.inferred /\ Untyped(m)
  BY DEF MissingNow
<1>2. CASE \E i \in DOMAIN mc.nodes :
             m = MessageBuilderNode(i) /\ IsBuilder(i) /\ mc.nodes[i].name = NoType
  BY <1>1, <1>2 DEF Inferred
<1>3. CASE \E k \in DOMAIN mc.sources :
             /\ m = SourceName(mc.sources[k].name)
             /\ mc.sources[k].type # "data_source" /\ mc.sources[k].builder.type = NoType
  <2>1. PICK k \in DOMAIN mc.sources :
             /\ m = SourceName(mc.sources[k].name)
             /\ mc.sources[k].type # "data_source" /\ mc.sources[k].builder.type = NoType
    BY <1>3
  <2>2. mc.sources[k].type = "aggregator"
    BY <2>1, ConfigDomains
  <2>3. Failed(ti, m) \/ Taken(mc.sources[k].name)
    BY <1>1, <2>1, <2>2 DEF Inferred
  <2>4. m.source = mc.sources[k].name
    BY <2>1, NodeNames
  <2> QED
    BY <2>3, <2>4
<1> QED
  BY <1>1, <1>2, <1>3 DEF Untyped

LEMMA ErrsExplained ==
  ASSUME IsRequest(req), ConfigDenotes(mc), Inferred, InferredBeforeUse, Retyped(mc, mc'),
         NEW new, NEW of, NEW name, Processed(new, of, name, MissingNow), ti'.errs = new.errs,
         Gains(ti')
  PROVE  InferredBeforeUse'
<1> SUFFICES ASSUME NEW e \in ti'.errs, NEW m \in e.missing
             PROVE  m \in ti'.inferred /\ (Failed(ti', m) \/ Taken(m.source)')
  BY DEF InferredBeforeUse, Failed
<1>1. m \in ti.inferred /\ (Failed(ti, m) \/ Taken(m.source))
  <2>1. CASE e \in ti.errs
    BY <2>1 DEF InferredBeforeUse, Failed
  <2>2. CASE e.missing \subseteq MissingNow
    <3>1. m \in MissingNow
      BY <2>2
    <3> QED
      BY <3>1, UntypedExplained DEF MissingNow
  <2> QED
    BY <2>1, <2>2 DEF Processed
<1>2. Failed(ti, m) => Failed(ti', m)
  BY CauseNext
<1> DEFINE x == m.source
<1> HIDE DEF x
<1>3. Taken(x) => Taken(x)'
  BY CauseNext
<1>4. Taken(m.source) => Taken(m.source)'
  BY <1>3 DEF x
<1> QED
  BY <1>1, <1>2, <1>4 DEF Gains

LEMMA InferredStays ==
  ASSUME IsRequest(req), ConfigDenotes(mc), Inferred, Retyped(mc, mc'), Gains(ti'),
         GoodInference(ti'), NEW N, ti'.inferred \subseteq ti.inferred \cup N,
         \A i \in DOMAIN mc.nodes :
           IsBuilder(i) /\ mc'.nodes[i].name = NoType =>
             IF MessageBuilderNode(i) \in N THEN Failed(ti', MessageBuilderNode(i))
             ELSE mc.nodes[i].name = NoType,
         \A k \in DOMAIN mc.sources : \A name :
           /\ mc.sources[k].type = "aggregator" /\ mc'.sources[k].builder.type = NoType
           /\ mc.sources[k].name = name
           => IF SourceName(name) \in N THEN Failed(ti', SourceName(name)) \/ Taken(name)'
              ELSE mc.sources[k].builder.type = NoType,
         \A m \in Range(ti'.adhoc) : m \in Range(ti.adhoc) \/ Maker(m.name)'
  PROVE  Inferred'
<1>1. DOMAIN mc'.nodes = DOMAIN mc.nodes /\ \A i \in DOMAIN mc.nodes : IsBuilder(i)' <=> IsBuilder(i)
  BY DEF Retyped, SameNodes, IsBuilder
<1>2. /\ DOMAIN mc'.sources = DOMAIN mc.sources
      /\ \A k \in DOMAIN mc.sources :
           /\ mc'.sources[k].name = mc.sources[k].name
           /\ mc'.sources[k].type = mc.sources[k].type
  BY ConfigDomains DEF Retyped, Alike
<1>3. ASSUME NEW i \in DOMAIN mc.nodes, IsBuilder(i), mc'.nodes[i].name = NoType,
             MessageBuilderNode(i) \in ti'.inferred
      PROVE  Failed(ti', MessageBuilderNode(i))
  <2>1. CASE MessageBuilderNode(i) \in N
    BY <1>3, <2>1
  <2>2. CASE MessageBuilderNode(i) \notin N
    <3>1. mc.nodes[i].name = NoType /\ MessageBuilderNode(i) \in ti.inferred
      BY <1>3, <2>2
    <3>2. Failed(ti, MessageBuilderNode(i))
      BY <1>3, <3>1 DEF Inferred
    <3> QED
      BY <3>2 DEF Failed, Gains
  <2> QED
    BY <2>1, <2>2
<1>4. ASSUME NEW k \in DOMAIN mc.sources, NEW name, mc.sources[k].type = "aggregator",
             mc'.sources[k].builder.type = NoType, mc.sources[k].name = name,
             SourceName(name) \in ti'.inferred
      PROVE  Failed(ti', SourceName(name)) \/ Taken(name)'
  <2>1. CASE SourceName(name) \in N
    BY <1>4, <2>1
  <2>2. CASE SourceName(name) \notin N
    <3>1. mc.sources[k].builder.type = NoType /\ SourceName(name) \in ti.inferred
      BY <1>4, <2>2
    <3>2. Failed(ti, SourceName(name)) \/ Taken(name)
      BY <1>4, <3>1 DEF Inferred
    <3>3. Taken(name) => Taken(name)'
      BY CauseNext
    <3> QED
      BY <3>2, <3>3 DEF Failed, Gains
  <2> QED
    BY <2>1, <2>2
<1>5. ASSUME NEW m \in Range(ti'.adhoc) PROVE Maker(m.name)'
  <2>1. CASE m \in Range(ti.adhoc)
    <3>1. Maker(m.name)
      BY <2>1 DEF Inferred
    <3>2. PICK x : x = m.name
      OBVIOUS
    <3>3. Maker(x) => Maker(x)'
      BY MakerNext
    <3> QED
      BY <3>1, <3>2, <3>3
  <2> QED
    BY <1>5, <2>1
<1> QED
  BY <1>1, <1>2, <1>3, <1>4, <1>5 DEF Inferred

LEMMA StepFacts ==
  ASSUME NEW new, NEW of, NEW name, NEW M, Processed(new, of, name, M), NEW n,
         ti' = [new EXCEPT !.inferred = @ \cup {n}]
  PROVE  /\ GoodInference(ti') /\ Gains(ti')
         /\ ti'.errs = new.errs /\ ti'.adhoc = new.adhoc
         /\ ti'.inferred = ti.inferred \cup {n}
<1>1. DOMAIN new = TiFields
  BY DEF Processed, GoodInference
<1>2. /\ DOMAIN ti' = TiFields /\ ti'.errs = new.errs /\ ti'.adhoc = new.adhoc
      /\ ti'.messages = new.messages /\ ti'.inferred = new.inferred \cup {n}
      /\ ti'.enums = new.enums /\ ti'.deps = new.deps /\ ti'.reports = new.reports
  BY <1>1 DEF TiFields
<1> QED
  BY <1>2 DEF Processed, GoodInference, Gains, Tracked

LEMMA ReportStepFacts ==
  ASSUME NEW new, NEW of, NEW name, NEW M, Processed(new, of, name, M),
         NEW r \in DOMAIN mc.reports,
         ti' = [new EXCEPT !.reports = @ \cup {r}]
  PROVE  /\ GoodInference(ti') /\ Gains(ti')
         /\ ti'.errs = new.errs /\ ti'.adhoc = new.adhoc
         /\ ti'.inferred = ti.inferred
<1>1. DOMAIN new = TiFields
  BY DEF Processed, GoodInference
<1>2. /\ DOMAIN ti' = TiFields /\ ti'.errs = new.errs /\ ti'.adhoc = new.adhoc
      /\ ti'.messages = new.messages /\ ti'.inferred = new.inferred
      /\ ti'.enums = new.enums /\ ti'.deps = new.deps /\ ti'.reports = new.reports \cup {r}
  BY <1>1 DEF TiFields
<1> QED
  BY <1>2 DEF Processed, GoodInference, Gains, Tracked

LEMMA BuilderNodeInferred ==
  ASSUME IsRequest(req), ConfigDenotes(mc), Inferred, InferredBeforeUse, NEW n, Ready(n), n.node # 0,
         NEW built, built = processExpressionNodeMessageBuilder(n.node),
         ti' = [built.ti EXCEPT !.inferred = @ \cup {n}],
         mc' = [mc EXCEPT !.nodes[n.node].name = built.type]
  PROVE  Inferred' /\ InferredBeforeUse' /\ Gains(ti')
<1>1. /\ n \in InferenceNodes /\ InferenceDeps(n) \subseteq ti.inferred /\ GoodInference(ti)
      /\ IsExpression(mc.nodes) /\ DOMAIN mc = ConfigFields
  BY DEF Ready, Inferred, ConfigDenotes, ConfigFields
<1> DEFINE i == n.node
           name == MsgBuilderNames[i]
<1>2. IsBuilder(i) /\ n = MessageBuilderNode(i)
  <2>1. IsBuilder(i)
    BY <1>1, GraphBuilders
  <2>2. n = SourceName(n.source) \/ n = MessageBuilderNode(i)
    BY <1>1, GraphNames
  <2>3. n # SourceName(n.source)
    BY NodeNames
  <2> QED
    BY <2>1, <2>2, <2>3
<1>3. i \in DOMAIN mc.nodes /\ DOMAIN mc.nodes = 1 .. Len(mc.nodes) /\ Len(mc.nodes) \in Nat
      /\ \A a \in DOMAIN mc.nodes[i].args : mc.nodes[i].args[a] \in 1 .. i - 1
  BY <1>1, <1>2, ExpressionFacts DEF IsBuilder
<1>4. ASSUME NEW x \in Range(mc.nodes[i].args) PROVE IsTyping(Resolve(x), MissingNow)
  <2>1. x \in 1 .. Len(mc.nodes)
    BY <1>3, RangeAt
  <2>2. findDeps(x) \subseteq InferenceDeps(n)
    BY <1>4, Zenon DEF InferenceDeps
  <2> QED
    BY <1>1, <2>1, <2>2, DepsTyped
<1>5. /\ Processed(built.ti, n, name, MissingNow)
      /\ built.type = NoType => Failed(built.ti, n)
  BY <1>1, <1>2, <1>4, NodeProcessed
<1>6. Retyped(mc, mc')
  BY <1>2, NodeTyped
<1>7. /\ mc'.sources = mc.sources
      /\ mc'.nodes[i].name = built.type
      /\ \A j \in DOMAIN mc.nodes : j # i => mc'.nodes[j] = mc.nodes[j]
  <2>1. DOMAIN mc.nodes[i] = NodeFields
    BY <1>1, <1>3, ExpressionFacts DEF IsExpression, NodeFields
  <2> QED
    BY <1>1, <1>3, <2>1 DEF ConfigFields, NodeFields
<1> HIDE DEF name, i
<1>8. /\ GoodInference(ti') /\ Gains(ti')
      /\ ti'.errs = built.ti.errs /\ ti'.adhoc = built.ti.adhoc
      /\ ti'.inferred = ti.inferred \cup {n}
  BY <1>5, StepFacts
<1>9. InferredBeforeUse'
  BY <1>5, <1>6, <1>8, ErrsExplained
<1>10. ASSUME NEW j \in DOMAIN mc.nodes, IsBuilder(j), mc'.nodes[j].name = NoType
       PROVE  IF MessageBuilderNode(j) \in {n} THEN Failed(ti', MessageBuilderNode(j))
              ELSE mc.nodes[j].name = NoType
  <2>1. CASE j = i
    BY <1>2, <1>5, <1>7, <1>8, <1>10, <2>1 DEF Failed
  <2>2. CASE j # i
    BY <1>2, <1>7, <1>10, <2>2, NodeNames
  <2> QED
    BY <2>1, <2>2
<1>11. ASSUME NEW k \in DOMAIN mc.sources PROVE SourceName(mc.sources[k].name) # n
  <2>1. i # 0
    BY DEF i
  <2> QED
    BY <1>2, <2>1, NodeNames
<1>12. ASSUME NEW m \in Range(ti'.adhoc) PROVE m \in Range(ti.adhoc) \/ Maker(m.name)'
  <2>1. m \in Range(ti.adhoc) \/ m.name = name
    BY <1>5, <1>8 DEF Processed
  <2>2. Maker(name)'
    <3>1. i \in DOMAIN mc'.nodes /\ IsBuilder(i)' /\ name = MsgBuilderNames[i]
      BY <1>2, <1>3, <1>6 DEF Retyped, SameNodes, IsBuilder, name
    <3> QED
      BY <3>1 DEF Maker, name, i
  <2> QED
    BY <2>1, <2>2
<1>13. Inferred'
  BY <1>6, <1>7, <1>8, <1>10, <1>11, <1>12, InferredStays
<1> QED
  BY <1>8, <1>9, <1>13

LEMMA SourcePassed ==
  ASSUME IsRequest(req), ConfigDenotes(mc), Inferred, InferredBeforeUse, NEW n, Ready(n), n.node = 0,
         Aggregators(n.source) = {}, ti' = [ti EXCEPT !.inferred = @ \cup {n}], mc' = mc
  PROVE  Inferred' /\ InferredBeforeUse' /\ Gains(ti')
<1>1. n \in InferenceNodes /\ GoodInference(ti) /\ IsExpression(mc.nodes)
  BY DEF Ready, Inferred, ConfigDenotes
<1>2. Processed(ti, n, n.source, MissingNow)
  BY <1>1, ProcessedNothing
<1>3. /\ GoodInference(ti') /\ Gains(ti')
      /\ ti'.errs = ti.errs /\ ti'.adhoc = ti.adhoc
      /\ ti'.inferred = ti.inferred \cup {n}
  BY <1>2, StepFacts
<1>4. Retyped(mc, mc')
  BY <1>1, AlikeItself, CarriesItself DEF Retyped
<1>5. InferredBeforeUse'
  BY <1>2, <1>3, <1>4, ErrsExplained
<1>6. ASSUME NEW j \in DOMAIN mc.nodes PROVE MessageBuilderNode(j) # n
  <2>1. j # 0
    BY <1>1, ExpressionFacts
  <2> QED
    BY <2>1, NodeNames
<1>7. ASSUME NEW k \in DOMAIN mc.sources, mc.sources[k].type = "aggregator"
      PROVE  SourceName(mc.sources[k].name) # n
  <2>1. mc.sources[k].name # n.source
    BY <1>7 DEF Aggregators
  <2> QED
    BY <2>1, NodeNames
<1>8. Inferred'
  <2> DEFINE N == {n}
  <2>1. /\ \A j \in DOMAIN mc.nodes : MessageBuilderNode(j) \notin N
        /\ \A k \in DOMAIN mc.sources : \A name :
             mc.sources[k].type = "aggregator" /\ mc.sources[k].name = name => SourceName(name) \notin N
        /\ ti'.inferred \subseteq ti.inferred \cup N
    BY <1>3, <1>6, <1>7
  <2> HIDE DEF N
  <2>2. /\ \A i \in DOMAIN mc.nodes :
             IsBuilder(i) /\ mc'.nodes[i].name = NoType =>
               IF MessageBuilderNode(i) \in N THEN Failed(ti', MessageBuilderNode(i))
               ELSE mc.nodes[i].name = NoType
        /\ \A k \in DOMAIN mc.sources : \A name :
             /\ mc.sources[k].type = "aggregator" /\ mc'.sources[k].builder.type = NoType
             /\ mc.sources[k].name = name
             => IF SourceName(name) \in N THEN Failed(ti', SourceName(name)) \/ Taken(name)'
                ELSE mc.sources[k].builder.type = NoType
        /\ \A m \in Range(ti'.adhoc) : m \in Range(ti.adhoc) \/ Maker(m.name)'
    BY <1>3, <2>1, Zenon
  <2> QED
    BY <1>3, <1>4, <2>1, <2>2, InferredStays
<1> QED
  BY <1>3, <1>5, <1>8

(* The message of an aggregator that is not processed yet has the name of another. *)
LEMMA NameTaken ==
  ASSUME IsRequest(req), ConfigDenotes(mc), Inferred, NEW name, NEW k \in DOMAIN mc.sources,
         mc.sources[k].name = name, SourceName(name) \notin ti.inferred,
         IsTypeInOutputDescriptors(<<AdhocPackage, name>>)
  PROVE  Taken(name)
<1>1. <<AdhocPackage, name>>[1] # Google
  BY DEF AdhocPackage, Google
<1>2. CASE <<AdhocPackage, name>> \in ti.messages
  BY <1>2 DEF Taken
<1>3. CASE findAdhocMessage(<<AdhocPackage, name>>) # {}
  <2>1. PICK m \in Range(ti.adhoc) : <<AdhocPackage, name>> = <<AdhocPackage, m.name>>
    BY <1>3 DEF findAdhocMessage
  <2>2. m.name = name
    BY <2>1
  <2>3. Maker(name)
    BY <2>1, <2>2 DEF Inferred
  <2>4. \/ \E r \in DOMAIN mc.reports : mc.reports[r].name = name
        \/ \E i \in DOMAIN mc.nodes : IsBuilder(i) /\ MsgBuilderNames[i] = name
    BY <2>3 DEF Maker
  <2> QED
    BY <2>4, SharedName DEF Taken
<1> QED
  BY <1>1, <1>2, <1>3, Zenon DEF IsTypeInOutputDescriptors

LEMMA SourceFieldsTyped ==
  ASSUME IsRequest(req), ConfigDenotes(mc), NEW n, Ready(n), n.node = 0,
         NEW k \in Aggregators(n.source)
  PROVE  \A i \in DOMAIN mc.sources[k].builder.fields :
           mc.sources[k].builder.fields[i].aggregation # "count" =>
             IsTyping(Resolve(mc.sources[k].builder.fields[i].node), MissingNow)
<1> DEFINE b == mc.sources[k].builder
<1>1. k \in DOMAIN mc.sources /\ mc.sources[k].name = n.source /\ IsExpression(mc.nodes)
  BY DEF Aggregators, ConfigDenotes
<1> SUFFICES ASSUME NEW i \in DOMAIN b.fields, b.fields[i].aggregation # "count"
             PROVE  IsTyping(Resolve(b.fields[i].node), MissingNow)
  OBVIOUS
<1> DEFINE x == b.fields[i].node
<1>2. x \in 1 .. Len(mc.nodes)
  BY <1>1, FieldNodes
<1>3. x \in NodesOf(b)
  <2>1. b.fields[i] \in Range(b.fields) /\ x # 0
    BY <1>1, <1>2, RangeMember, ExpressionFacts
  <2> QED
    BY <2>1, Zenon DEF NodesOf
<1>4. mc.sources[k] \in {s \in Range(mc.sources) : s.name = n.source}
  BY <1>1, RangeMember
<1>5. findDeps(x) \subseteq InferenceDeps(n)
  <2> DEFINE S == {s \in Range(mc.sources) : s.name = n.source}
             R == UNION {NodesOf(s.builder) : s \in S}
  <2>1. x \in R
    BY <1>3, <1>4
  <2>2. InferenceDeps(n) = UNION {findDeps(j) : j \in R}
    BY Zenon DEF InferenceDeps
  <2> HIDE DEF x, R
  <2>3. findDeps(x) \subseteq UNION {findDeps(j) : j \in R}
    BY <2>1, Zenon
  <2> QED
    BY <2>2, <2>3, Zenon
<1>6. findDeps(x) \subseteq ti.inferred
  BY <1>5 DEF Ready
<1> QED
  BY <1>1, <1>2, <1>6, DepsTyped

LEMMA AggregatorInferred ==
  ASSUME IsRequest(req), ConfigDenotes(mc), Inferred, InferredBeforeUse, NEW n, Ready(n), n.node = 0,
         NEW k \in Aggregators(n.source),
         NEW built, built = processMessageBuilder(n, n.source, mc.sources[k].builder),
         ti' = [built.ti EXCEPT !.inferred = @ \cup {n}],
         mc' = [mc EXCEPT !.sources[k].builder = Typing(@, built.type)]
  PROVE  Inferred' /\ InferredBeforeUse' /\ Gains(ti')
<1>1. /\ n \in InferenceNodes /\ n \notin ti.inferred /\ GoodInference(ti)
      /\ IsExpression(mc.nodes) /\ DOMAIN mc = ConfigFields
      /\ k \in DOMAIN mc.sources /\ mc.sources[k].name = n.source
  BY DEF Ready, Inferred, ConfigDenotes, ConfigFields, Aggregators
<1> DEFINE name == n.source
           b == mc.sources[k].builder
<1>2. n = SourceName(name)
  <2>1. n = SourceName(n.source) \/ n = MessageBuilderNode(n.node)
    BY <1>1, GraphNames
  <2>2. ASSUME n = MessageBuilderNode(n.node) PROVE n = SourceName(n.source)
    BY <2>2 DEF MessageBuilderNode, SourceName
  <2> QED
    BY <2>1, <2>2
<1>3. /\ Processed(built.ti, n, name, MissingNow)
      /\ built.type = NoType =>
           Failed(built.ti, n) \/ IsTypeInOutputDescriptors(<<AdhocPackage, name>>)
  <2>1. \A i \in DOMAIN b.fields :
          b.fields[i].aggregation # "count" => IsTyping(Resolve(b.fields[i].node), MissingNow)
    BY SourceFieldsTyped
  <2>2. built = processMessageBuilder(n, name, b) /\ IsFiniteSet(DOMAIN b.fields)
    BY <1>1, BuilderFields
  <2> HIDE DEF b, name
  <2> QED
    BY <1>1, <2>1, <2>2, BuilderProcessed
<1>4. Retyped(mc, mc')
  BY <1>1, SourceTyped
<1>5. /\ mc'.nodes = mc.nodes
      /\ mc'.sources[k].builder.type = built.type
      /\ \A j \in DOMAIN mc.sources : j # k => mc'.sources[j] = mc.sources[j]
  <2> DEFINE y  == [mc.sources[k] EXCEPT !.builder = Typing(b, built.type)]
             ss == [mc.sources EXCEPT ![k] = y]
  <2>1. mc' = [mc EXCEPT !.sources = ss]
    OBVIOUS
  <2>2. y.builder.type = built.type
    <3>1. Typing(b, built.type).type = built.type
      BY <1>1, BuilderFields DEF Typing
    <3>2. y.builder = Typing(b, built.type)
      BY <1>1, BuilderFields
    <3> QED
      BY <3>1, <3>2
  <2> HIDE DEF y
  <2>3. ss[k] = y /\ \A j \in DOMAIN mc.sources : j # k => ss[j] = mc.sources[j]
    BY <1>1
  <2> HIDE DEF ss
  <2>4. mc'.sources = ss /\ mc'.nodes = mc.nodes
    BY <1>1, <2>1 DEF ConfigFields
  <2> QED
    BY <2>2, <2>3, <2>4
<1> HIDE DEF b, name
<1>6. /\ GoodInference(ti') /\ Gains(ti')
      /\ ti'.errs = built.ti.errs /\ ti'.adhoc = built.ti.adhoc
      /\ ti'.inferred = ti.inferred \cup {n}
  BY <1>3, StepFacts
<1>7. InferredBeforeUse'
  BY <1>3, <1>4, <1>6, ErrsExplained
<1>8. ASSUME NEW j \in DOMAIN mc.nodes PROVE MessageBuilderNode(j) # n
  <2>1. j # 0
    BY <1>1, ExpressionFacts
  <2> QED
    BY <1>2, <2>1, NodeNames
<1>9. Taken(name) => Taken(name)'
  BY <1>4, <1>6, CauseNext
<1>10. ASSUME NEW j \in DOMAIN mc.sources, NEW other, mc.sources[j].type = "aggregator",
              mc'.sources[j].builder.type = NoType, mc.sources[j].name = other
       PROVE  IF SourceName(other) \in {n}
              THEN Failed(ti', SourceName(other)) \/ Taken(other)'
              ELSE mc.sources[j].builder.type = NoType
  <2>1. CASE other # name
    <3>1. SourceName(other) # n /\ j # k
      BY <1>1, <1>2, <1>10, <2>1, NodeNames DEF name
    <3> QED
      BY <1>5, <1>10, <3>1
  <2>2. CASE other = name /\ j # k
    <3>1. Collides(name)
      BY <1>1, <1>10, <2>2, SharedName DEF name
    <3> QED
      BY <1>2, <1>9, <2>2, <3>1 DEF Taken
  <2>3. CASE other = name /\ j = k
    <3>1. built.type = NoType
      BY <1>5, <1>10, <2>3
    <3>2. CASE Failed(built.ti, n)
      BY <1>2, <1>6, <2>3, <3>2 DEF Failed
    <3>3. CASE IsTypeInOutputDescriptors(<<AdhocPackage, name>>)
      <4>1. Taken(name)
        BY <1>1, <1>2, <3>3, NameTaken DEF name
      <4> QED
        BY <1>2, <1>9, <2>3, <4>1
    <3> QED
      BY <1>3, <3>1, <3>2, <3>3
  <2> QED
    BY <2>1, <2>2, <2>3
<1>11. ASSUME NEW m \in Range(ti'.adhoc) PROVE m \in Range(ti.adhoc) \/ Maker(m.name)'
  <2>1. m \in Range(ti.adhoc) \/ m.name = name
    BY <1>3, <1>6 DEF Processed
  <2>2. Maker(name)'
    <3>1. k \in DOMAIN mc'.sources /\ mc'.sources[k].name = mc.sources[k].name
      <4>1. k \in DOMAIN mc'.sources /\ Alike(mc.sources[k], mc'.sources[k])
        BY <1>1, <1>4 DEF Retyped
      <4>2. "name" \in DOMAIN mc.sources[k] \ {"builder"}
        BY <1>1, ConfigDomains
      <4> QED
        BY <4>1, <4>2 DEF Alike
    <3>2. mc.sources[k].name = name /\ SourceName(name) \in ti'.inferred
      BY <1>1, <1>2, <1>6 DEF name
    <3> QED
      BY <3>1, <3>2 DEF Maker, name
  <2> QED
    BY <2>1, <2>2
<1>12. Inferred'
  BY <1>4, <1>5, <1>6, <1>8, <1>10, <1>11, InferredStays
<1> QED
  BY <1>6, <1>7, <1>12

LEMMA ReportInferred ==
  ASSUME IsRequest(req), ConfigDenotes(mc), Inferred, InferredBeforeUse, NEW r \in DOMAIN mc.reports,
         InferReport(r)
  PROVE  Inferred' /\ InferredBeforeUse' /\ Gains(ti')
<1> DEFINE name == mc.reports[r].name
           of == [source |-> name, node |-> -1]
           b == mc.reports[r].builder
<1>1. PICK built : /\ built = processMessageBuilder(of, name, b)
                   /\ ti' = [built.ti EXCEPT !.reports = @ \cup {r}]
                   /\ mc' = [mc EXCEPT !.reports[r].builder = Typing(@, built.type)]
  BY Zenon DEF InferReport
<1>2. /\ InferenceNodes \subseteq ti.inferred /\ GoodInference(ti)
      /\ IsExpression(mc.nodes) /\ DOMAIN mc = ConfigFields
  BY DEF InferReport, Inferred, ConfigDenotes, ConfigFields
<1>3. ASSUME NEW i \in DOMAIN b.fields, b.fields[i].aggregation # "count"
      PROVE  IsTyping(Resolve(b.fields[i].node), MissingNow)
  <2>1. b.fields[i].node \in 1 .. Len(mc.nodes)
    BY <1>3, FieldNodes
  <2>2. \A m : Untyped(m) => m \in MissingNow
    BY <1>2, DeclaredNodes DEF MissingNow
  <2> QED
    BY <1>2, <2>1, <2>2, MissingFound
<1>4. Retyped(mc, mc')
  BY <1>1, ReportTyped
<1>5. mc'.nodes = mc.nodes /\ mc'.sources = mc.sources
  BY <1>1, <1>2 DEF ConfigFields
<1>6. r \in DOMAIN mc'.reports /\ mc'.reports[r].name = mc.reports[r].name
  <2>1. r \in DOMAIN mc'.reports /\ Alike(mc.reports[r], mc'.reports[r])
    BY <1>4 DEF Retyped
  <2>2. "name" \in DOMAIN mc.reports[r] \ {"builder"}
    BY ConfigDomains
  <2> QED
    BY <2>1, <2>2 DEF Alike
<1>f. IsFiniteSet(DOMAIN b.fields)
  BY BuilderFields
<1> HIDE DEF b, of
<1>7. PICK x : x = name
  OBVIOUS
<1>8. Processed(built.ti, of, x, MissingNow)
  BY <1>1, <1>2, <1>3, <1>7, <1>f, BuilderProcessed
<1> HIDE DEF name
<1>9. /\ GoodInference(ti') /\ Gains(ti')
      /\ ti'.errs = built.ti.errs /\ ti'.adhoc = built.ti.adhoc
      /\ ti'.inferred = ti.inferred
  BY <1>1, <1>8, ReportStepFacts
<1>10. InferredBeforeUse'
  BY <1>4, <1>8, <1>9, ErrsExplained
<1>11. Maker(x)'
  BY <1>6, <1>7 DEF Maker, name
<1>12. \A m \in Range(ti'.adhoc) : m \in Range(ti.adhoc) \/ Maker(m.name)'
  BY <1>8, <1>9, <1>11 DEF Processed
<1>13. Inferred'
  <2> DEFINE N == {}
  <2>1. /\ \A i \in DOMAIN mc.nodes :
             IsBuilder(i) /\ mc'.nodes[i].name = NoType =>
               IF MessageBuilderNode(i) \in N THEN Failed(ti', MessageBuilderNode(i))
               ELSE mc.nodes[i].name = NoType
        /\ \A k \in DOMAIN mc.sources : \A other :
             /\ mc.sources[k].type = "aggregator" /\ mc'.sources[k].builder.type = NoType
             /\ mc.sources[k].name = other
             => IF SourceName(other) \in N THEN Failed(ti', SourceName(other)) \/ Taken(other)'
                ELSE mc.sources[k].builder.type = NoType
        /\ ti'.inferred \subseteq ti.inferred \cup N
    BY <1>5, <1>9
  <2> HIDE DEF N
  <2> QED
    BY <1>4, <1>9, <1>12, <2>1, InferredStays
<1> QED
  BY <1>9, <1>10, <1>13

LEMMA InferenceStep ==
  ASSUME IsRequest(req), ConfigDenotes(mc), Inferred, InferredBeforeUse, InferNext
  PROVE  Inferred' /\ InferredBeforeUse' /\ Gains(ti')
<1>1. ASSUME NEW n \in InferenceNodes, InferNode(n) PROVE Inferred' /\ InferredBeforeUse' /\ Gains(ti')
  <2>1. CASE /\ n.node # 0
             /\ \E built \in {processExpressionNodeMessageBuilder(n.node)} :
                  /\ ti' = [built.ti EXCEPT !.inferred = @ \cup {n}]
                  /\ mc' = [mc EXCEPT !.nodes[n.node].name = built.type]
    BY <1>1, <2>1, BuilderNodeInferred DEF InferNode
  <2>2. CASE /\ n.node = 0 /\ Aggregators(n.source) = {}
             /\ ti' = [ti EXCEPT !.inferred = @ \cup {n}]
             /\ UNCHANGED mc
    BY <1>1, <2>2, SourcePassed DEF InferNode
  <2>3. CASE /\ n.node = 0
             /\ \E k \in Aggregators(n.source) :
                  \E built \in {processMessageBuilder(n, n.source, mc.sources[k].builder)} :
                    /\ ti' = [built.ti EXCEPT !.inferred = @ \cup {n}]
                    /\ mc' = [mc EXCEPT !.sources[k].builder = Typing(@, built.type)]
    BY <1>1, <2>3, AggregatorInferred DEF InferNode
  <2> QED
    BY <1>1, <2>1, <2>2, <2>3, Zenon DEF InferNode
<1>2. ASSUME NEW r \in DOMAIN mc.reports, InferReport(r) PROVE Inferred' /\ InferredBeforeUse' /\ Gains(ti')
  BY <1>2, ReportInferred
<1> QED
  BY <1>1, <1>2, Zenon DEF InferNext

\* Errors end the request: a step that forgets what a builder's type was taken for,
\* or works on another configuration, comes only without them.
InferenceInv ==
  /\ DOMAIN ti = TiFields
  /\ stage \notin {"received", "validate", "answered"} => req.endpoint = "compile"
  /\ ti.errs # {} =>
       req.endpoint = "compile" /\ (stage = "infer" \/ (stage = "answered" /\ answer # "ok"))
  /\ stage = "infer" => Inferred
  /\ InferredBeforeUse

LEMMA SameInference ==
  ASSUME UNCHANGED <<mc, ti>>
  PROVE  (Inferred' <=> Inferred) /\ (InferredBeforeUse' <=> InferredBeforeUse)
<1>1. ASSUME NEW name PROVE Taken(name)' <=> Taken(name)
  BY DEF Taken, Collides, IsBuilder
<1>2. ASSUME NEW name PROVE Maker(name)' <=> Maker(name)
  BY DEF Maker, IsBuilder
<1>3. \A i : IsBuilder(i)' <=> IsBuilder(i)
  BY DEF IsBuilder
<1>4. Inferred' <=> Inferred
  BY <1>1, <1>2, <1>3 DEF Inferred
<1> QED
  BY <1>1, <1>4 DEF InferredBeforeUse

LEMMA NewInference ==
  ASSUME NEW h, ti' = NewTypeInference(h)
  PROVE  DOMAIN ti' = TiFields /\ ti'.errs = {} /\ Inferred' /\ InferredBeforeUse'
<1>1. /\ DOMAIN ti' = TiFields /\ ti'.errs = {} /\ ti'.inferred = {} /\ ti'.adhoc = <<>>
      /\ ti'.deps = {}
  BY DEF NewTypeInference, TiFields
<1>2. Inferred'
  BY <1>1, EmptyFacts, FS_EmptySet DEF Inferred, GoodInference
<1> QED
  BY <1>1, <1>2 DEF InferredBeforeUse

LEMMA InitInference == ASSUME Init PROVE InferenceInv
<1>1. /\ DOMAIN ti = TiFields /\ ti.errs = {} /\ stage = "received"
  BY DEF Init, NewTypeInference, TiFields
<1> QED
  BY <1>1 DEF InferenceInv, InferredBeforeUse

LEMMA NextInference == ASSUME SessionInv, InferenceInv, [Next]_vars PROVE InferenceInv'
<1>1. CASE UNCHANGED vars \/ Done
  <2>1. UNCHANGED <<req, mc, ti, stage, answer>>
    BY <1>1 DEF Done, vars
  <2> QED
    BY <2>1, SameInference DEF InferenceInv
<1>2. CASE \/ Receive \/ initializeTypeRegistry \/ extendRegistryWithCustomDescriptors
           \/ RegistryExtended \/ RegistryFails \/ FinishSession
           \/ parseTriggers \/ parseDeprecatedSources \/ parseDataSources \/ parseAggregators
           \/ parseReportConfigs \/ HarvestEnds \/ PruneNext \/ PruneEnds \/ Compiled \/ Validated
  <2>1. /\ UNCHANGED <<req, mc, ti>>
        /\ stage = "received" => req.endpoint = "compile"
        /\ stage \in {"received", "signals", "descriptors", "session", "triggers", "publishers",
                      "data_sources", "aggregators", "report_configs", "harvest", "prune",
                      "compiled", "validate"}
        /\ stage' \in {"signals", "descriptors", "triggers", "publishers", "data_sources",
                       "aggregators", "report_configs", "session", "compile", "prune", "shaken",
                       "validate", "answered"}
        /\ stage = "validate" => stage' = "answered"
    BY <1>2
       DEF Receive, initializeTypeRegistry, extendRegistryWithCustomDescriptors, RegistryExtended,
           RegistryFails, FinishSession, parseTriggers, parseDeprecatedSources, parseDataSources,
           parseAggregators, parseReportConfigs, Parsing, HarvestEnds, PruneNext, PruneEnds,
           Compiled, Validated, Answer
  <2> QED
    BY <2>1, SameInference DEF InferenceInv
<1>3. CASE RegisterNext
  <2>1. UNCHANGED <<req, mc, ti, stage, answer>>
    BY <1>3 DEF RegisterNext
  <2> QED
    BY <2>1, SameInference DEF InferenceInv
<1>4. CASE compileSession
  <2>1. /\ stage = "compile" /\ req' = req /\ stage' \in {"answered", "compiled", "infer"}
        /\ ti' = NewTypeInference(sess.hints) \/ UNCHANGED <<mc, ti>>
        /\ UNCHANGED <<mc, ti>> => stage' = "answered" \/ ti' = NewTypeInference(sess.hints)
    BY <1>4, Zenon DEF compileSession, Answer
  <2>2. CASE ti' = NewTypeInference(sess.hints)
    <3>1. PICK h : h = sess.hints
      OBVIOUS
    <3>2. DOMAIN ti' = TiFields /\ ti'.errs = {} /\ Inferred' /\ InferredBeforeUse'
      BY <2>2, <3>1, NewInference
    <3> QED
      BY <2>1, <3>2 DEF InferenceInv
  <2>3. CASE UNCHANGED <<mc, ti>> /\ stage' = "answered"
    BY <2>1, <2>3, SameInference DEF InferenceInv
  <2> QED
    BY <2>1, <2>2, <2>3
<1>5. CASE CyclicDependency
  <2>1. /\ UNCHANGED <<req, mc, ti>> /\ stage = "infer" /\ stage' = "answered"
        /\ answer' = "bad_request"
    BY <1>5 DEF CyclicDependency, Answer
  <2> QED
    BY <2>1, SameInference DEF InferenceInv
<1>6. CASE InferNext
  <2>1. UNCHANGED <<req, stage, answer>> /\ stage = "infer"
    BY <1>6 DEF InferNext
  <2>2. Inferred /\ InferredBeforeUse /\ IsRequest(req) /\ ConfigDenotes(mc)
    BY <2>1 DEF InferenceInv, SessionInv, UnderWay
  <2>3. Inferred' /\ InferredBeforeUse'
    BY <1>6, <2>2, InferenceStep
  <2>4. DOMAIN ti' = TiFields
    BY <2>3 DEF Inferred, GoodInference
  <2> QED
    BY <2>1, <2>3, <2>4 DEF InferenceInv
<1>7. CASE InferTriggers
  <2>1. /\ UNCHANGED <<req, mc, ti>> /\ stage = "infer"
        /\ \/ ti.errs = {} /\ stage' = "harvest"
           \/ stage' = "answered" /\ answer' = "bad_request"
    BY <1>7 DEF InferTriggers, Answer
  <2> QED
    BY <2>1, SameInference DEF InferenceInv
<1>8. CASE HarvestNext
  <2>1. /\ UNCHANGED <<req, stage>> /\ stage = "harvest"
        /\ \/ \E name : ti' = [ti EXCEPT !.messages = @ \ {name}]
           \/ \E name : ti' = [ti EXCEPT !.enums = @ \ {name}]
    BY <1>8, Zenon DEF HarvestNext
  <2>2. DOMAIN ti = TiFields /\ ti.errs = {} /\ req.endpoint = "compile"
    BY <2>1 DEF InferenceInv
  <2>3. DOMAIN ti' = TiFields /\ ti'.errs = {}
    BY <2>1, <2>2 DEF TiFields
  <2> QED
    BY <2>1, <2>2, <2>3 DEF InferenceInv, InferredBeforeUse
<1>9. CASE SetDescriptors
  <2>1. UNCHANGED <<req, ti>> /\ stage = "shaken" /\ stage' \in {"answered", "compiled"}
    BY <1>9 DEF SetDescriptors, Answer
  <2> QED
    BY <2>1 DEF InferenceInv, InferredBeforeUse
<1>10. CASE ReceiveConfig
  <2>1. /\ UNCHANGED <<req, ti>> /\ stage = "received" /\ stage' \in {"answered", "validate"}
        /\ req.endpoint # "compile"
    BY <1>10 DEF ReceiveConfig, Answer
  <2> QED
    BY <2>1 DEF InferenceInv, InferredBeforeUse
<1>11. CASE ValidateCompiled
  <2>1. /\ UNCHANGED ti /\ stage = "answered" /\ stage' = "received" /\ answer = "ok"
    BY <1>11 DEF ValidateCompiled
  <2> QED
    BY <2>1 DEF InferenceInv, InferredBeforeUse
<1> QED
  BY <1>1, <1>2, <1>3, <1>4, <1>5, <1>6, <1>7, <1>8, <1>9, <1>10, <1>11, Zenon DEF Next

(* The graph orders the builders: an expression that is typed refers to a        *)
(* builder without a type only if its inference has failed or its name is        *)
(* taken, for every request and every order that the graph allows.               *)
THEOREM InferenceOrder == Spec => []InferredBeforeUse
<1>1. Init => InferenceInv
  BY InitInference
<1>2. SessionInv /\ InferenceInv /\ [Next]_vars => InferenceInv'
  BY NextInference
<1>3. InferenceInv => InferredBeforeUse
  BY DEF InferenceInv
<1> QED
  BY <1>1, <1>2, <1>3, Sessions, PTL DEF Spec

-----------------------------------------------------------------------------
(* The text of a compiled configuration. *)

RenamedPath(path, r) ==
  IF IsPrefix(r.canonical, path) THEN [path EXCEPT ![Len(r.canonical)] = Last(r.legacy)] ELSE path

LEMMA PrefixAt ==
  ASSUME NEW S, NEW s \in Seq(S), NEW t \in Seq(S)
  PROVE  IsPrefix(s, t) <=> Len(s) <= Len(t) /\ \A i \in 1 .. Len(s) : s[i] = t[i]
<1> SUFFICES ASSUME Len(s) <= Len(t)
             PROVE  SubSeq(s, 1, Len(s)) = SubSeq(t, 1, Len(s)) <=> \A i \in 1 .. Len(s) : s[i] = t[i]
  BY DEF IsPrefix
<1> DEFINE n == Len(s)
           u == SubSeq(s, 1, n)
           v == SubSeq(t, 1, n)
<1>1. n \in Nat /\ n \in Int /\ 1 \in Int /\ (\A i \in 1 .. n : s[i] \in S /\ t[i] \in S)
  OBVIOUS
<1>2. u \in Seq(S) /\ Len(u) = n /\ \A i \in 1 .. n : u[i] = s[i]
  <2> HIDE DEF n
  <2> QED
    BY <1>1, SubSeqProperties
<1>3. v \in Seq(S) /\ Len(v) = n /\ \A i \in 1 .. n : v[i] = t[i]
  <2> HIDE DEF n
  <2> QED
    BY <1>1, SubSeqProperties
<1> HIDE DEF u, v
<1>4. (\A i \in 1 .. n : u[i] = v[i]) => u = v
  BY <1>1, <1>2, <1>3, SeqEqual
<1>5. u = v <=> \A i \in 1 .. n : s[i] = t[i]
  BY <1>2, <1>3, <1>4
<1> QED
  BY <1>5 DEF u, v

Words ==
  {"sources", "data_source", "aggregator", "source_identifier", "source_name", "connection_type",
   "metrics_report_configs", "triggers", "data_trigger", "expression_nodes", "field_leaf_node",
   "stop_trigger_name", "deactivate_trigger_name", "publishers", "service_publisher",
   "aggregation_publisher", "service_name", "publisher_name", "end_trigger_name",
   "finish_trigger_name"}

\* The path begins with the names of c.
Begins(c, p) == Len(c) <= Len(p) /\ \A k \in 1 .. Len(c) : c[k] = p[k]

\* q is p, with the name at the end of c if p begins with it.
Moved(p, q, c, name) ==
  /\ q \in Seq(Words) /\ Len(q) = Len(p)
  /\ \A k \in 1 .. Len(p) : q[k] = IF Begins(c, p) /\ k = Len(c) THEN name ELSE p[k]

LEMMA RenamedAt ==
  ASSUME NEW p \in Seq(Words), NEW r, NEW c \in Seq(Words), NEW name \in Words,
         r.canonical = c, Last(r.legacy) = name
  PROVE  Moved(p, RenamedPath(p, r), c, name)
<1> DEFINE q == RenamedPath(p, r)
           n == Len(c)
<1>1. IsPrefix(r.canonical, p) <=> Begins(c, p)
  BY PrefixAt DEF Begins
<1>2. CASE ~Begins(c, p)
  <2>1. q = p
    BY <1>1, <1>2, Zenon DEF RenamedPath
  <2> HIDE DEF q
  <2> QED
    BY <1>2, <2>1 DEF Moved, q
<1>3. CASE Begins(c, p)
  <2>1. q = [p EXCEPT ![Len(r.canonical)] = Last(r.legacy)]
    BY <1>1, <1>3, Zenon DEF RenamedPath
  <2>2. q = [p EXCEPT ![n] = name]
    BY <2>1
  <2> HIDE DEF q, n
  <2>3. Len(p) \in Nat /\ DOMAIN p = 1 .. Len(p) /\ \A k \in 1 .. Len(p) : p[k] \in Words
    OBVIOUS
  <2>4. DOMAIN q = 1 .. Len(p) /\ \A k \in 1 .. Len(p) : q[k] = IF k = n THEN name ELSE p[k]
    BY <2>2, <2>3
  <2>5. q \in [1 .. Len(p) -> Words]
    BY <2>2, <2>3, <2>4
  <2>6. q \in Seq(Words) /\ Len(q) = Len(p)
    BY <2>3, <2>5
  <2> QED
    BY <1>3, <2>4, <2>6 DEF Moved, q, n
<1> QED
  BY <1>2, <1>3

\* The paths of a text after so many renames.
PathAfter(i, p) ==
  LET sources == IF i < 10 THEN "sources" ELSE "publishers"
      data    == IF i < 5 THEN "data_source" ELSE "service_publisher"
  IN  \/ /\ Len(p) = 1
         /\ \/ p[1] = sources
            \/ p[1] = IF i < 8 THEN "stop_trigger_name" ELSE "end_trigger_name"
            \/ p[1] = IF i < 9 THEN "deactivate_trigger_name" ELSE "finish_trigger_name"
      \/ /\ Len(p) = 2 /\ p[1] = sources
         /\ p[2] = data \/ p[2] = IF i < 6 THEN "aggregator" ELSE "aggregation_publisher"
      \/ /\ Len(p) = 3 /\ p[1] = sources /\ p[2] = data
         /\ \/ p[3] = IF i < 1 THEN "source_identifier" ELSE "service_name"
            \/ p[3] = "connection_type"
      \/ /\ Len(p) = 3 /\ p[1] = "triggers" /\ p[2] = "data_trigger"
         /\ p[3] = IF i < 3 THEN "source_name" ELSE "publisher_name"
      \/ /\ Len(p) = 3 /\ p[1] = "expression_nodes" /\ p[2] = "field_leaf_node"
         /\ p[3] = IF i < 2 THEN "source_name" ELSE "publisher_name"

LEMMA PathRenamed ==
  ASSUME NEW i \in 1 .. 10, NEW p \in Seq(Words), PathAfter(i - 1, p)
  PROVE  LET q == RenamedPath(p, fieldRenames[i]) IN q \in Seq(Words) /\ PathAfter(i, q)
<1> DEFINE r == fieldRenames[i]
           q == RenamedPath(p, r)
<1>1. Len(p) \in {1, 2, 3}
  BY DEF PathAfter
<1> SUFFICES q \in Seq(Words) /\ PathAfter(i, q)
  OBVIOUS
<1>2. CASE i = 1
  <2> DEFINE c == <<"sources", "data_source", "source_identifier">>
             name == "service_name"
  <2>1. r.canonical = c /\ Last(r.legacy) = name
    BY <1>2 DEF fieldRenames, pair, Last
  <2>2. c \in Seq(Words) /\ name \in Words /\ Len(c) = 3
    BY DEF Words
  <2>c. c[1] = "sources" /\ c[2] = "data_source" /\ c[3] = "source_identifier"
    OBVIOUS
  <2>3. PathAfter(0, p)
    BY <1>2
  <2>4. name = "service_name"
    OBVIOUS
  <2> HIDE DEF c, name, r
  <2>5. Moved(p, q, c, name)
    BY <2>1, <2>2, RenamedAt
  <2>6. Begins(c, p) <=> Len(p) >= 3 /\ p[1] = c[1] /\ p[2] = c[2] /\ p[3] = c[3]
    BY <1>1, <2>2, <2>c DEF Begins
  <2> HIDE DEF q
  <2>7. PathAfter(1, q)
    BY <1>1, <2>2, <2>c, <2>3, <2>4, <2>5, <2>6 DEF PathAfter, Moved
  <2> QED
    BY <1>2, <2>5, <2>7 DEF Moved
<1>3. CASE i = 2
  <2> DEFINE c == <<"expression_nodes", "field_leaf_node", "source_name">>
             name == "publisher_name"
  <2>1. r.canonical = c /\ Last(r.legacy) = name
    BY <1>3 DEF fieldRenames, pair, Last
  <2>2. c \in Seq(Words) /\ name \in Words /\ Len(c) = 3
    BY DEF Words
  <2>c. c[1] = "expression_nodes" /\ c[2] = "field_leaf_node" /\ c[3] = "source_name"
    OBVIOUS
  <2>3. PathAfter(1, p)
    BY <1>3
  <2>4. name = "publisher_name"
    OBVIOUS
  <2> HIDE DEF c, name, r
  <2>5. Moved(p, q, c, name)
    BY <2>1, <2>2, RenamedAt
  <2>6. Begins(c, p) <=> Len(p) >= 3 /\ p[1] = c[1] /\ p[2] = c[2] /\ p[3] = c[3]
    BY <1>1, <2>2, <2>c DEF Begins
  <2> HIDE DEF q
  <2>7. PathAfter(2, q)
    BY <1>1, <2>2, <2>c, <2>3, <2>4, <2>5, <2>6 DEF PathAfter, Moved
  <2> QED
    BY <1>3, <2>5, <2>7 DEF Moved
<1>4. CASE i = 3
  <2> DEFINE c == <<"triggers", "data_trigger", "source_name">>
             name == "publisher_name"
  <2>1. r.canonical = c /\ Last(r.legacy) = name
    BY <1>4 DEF fieldRenames, pair, Last
  <2>2. c \in Seq(Words) /\ name \in Words /\ Len(c) = 3
    BY DEF Words
  <2>c. c[1] = "triggers" /\ c[2] = "data_trigger" /\ c[3] = "source_name"
    OBVIOUS
  <2>3. PathAfter(2, p)
    BY <1>4
  <2>4. name = "publisher_name"
    OBVIOUS
  <2> HIDE DEF c, name, r
  <2>5. Moved(p, q, c, name)
    BY <2>1, <2>2, RenamedAt
  <2>6. Begins(c, p) <=> Len(p) >= 3 /\ p[1] = c[1] /\ p[2] = c[2] /\ p[3] = c[3]
    BY <1>1, <2>2, <2>c DEF Begins
  <2> HIDE DEF q
  <2>7. PathAfter(3, q)
    BY <1>1, <2>2, <2>c, <2>3, <2>4, <2>5, <2>6 DEF PathAfter, Moved
  <2> QED
    BY <1>4, <2>5, <2>7 DEF Moved
<1>5. CASE i = 4
  <2> DEFINE c == <<"metrics_report_configs", "source_name">>
             name == "publisher_name"
  <2>1. r.canonical = c /\ Last(r.legacy) = name
    BY <1>5 DEF fieldRenames, pair, Last
  <2>2. c \in Seq(Words) /\ name \in Words /\ Len(c) = 2
    BY DEF Words
  <2>c. c[1] = "metrics_report_configs" /\ c[2] = "source_name"
    OBVIOUS
  <2>3. PathAfter(3, p)
    BY <1>5
  <2>4. name = "publisher_name"
    OBVIOUS
  <2> HIDE DEF c, name, r
  <2>5. Moved(p, q, c, name)
    BY <2>1, <2>2, RenamedAt
  <2>6. Begins(c, p) <=> Len(p) >= 2 /\ p[1] = c[1] /\ p[2] = c[2]
    BY <1>1, <2>2, <2>c DEF Begins
  <2> HIDE DEF q
  <2>7. PathAfter(4, q)
    BY <1>1, <2>2, <2>c, <2>3, <2>4, <2>5, <2>6 DEF PathAfter, Moved
  <2> QED
    BY <1>5, <2>5, <2>7 DEF Moved
<1>6. CASE i = 5
  <2> DEFINE c == <<"sources", "data_source">>
             name == "service_publisher"
  <2>1. r.canonical = c /\ Last(r.legacy) = name
    BY <1>6 DEF fieldRenames, pair, Last
  <2>2. c \in Seq(Words) /\ name \in Words /\ Len(c) = 2
    BY DEF Words
  <2>c. c[1] = "sources" /\ c[2] = "data_source"
    OBVIOUS
  <2>3. PathAfter(4, p)
    BY <1>6
  <2>4. name = "service_publisher"
    OBVIOUS
  <2> HIDE DEF c, name, r
  <2>5. Moved(p, q, c, name)
    BY <2>1, <2>2, RenamedAt
  <2>6. Begins(c, p) <=> Len(p) >= 2 /\ p[1] = c[1] /\ p[2] = c[2]
    BY <1>1, <2>2, <2>c DEF Begins
  <2> HIDE DEF q
  <2>7. PathAfter(5, q)
    BY <1>1, <2>2, <2>c, <2>3, <2>4, <2>5, <2>6 DEF PathAfter, Moved
  <2> QED
    BY <1>6, <2>5, <2>7 DEF Moved
<1>7. CASE i = 6
  <2> DEFINE c == <<"sources", "aggregator">>
             name == "aggregation_publisher"
  <2>1. r.canonical = c /\ Last(r.legacy) = name
    BY <1>7 DEF fieldRenames, pair, Last
  <2>2. c \in Seq(Words) /\ name \in Words /\ Len(c) = 2
    BY DEF Words
  <2>c. c[1] = "sources" /\ c[2] = "aggregator"
    OBVIOUS
  <2>3. PathAfter(5, p)
    BY <1>7
  <2>4. name = "aggregation_publisher"
    OBVIOUS
  <2> HIDE DEF c, name, r
  <2>5. Moved(p, q, c, name)
    BY <2>1, <2>2, RenamedAt
  <2>6. Begins(c, p) <=> Len(p) >= 2 /\ p[1] = c[1] /\ p[2] = c[2]
    BY <1>1, <2>2, <2>c DEF Begins
  <2> HIDE DEF q
  <2>7. PathAfter(6, q)
    BY <1>1, <2>2, <2>c, <2>3, <2>4, <2>5, <2>6 DEF PathAfter, Moved
  <2> QED
    BY <1>7, <2>5, <2>7 DEF Moved
<1>8. CASE i = 7
  <2> DEFINE c == <<"metrics_report_configs", "sources">>
             name == "publishers"
  <2>1. r.canonical = c /\ Last(r.legacy) = name
    BY <1>8 DEF fieldRenames, pair, Last
  <2>2. c \in Seq(Words) /\ name \in Words /\ Len(c) = 2
    BY DEF Words
  <2>c. c[1] = "metrics_report_configs" /\ c[2] = "sources"
    OBVIOUS
  <2>3. PathAfter(6, p)
    BY <1>8
  <2>4. name = "publishers"
    OBVIOUS
  <2> HIDE DEF c, name, r
  <2>5. Moved(p, q, c, name)
    BY <2>1, <2>2, RenamedAt
  <2>6. Begins(c, p) <=> Len(p) >= 2 /\ p[1] = c[1] /\ p[2] = c[2]
    BY <1>1, <2>2, <2>c DEF Begins
  <2> HIDE DEF q
  <2>7. PathAfter(7, q)
    BY <1>1, <2>2, <2>c, <2>3, <2>4, <2>5, <2>6 DEF PathAfter, Moved
  <2> QED
    BY <1>8, <2>5, <2>7 DEF Moved
<1>9. CASE i = 8
  <2> DEFINE c == <<"stop_trigger_name">>
             name == "end_trigger_name"
  <2>1. r.canonical = c /\ Last(r.legacy) = name
    BY <1>9 DEF fieldRenames, pair, Last
  <2>2. c \in Seq(Words) /\ name \in Words /\ Len(c) = 1
    BY DEF Words
  <2>c. c[1] = "stop_trigger_name"
    OBVIOUS
  <2>3. PathAfter(7, p)
    BY <1>9
  <2>4. name = "end_trigger_name"
    OBVIOUS
  <2> HIDE DEF c, name, r
  <2>5. Moved(p, q, c, name)
    BY <2>1, <2>2, RenamedAt
  <2>6. Begins(c, p) <=> Len(p) >= 1 /\ p[1] = c[1]
    BY <1>1, <2>2, <2>c DEF Begins
  <2> HIDE DEF q
  <2>7. PathAfter(8, q)
    BY <1>1, <2>2, <2>c, <2>3, <2>4, <2>5, <2>6 DEF PathAfter, Moved
  <2> QED
    BY <1>9, <2>5, <2>7 DEF Moved
<1>10. CASE i = 9
  <2> DEFINE c == <<"deactivate_trigger_name">>
             name == "finish_trigger_name"
  <2>1. r.canonical = c /\ Last(r.legacy) = name
    BY <1>10 DEF fieldRenames, pair, Last
  <2>2. c \in Seq(Words) /\ name \in Words /\ Len(c) = 1
    BY DEF Words
  <2>c. c[1] = "deactivate_trigger_name"
    OBVIOUS
  <2>3. PathAfter(8, p)
    BY <1>10
  <2>4. name = "finish_trigger_name"
    OBVIOUS
  <2> HIDE DEF c, name, r
  <2>5. Moved(p, q, c, name)
    BY <2>1, <2>2, RenamedAt
  <2>6. Begins(c, p) <=> Len(p) >= 1 /\ p[1] = c[1]
    BY <1>1, <2>2, <2>c DEF Begins
  <2> HIDE DEF q
  <2>7. PathAfter(9, q)
    BY <1>1, <2>2, <2>c, <2>3, <2>4, <2>5, <2>6 DEF PathAfter, Moved
  <2> QED
    BY <1>10, <2>5, <2>7 DEF Moved
<1>11. CASE i = 10
  <2> DEFINE c == <<"sources">>
             name == "publishers"
  <2>1. r.canonical = c /\ Last(r.legacy) = name
    BY <1>11 DEF fieldRenames, pair, Last
  <2>2. c \in Seq(Words) /\ name \in Words /\ Len(c) = 1
    BY DEF Words
  <2>c. c[1] = "sources"
    OBVIOUS
  <2>3. PathAfter(9, p)
    BY <1>11
  <2>4. name = "publishers"
    OBVIOUS
  <2> HIDE DEF c, name, r
  <2>5. Moved(p, q, c, name)
    BY <2>1, <2>2, RenamedAt
  <2>6. Begins(c, p) <=> Len(p) >= 1 /\ p[1] = c[1]
    BY <1>1, <2>2, <2>c DEF Begins
  <2> HIDE DEF q
  <2>7. PathAfter(10, q)
    BY <1>1, <2>2, <2>c, <2>3, <2>4, <2>5, <2>6 DEF PathAfter, Moved
  <2> QED
    BY <1>11, <2>5, <2>7 DEF Moved
<1> QED
  BY <1>2, <1>3, <1>4, <1>5, <1>6, <1>7, <1>8, <1>9, <1>10, <1>11

\* A node of a text after so many renames.
NodeAfter(i, n) ==
  /\ DOMAIN n = {"path", "value"} /\ n.path \in Seq(Words)
  /\ PathAfter(i, n.path) /\ n.value # "ON_DEMAND"

LegacyStep(c, nodes, r) == RenameNode(nodes, r.canonical, Last(r.legacy))
LegacyGood(c, i, nodes) == \A n \in nodes : NodeAfter(i, n)
Legacies == INSTANCE Induction WITH Step <- LegacyStep, Good <- LegacyGood

LEMMA TextNodeRenamed ==
  ASSUME NEW i \in 1 .. 10, NEW nodes, LegacyGood(0, i - 1, nodes)
  PROVE  LegacyGood(0, i, LegacyStep(0, nodes, fieldRenames[i]))
<1> DEFINE r == fieldRenames[i]
<1> SUFFICES ASSUME NEW m \in RenameNode(nodes, r.canonical, Last(r.legacy)) PROVE NodeAfter(i, m)
  BY Zenon DEF LegacyGood, LegacyStep
<1>1. PICK n \in nodes :
        m = IF IsPrefix(r.canonical, n.path)
            THEN [n EXCEPT !.path[Len(r.canonical)] = Last(r.legacy)] ELSE n
  BY Zenon DEF RenameNode
<1>2. NodeAfter(i - 1, n)
  BY DEF LegacyGood
<1> DEFINE q == RenamedPath(n.path, r)
<1>3. q \in Seq(Words) /\ PathAfter(i, q)
  <2>1. n.path \in Seq(Words) /\ PathAfter(i - 1, n.path)
    BY <1>2 DEF NodeAfter
  <2>2. PICK p : p = n.path
    OBVIOUS
  <2> QED
    BY <2>1, <2>2, PathRenamed
<1>4. DOMAIN m = DOMAIN n /\ m.path = q /\ m.value = n.value
  <2>1. DOMAIN n = {"path", "value"}
    BY <1>2 DEF NodeAfter
  <2> HIDE DEF r
  <2>2. CASE IsPrefix(r.canonical, n.path)
    <3>1. q = [n.path EXCEPT ![Len(r.canonical)] = Last(r.legacy)]
      BY <2>2, Zenon DEF RenamedPath
    <3> HIDE DEF q
    <3>2. m = [n EXCEPT !.path = q]
      BY <1>1, <2>2, <3>1
    <3> QED
      BY <2>1, <3>2
  <2>3. CASE ~IsPrefix(r.canonical, n.path)
    BY <1>1, <2>3 DEF RenamedPath
  <2> QED
    BY <2>2, <2>3
<1> HIDE DEF q, r
<1> QED
  BY <1>2, <1>3, <1>4 DEF NodeAfter

\* A node of the text of a configuration, where only a connection type has a value.
IsText(n) ==
  /\ DOMAIN n = {"path", "value"} /\ n.path \in Seq(Words) /\ PathAfter(0, n.path)
  /\ n.value = "" \/ n.path = connectionType.canonical

LEMMA IsTextNode ==
  /\ IsText(TextNode(<<"sources">>, ""))
  /\ IsText(TextNode(<<"sources", "data_source">>, ""))
  /\ IsText(TextNode(<<"sources", "aggregator">>, ""))
  /\ IsText(TextNode(<<"sources", "data_source", "source_identifier">>, ""))
  /\ \A v : IsText(TextNode(<<"sources", "data_source", "connection_type">>, v))
  /\ IsText(TextNode(<<"triggers", "data_trigger", "source_name">>, ""))
  /\ IsText(TextNode(<<"expression_nodes", "field_leaf_node", "source_name">>, ""))
  /\ IsText(TextNode(<<"stop_trigger_name">>, ""))
  /\ IsText(TextNode(<<"deactivate_trigger_name">>, ""))
<1>1. ASSUME NEW path \in Seq(Words), PathAfter(0, path), NEW v,
             v = "" \/ path = connectionType.canonical
      PROVE  IsText(TextNode(path, v))
  BY <1>1 DEF IsText, TextNode
<1>2. IsText(TextNode(<<"sources">>, ""))
  <2>1. <<"sources">> \in Seq(Words) /\ PathAfter(0, <<"sources">>)
    BY DEF Words, PathAfter
  <2> QED
    BY <1>1, <2>1
<1>3. IsText(TextNode(<<"sources", "data_source">>, ""))
  <2>1. <<"sources", "data_source">> \in Seq(Words) /\ PathAfter(0, <<"sources", "data_source">>)
    BY DEF Words, PathAfter
  <2> QED
    BY <1>1, <2>1
<1>4. IsText(TextNode(<<"sources", "aggregator">>, ""))
  <2>1. <<"sources", "aggregator">> \in Seq(Words) /\ PathAfter(0, <<"sources", "aggregator">>)
    BY DEF Words, PathAfter
  <2> QED
    BY <1>1, <2>1
<1>5. IsText(TextNode(<<"sources", "data_source", "source_identifier">>, ""))
  <2>1. /\ <<"sources", "data_source", "source_identifier">> \in Seq(Words)
        /\ PathAfter(0, <<"sources", "data_source", "source_identifier">>)
    BY DEF Words, PathAfter
  <2> QED
    BY <1>1, <2>1
<1>6. ASSUME NEW v PROVE IsText(TextNode(<<"sources", "data_source", "connection_type">>, v))
  <2>1. /\ <<"sources", "data_source", "connection_type">> \in Seq(Words)
        /\ PathAfter(0, <<"sources", "data_source", "connection_type">>)
    BY DEF Words, PathAfter
  <2>2. <<"sources", "data_source", "connection_type">> = connectionType.canonical
    BY DEF connectionType, pair
  <2> QED
    BY <1>1, <2>1, <2>2
<1>7. IsText(TextNode(<<"triggers", "data_trigger", "source_name">>, ""))
  <2>1. /\ <<"triggers", "data_trigger", "source_name">> \in Seq(Words)
        /\ PathAfter(0, <<"triggers", "data_trigger", "source_name">>)
    BY DEF Words, PathAfter
  <2> QED
    BY <1>1, <2>1
<1>8. IsText(TextNode(<<"expression_nodes", "field_leaf_node", "source_name">>, ""))
  <2>1. /\ <<"expression_nodes", "field_leaf_node", "source_name">> \in Seq(Words)
        /\ PathAfter(0, <<"expression_nodes", "field_leaf_node", "source_name">>)
    BY DEF Words, PathAfter
  <2> QED
    BY <1>1, <2>1
<1>9. IsText(TextNode(<<"stop_trigger_name">>, ""))
  <2>1. <<"stop_trigger_name">> \in Seq(Words) /\ PathAfter(0, <<"stop_trigger_name">>)
    BY DEF Words, PathAfter
  <2> QED
    BY <1>1, <2>1
<1>10. IsText(TextNode(<<"deactivate_trigger_name">>, ""))
  <2>1. <<"deactivate_trigger_name">> \in Seq(Words) /\ PathAfter(0, <<"deactivate_trigger_name">>)
    BY DEF Words, PathAfter
  <2> QED
    BY <1>1, <2>1
<1> QED
  BY <1>2, <1>3, <1>4, <1>5, <1>6, <1>7, <1>8, <1>9, <1>10

LEMMA ConfigText ==
  ASSUME NEW config,
         \A s \in Range(config.sources) : s.type \in {"data_source", "aggregator"}
  PROVE  \A n \in TextOf(config) : IsText(n)
<1> SUFFICES ASSUME NEW n \in TextOf(config) PROVE IsText(n)
  OBVIOUS
<1> DEFINE SourceText(s) ==
             {TextNode(<<"sources">>, ""), TextNode(<<"sources", s.type>>, "")}
               \cup IF s.type = "data_source"
                    THEN {TextNode(<<"sources", "data_source", "source_identifier">>, ""),
                          TextNode(<<"sources", "data_source", "connection_type">>, s.connection)}
                    ELSE {}
<1>0. TextOf(config) =
        (UNION {SourceText(s) : s \in Range(config.sources)})
        \cup {TextNode(<<"triggers", "data_trigger", "source_name">>, "") :
                t \in {t \in Range(config.triggers) : t.type = "data"}}
        \cup {TextNode(<<"expression_nodes", "field_leaf_node", "source_name">>, "") :
                m \in {m \in Range(config.nodes) : m.type = "field" /\ m.args = <<>>}}
        \cup {TextNode(<<"stop_trigger_name">>, "") : x \in {config.stop} \ {""}}
        \cup {TextNode(<<"deactivate_trigger_name">>, "") : x \in {config.deactivate} \ {""}}
  BY Zenon DEF TextOf
<1> HIDE DEF SourceText
<1>1. \/ \E s \in Range(config.sources) : n \in SourceText(s)
      \/ n = TextNode(<<"triggers", "data_trigger", "source_name">>, "")
      \/ n = TextNode(<<"expression_nodes", "field_leaf_node", "source_name">>, "")
      \/ n = TextNode(<<"stop_trigger_name">>, "")
      \/ n = TextNode(<<"deactivate_trigger_name">>, "")
  <2> DEFINE A == {SourceText(s) : s \in Range(config.sources)}
             B == {TextNode(<<"triggers", "data_trigger", "source_name">>, "") :
                     t \in {t \in Range(config.triggers) : t.type = "data"}}
             C == {TextNode(<<"expression_nodes", "field_leaf_node", "source_name">>, "") :
                     m \in {m \in Range(config.nodes) : m.type = "field" /\ m.args = <<>>}}
             D == {TextNode(<<"stop_trigger_name">>, "") : x \in {config.stop} \ {""}}
             E == {TextNode(<<"deactivate_trigger_name">>, "") : x \in {config.deactivate} \ {""}}
  <2>1. /\ \A x \in A : \E s \in Range(config.sources) : x = SourceText(s)
        /\ \A x \in B : x = TextNode(<<"triggers", "data_trigger", "source_name">>, "")
        /\ \A x \in C : x = TextNode(<<"expression_nodes", "field_leaf_node", "source_name">>, "")
        /\ \A x \in D : x = TextNode(<<"stop_trigger_name">>, "")
        /\ \A x \in E : x = TextNode(<<"deactivate_trigger_name">>, "")
    OBVIOUS
  <2>2. n \in (UNION A) \cup B \cup C \cup D \cup E
    BY <1>0, Zenon
  <2> HIDE DEF A, B, C, D, E
  <2>3. (\E X \in A : n \in X) \/ n \in B \/ n \in C \/ n \in D \/ n \in E
    BY <2>2
  <2> QED
    BY <2>1, <2>3, Zenon
<1>2. ASSUME NEW s \in Range(config.sources), n \in SourceText(s) PROVE IsText(n)
  <2>1. \/ n = TextNode(<<"sources">>, "")
        \/ n = TextNode(<<"sources", s.type>>, "")
        \/ n = TextNode(<<"sources", "data_source", "source_identifier">>, "")
        \/ n = TextNode(<<"sources", "data_source", "connection_type">>, s.connection)
    BY <1>2, Zenon DEF SourceText
  <2>2. s.type = "data_source" \/ s.type = "aggregator"
    OBVIOUS
  <2> QED
    BY <2>1, <2>2, IsTextNode, Zenon
<1> QED
  BY <1>1, <1>2, IsTextNode, Zenon

LEMMA ValuesRenamed ==
  ASSUME NEW nodes, \A n \in nodes : IsText(n)
  PROVE  LegacyGood(0, 0, RenameValue(nodes, connectionType.canonical, "ON_DEMAND", "GETTER"))
<1> DEFINE path == connectionType.canonical
<1> SUFFICES ASSUME NEW m \in RenameValue(nodes, path, "ON_DEMAND", "GETTER") PROVE NodeAfter(0, m)
  BY Zenon DEF LegacyGood
<1>1. PICK n \in nodes :
        m = IF n.path = path /\ n.value = "ON_DEMAND" THEN [n EXCEPT !.value = "GETTER"] ELSE n
  BY Zenon DEF RenameValue
<1>2. IsText(n)
  OBVIOUS
<1> HIDE DEF path
<1>3. CASE n.path = path /\ n.value = "ON_DEMAND"
  <2>1. DOMAIN m = DOMAIN n /\ m.path = n.path /\ m.value = "GETTER"
    BY <1>1, <1>2, <1>3 DEF IsText
  <2> QED
    BY <1>2, <2>1 DEF IsText, NodeAfter
<1>4. CASE ~(n.path = path /\ n.value = "ON_DEMAND")
  <2>1. m = n
    BY <1>1, <1>4
  <2>2. n.value # "ON_DEMAND"
    BY <1>2, <1>4 DEF IsText, path
  <2> QED
    BY <1>2, <2>1, <2>2 DEF IsText, NodeAfter
<1> QED
  BY <1>3, <1>4

LEMMA TextRenamed ==
  ASSUME NEW nodes, \A n \in nodes : IsText(n)
  PROVE  \A n \in applyCanonicalToLegacyRenames(nodes) : NodeAfter(10, n)
<1> DEFINE base == RenameValue(nodes, connectionType.canonical, "ON_DEMAND", "GETTER")
<1>1. applyCanonicalToLegacyRenames(nodes) = Legacies!FoldOf(0, base, fieldRenames)
  BY Zenon DEF applyCanonicalToLegacyRenames, Legacies!FoldOf, LegacyStep, FoldLeft, MapThenFoldSet,
               Max, Legacies!MapThenFoldSet, Legacies!Largest
<1>2. LegacyGood(0, 0, base)
  BY ValuesRenamed
<1>3. DOMAIN fieldRenames = 1 .. 10 /\ 10 \in Nat
  BY DEF fieldRenames
<1>4. \A i \in 1 .. 10 : \A x :
        LegacyGood(0, i - 1, x) => LegacyGood(0, i, LegacyStep(0, x, fieldRenames[i]))
  BY TextNodeRenamed
<1> HIDE DEF base
<1>i. Legacies!Inductive
  BY NaturalInduction, Zenon DEF Legacies!Inductive
<1>5. LegacyGood(0, 10, Legacies!FoldOf(0, base, fieldRenames))
  BY <1>i, <1>2, <1>3, <1>4, Legacies!FoldGood, Zenon
<1> QED
  BY <1>1, <1>5 DEF LegacyGood

\* What RenderedLegacy says of the text of the v1 API.
LegacyText(text) ==
  LET canonical == {Last(r.canonical) : r \in Range(fieldRenames)}
  IN  \A n \in text : Range(n.path) \cap canonical = {} /\ n.value # "ON_DEMAND"

LEMMA CanonicalNames ==
  {Last(r.canonical) : r \in Range(fieldRenames)} \subseteq
    {"source_identifier", "source_name", "data_source", "aggregator", "sources",
     "stop_trigger_name", "deactivate_trigger_name"}
<1> SUFFICES ASSUME NEW r \in Range(fieldRenames)
             PROVE  Last(r.canonical) \in
                      {"source_identifier", "source_name", "data_source", "aggregator", "sources",
                       "stop_trigger_name", "deactivate_trigger_name"}
  OBVIOUS
<1>1. PICK i \in DOMAIN fieldRenames : r = fieldRenames[i]
  BY RangeAt
<1>2. i \in 1 .. 10
  BY <1>1 DEF fieldRenames
<1>3. i \in {1, 2, 3, 4, 5, 6, 7, 8, 9, 10}
  BY <1>2
<1>c1. CASE i = 1
  BY <1>1, <1>c1 DEF fieldRenames, pair, Last
<1>c2. CASE i = 2
  BY <1>1, <1>c2 DEF fieldRenames, pair, Last
<1>c3. CASE i = 3
  BY <1>1, <1>c3 DEF fieldRenames, pair, Last
<1>c4. CASE i = 4
  BY <1>1, <1>c4 DEF fieldRenames, pair, Last
<1>c5. CASE i = 5
  BY <1>1, <1>c5 DEF fieldRenames, pair, Last
<1>c6. CASE i = 6
  BY <1>1, <1>c6 DEF fieldRenames, pair, Last
<1>c7. CASE i = 7
  BY <1>1, <1>c7 DEF fieldRenames, pair, Last
<1>c8. CASE i = 8
  BY <1>1, <1>c8 DEF fieldRenames, pair, Last
<1>c9. CASE i = 9
  BY <1>1, <1>c9 DEF fieldRenames, pair, Last
<1>c10. CASE i = 10
  BY <1>1, <1>c10 DEF fieldRenames, pair, Last
<1> QED
  BY <1>3, <1>c1, <1>c2, <1>c3, <1>c4, <1>c5, <1>c6, <1>c7, <1>c8, <1>c9, <1>c10

LEMMA LegacyRendered ==
  ASSUME NEW nodes, \A n \in nodes : IsText(n)
  PROVE  LegacyText(applyCanonicalToLegacyRenames(nodes))
<1> DEFINE canonical == {Last(r.canonical) : r \in Range(fieldRenames)}
<1> SUFFICES ASSUME NEW n \in applyCanonicalToLegacyRenames(nodes)
             PROVE  Range(n.path) \cap canonical = {} /\ n.value # "ON_DEMAND"
  BY Zenon DEF LegacyText
<1>1. NodeAfter(10, n)
  BY TextRenamed
<1> HIDE DEF canonical
<1>2. ASSUME NEW x \in Range(n.path) PROVE x \notin canonical
  <2>1. PICK k \in DOMAIN n.path : x = n.path[k]
    BY RangeAt
  <2>2. k \in 1 .. Len(n.path) /\ Len(n.path) \in {1, 2, 3}
    BY <1>1, <2>1 DEF NodeAfter, PathAfter
  <2>3. k \in {1, 2, 3}
    BY <2>2
  <2>4. x \in {"publishers", "service_publisher", "aggregation_publisher", "service_name",
               "connection_type", "triggers", "data_trigger", "publisher_name", "expression_nodes",
               "field_leaf_node", "end_trigger_name", "finish_trigger_name"}
    BY <1>1, <2>1, <2>2, <2>3 DEF NodeAfter, PathAfter
  <2> QED
    BY <2>4, CanonicalNames DEF canonical
<1> QED
  BY <1>1, <1>2 DEF NodeAfter

SourcesTyped(config) == \A s \in Range(config.sources) : s.type \in {"data_source", "aggregator"}

LEMMA CompiledSources ==
  ASSUME SessionInv, UnderWay
  PROVE  SourcesTyped(mc)
<1>1. \A k \in DOMAIN mc.sources : mc.sources[k].type \in {"data_source", "aggregator"}
  BY ConfigDomains DEF SessionInv
<1> QED
  BY <1>1, RangeAt DEF SourcesTyped

\* What the client of the v1 API was given: its request to /validate is the only one
\* that finds triggers in the session.
GivenLegacy == req.version = "v1" => LegacyText(req.text)

TextInv ==
  /\ req.endpoint = "compile" \/ stage \in {"received", "validate", "answered"}
  /\ req.endpoint = "compile" /\ stage = "answered" /\ answer = "ok" => SourcesTyped(mc)
  /\ req.endpoint = "compile" \/ sess.triggers = <<>> \/ GivenLegacy

LEMMA NextText == ASSUME SessionInv, TextInv, [Next]_vars PROVE TextInv'
<1>s. UNCHANGED mc => (SourcesTyped(mc)' <=> SourcesTyped(mc))
  BY DEF SourcesTyped
<1>g. UNCHANGED req => (GivenLegacy' <=> GivenLegacy)
  BY DEF GivenLegacy, LegacyText
<1>1. CASE ValidateCompiled
  <2>1. /\ stage = "answered" /\ answer = "ok" /\ req.endpoint = "compile" /\ stage' = "received"
        /\ req' = [req EXCEPT !.endpoint = "validate", !.config = mc,
                              !.text = textprotoMarshal(TextOf(mc), req.version)]
    BY <1>1 DEF ValidateCompiled
  <2>2. SourcesTyped(mc)
    BY <2>1 DEF TextInv
  <2>3. PICK config : config = mc
    OBVIOUS
  <2>4. \A n \in TextOf(config) : IsText(n)
    BY <2>2, <2>3, ConfigText DEF SourcesTyped
  <2>5. PICK nodes : nodes = TextOf(config)
    OBVIOUS
  <2>6. LegacyText(applyCanonicalToLegacyRenames(nodes))
    BY <2>4, <2>5, LegacyRendered
  <2>7. /\ req'.text = textprotoMarshal(nodes, req.version) /\ req'.version = req.version
        /\ req'.endpoint = "validate"
    BY <2>1, <2>3, <2>5 DEF SessionInv, IsRequest
  <2>8. req'.version = "v1" => LegacyText(req'.text)
    BY <2>6, <2>7 DEF textprotoMarshal
  <2>9. LegacyText(req.text)' <=> LegacyText(req'.text)
    BY DEF LegacyText
  <2>10. GivenLegacy'
    BY <2>8, <2>9 DEF GivenLegacy
  <2> QED
    BY <2>1, <2>7, <2>10 DEF TextInv
<1>2. CASE ReceiveConfig
  <2>1. /\ UNCHANGED <<req, sess>> /\ req.endpoint # "compile" /\ stage' \in {"validate", "answered"}
    BY <1>2 DEF ReceiveConfig, Answer
  <2> QED
    BY <1>g, <2>1 DEF TextInv
<1>3. CASE Done \/ UNCHANGED vars \/ RegisterNext
  <2>1. UNCHANGED <<req, sess, mc, stage, answer>>
    BY <1>3 DEF Done, vars, RegisterNext
  <2> QED
    BY <1>s, <1>g, <2>1 DEF TextInv
<1>4. CASE Validated
  <2>1. UNCHANGED <<req, sess, mc>> /\ stage = "validate" /\ stage' = "answered"
    BY <1>4 DEF Validated, Answer
  <2>2. req.endpoint = "compile" => SourcesTyped(mc)
    BY <2>1, CompiledSources DEF UnderWay
  <2> QED
    BY <1>s, <1>g, <2>1, <2>2 DEF TextInv
<1>5. CASE Compiled
  <2>1. UNCHANGED <<req, sess, mc>> /\ stage = "compiled" /\ req.endpoint = "compile"
    BY <1>5 DEF Compiled, TextInv
  <2>2. SourcesTyped(mc)
    BY <2>1, CompiledSources DEF UnderWay
  <2> QED
    BY <1>s, <1>g, <2>1, <2>2 DEF TextInv
<1>6. CASE ~(ValidateCompiled \/ ReceiveConfig \/ Done \/ UNCHANGED vars \/ RegisterNext
             \/ Validated \/ Compiled)
  <2>1. req' = req /\ req.endpoint = "compile" /\ (stage' = "answered" => answer' # "ok")
    <3>1. CASE \/ Receive \/ initializeTypeRegistry \/ extendRegistryWithCustomDescriptors
               \/ RegistryExtended \/ RegistryFails \/ parseTriggers \/ parseDeprecatedSources
               \/ parseDataSources \/ parseAggregators \/ parseReportConfigs
      BY <3>1 DEF TextInv, Receive, initializeTypeRegistry, extendRegistryWithCustomDescriptors,
                  RegistryExtended, RegistryFails, parseTriggers, parseDeprecatedSources,
                  parseDataSources, parseAggregators, parseReportConfigs, Parsing, Answer
    <3>2. CASE \/ FinishSession \/ CyclicDependency \/ InferNext \/ InferTriggers
               \/ HarvestNext \/ HarvestEnds \/ PruneNext \/ PruneEnds \/ SetDescriptors
      BY <3>2 DEF TextInv, FinishSession, CyclicDependency, InferNext, InferTriggers,
                  HarvestNext, HarvestEnds, PruneNext, PruneEnds, SetDescriptors, Answer
    <3>3. CASE compileSession
      <4>1. req' = req /\ stage = "compile" /\ (stage' = "answered" => answer' = "bad_request")
        BY <3>3 DEF compileSession, Answer
      <4> QED
        BY <4>1 DEF TextInv
    <3> QED
      BY <1>6, <3>1, <3>2, <3>3, Zenon DEF Next
  <2> QED
    BY <2>1 DEF TextInv
<1> QED
  BY <1>1, <1>2, <1>3, <1>4, <1>5, <1>6

(* What a client of the v1 API gets back has only names and values of the legacy *)
(* format, whatever the configuration: the renames of textprotoMarshal, one      *)
(* after the other on the same text, leave none of the canonical ones.           *)
THEOREM LegacyAnswers == Spec => []RenderedLegacy
<1>1. Init => TextInv
  <2> SUFFICES ASSUME Init PROVE TextInv
    OBVIOUS
  <2>0. PICK none : none = <<>>
    OBVIOUS
  <2>1. sess = [triggers |-> none, sources |-> none, reports |-> none, expressions |-> none,
                start |-> "", stop |-> "", deactivate |-> "", hints |-> none, descriptors |-> none]
    BY <2>0, Zenon DEF Init
  <2>2. stage = "received"
    BY DEF Init
  <2>3. sess.triggers = none
    BY <2>1
  <2> QED
    BY <2>0, <2>2, <2>3 DEF TextInv
<1>2. SessionInv /\ TextInv /\ [Next]_vars => TextInv'
  BY NextText
<1>3. TextInv => RenderedLegacy
  BY DEF TextInv, GivenLegacy, RenderedLegacy, SentBack, LegacyText
<1> QED
  BY <1>1, <1>2, <1>3, Sessions, PTL DEF Spec

-----------------------------------------------------------------------------
(* Steps that agree reach the same. *)

LEMMA SameReach ==
  ASSUME NEW S, NEW f, NEW g, NEW L, IsFiniteSet(DOMAIN f), IsFiniteSet(DOMAIN g),
         S \subseteq L, L \subseteq DOMAIN f, L \subseteq DOMAIN g,
         \A x \in L : f[x] = g[x] /\ f[x] \subseteq L
  PROVE  Reach(S, f) = Reach(S, g) /\ Reach(S, f) \subseteq L
<1> DEFINE F == Reach(S, f)
           G == Reach(S, g)
<1>1. Closed(L, f) /\ Closed(L, g)
  BY DEF Closed
<1>2. F \subseteq L /\ G \subseteq L /\ S \subseteq F /\ S \subseteq G
  BY <1>1, ReachStays, ReachStarts
<1>3. Closed(F, f) /\ Closed(G, g)
  BY ReachCloses
<1> HIDE DEF F, G
<1>4. Closed(F, g) /\ Closed(G, f)
  BY <1>2, <1>3 DEF Closed
<1>5. F \subseteq G
  BY <1>2, <1>4, ReachStays DEF F
<1>6. G \subseteq F
  BY <1>2, <1>4, ReachStays DEF G
<1> QED
  BY <1>2, <1>5, <1>6 DEF F, G

LEMMA ConcatRange ==
  ASSUME NEW s, NEW t, IsSequence(s), IsSequence(t)
  PROVE  IsSequence(s \o t) /\ Range(s \o t) = Range(s) \cup Range(t)
<1> DEFINE u == s \o t
<1>1. IsConcat(u, s, t)
  BY ConcatFacts
<1> HIDE DEF u
<1>2. Len(s) \in Nat /\ Len(t) \in Nat /\ DOMAIN s = 1 .. Len(s) /\ DOMAIN t = 1 .. Len(t)
  BY SeqFacts
<1>3. DOMAIN u = 1 .. Len(s) + Len(t) /\ IsSequence(u)
  BY <1>1, SeqFacts DEF IsConcat
<1>4. ASSUME NEW x \in Range(u) PROVE x \in Range(s) \cup Range(t)
  <2>1. PICK i \in DOMAIN u : x = u[i]
    BY <1>4, RangeAt
  <2>2. CASE i <= Len(s)
    <3>1. i \in DOMAIN s /\ u[i] = s[i]
      BY <1>1, <1>2, <1>3, <2>2 DEF IsConcat
    <3> QED
      BY <2>1, <3>1, RangeMember
  <2>3. CASE i > Len(s)
    <3>1. i - Len(s) \in DOMAIN t /\ i = Len(s) + (i - Len(s))
      BY <1>2, <1>3, <2>3
    <3>2. u[i] = t[i - Len(s)]
      BY <1>1, <1>2, <3>1 DEF IsConcat
    <3> QED
      BY <2>1, <3>1, <3>2, RangeMember
  <2> QED
    BY <1>2, <1>3, <2>2, <2>3
<1>5. ASSUME NEW x \in Range(s) PROVE x \in Range(u)
  <2>1. PICK i \in DOMAIN s : x = s[i]
    BY <1>5, RangeAt
  <2>2. i \in DOMAIN u /\ u[i] = s[i]
    BY <1>1, <1>2, <1>3 DEF IsConcat
  <2> QED
    BY <2>1, <2>2, RangeMember
<1>6. ASSUME NEW x \in Range(t) PROVE x \in Range(u)
  <2>1. PICK i \in DOMAIN t : x = t[i]
    BY <1>6, RangeAt
  <2>2. Len(s) + i \in DOMAIN u /\ u[Len(s) + i] = t[i]
    BY <1>1, <1>2, <1>3 DEF IsConcat
  <2> QED
    BY <2>1, <2>2, RangeMember
<1> QED
  BY <1>3, <1>4, <1>5, <1>6 DEF u

-----------------------------------------------------------------------------
(* The files of a set. *)

LEMMA FileAtPath ==
  ASSUME NEW set, IsFileSet(set), NEW p \in PathsOf(set)
  PROVE  LET f == FileOf(set, p)
         IN  f \in Range(set) /\ f.path = p /\ IsFile(f) /\ ~IgnoreDependency(p)
<1> DEFINE I == {i \in DOMAIN set : set[i].path = p}
<1>1. Len(set) \in Nat /\ DOMAIN set = 1 .. Len(set)
  BY SeqFacts DEF IsFileSet
<1>2. I # {} /\ I \subseteq 1 .. Len(set) /\ ~IgnoreDependency(p)
  BY <1>1 DEF PathsOf
<1>3. FileOf(set, p) = set[Min(I)]
  BY DEF FileOf
<1>4. Min(I) \in I
  <2> HIDE DEF I
  <2> QED
    BY <1>1, <1>2, MinFact
<1>5. Min(I) \in DOMAIN set /\ set[Min(I)].path = p
  BY <1>4
<1>6. set[Min(I)] \in Range(set)
  BY <1>5, RangeMember
<1> QED
  BY <1>2, <1>3, <1>5, <1>6 DEF IsFileSet

LEMMA PathsFinite ==
  ASSUME NEW set, IsFileSet(set)
  PROVE  IsFiniteSet(PathsOf(set)) /\ IsFiniteSet(GraphNodes(set))
<1>1. IsFiniteSet(Range(set))
  BY RangeFinite DEF IsFileSet
<1> DEFINE path == [f \in Range(set) |-> f.path]
           A == {path[f] : f \in Range(set)}
<1>2. IsFiniteSet(A)
  BY <1>1, ImageFinite
<1>3. PathsOf(set) \subseteq A
  BY RangeMember DEF PathsOf
<1>4. IsFiniteSet(PathsOf(set))
  <2> HIDE DEF A
  <2> QED
    BY <1>2, <1>3, FS_Subset
<1> DEFINE D == {Dependencies(set, p) : p \in PathsOf(set)}
           dep == [p \in PathsOf(set) |-> Dependencies(set, p)]
<1>5. IsFiniteSet(D)
  <2>1. D = {dep[p] : p \in PathsOf(set)}
    OBVIOUS
  <2> HIDE DEF D, dep
  <2> QED
    BY <1>4, <2>1, ImageFinite
<1>6. ASSUME NEW X \in D PROVE IsFiniteSet(X)
  <2>1. PICK p \in PathsOf(set) : X = Dependencies(set, p)
    OBVIOUS
  <2>2. IsSequence(FileOf(set, p).deps)
    BY FileAtPath DEF IsFile
  <2>3. X \subseteq Range(FileOf(set, p).deps)
    BY <2>1 DEF Dependencies
  <2> QED
    BY <2>2, <2>3, RangeFinite, FS_Subset
<1>7. GraphNodes(set) = PathsOf(set) \cup (UNION D)
  BY DEF GraphNodes
<1> HIDE DEF D
<1>8. IsFiniteSet(UNION D)
  BY <1>5, <1>6, FS_UNION
<1> QED
  BY <1>4, <1>7, <1>8, FS_Union

-----------------------------------------------------------------------------
(* What a file sees of the files at their paths. *)

LEMMA Merged ==
  ASSUME NEW f, NEW g
  PROVE  /\ DOMAIN Merge(f, g) = DOMAIN f \cup DOMAIN g
         /\ \A x \in DOMAIN f : Merge(f, g)[x] = f[x]
         /\ \A x \in DOMAIN g \ DOMAIN f : Merge(f, g)[x] = g[x]
  BY DEF Merge

LEMMA MergedOne ==
  ASSUME NEW f, NEW x, NEW v, x \notin DOMAIN f
  PROVE  /\ DOMAIN With(f, x, v) = DOMAIN f \cup {x}
         /\ \A y \in DOMAIN f : With(f, x, v)[y] = f[y]
         /\ With(f, x, v)[x] = v
  BY DEF With, Merge

\* L is a part of the files that is closed under their imports.
Shared(at, more, L) ==
  /\ IsFiniteSet(DOMAIN at) /\ IsFiniteSet(DOMAIN more)
  /\ L \subseteq DOMAIN at /\ L \subseteq DOMAIN more
  /\ \A p \in L : at[p] = more[p] /\ PublicImports(at[p]) \subseteq L

LEMMA SameVisible ==
  ASSUME NEW at, NEW more, NEW L, Shared(at, more, L), NEW file, Range(file.deps) \subseteq L
  PROVE  /\ Visible(at, file) = Visible(more, file)
         /\ \A g \in Visible(at, file) : g = file \/ \E p \in L : g = at[p]
<1> DEFINE S == Range(file.deps)
           f == Exports(at)
           g == Exports(more)
           R == Reach(S, f)
<1>1. DOMAIN f = DOMAIN at /\ DOMAIN g = DOMAIN more
  BY DEF Exports
<1>2. \A x \in L : f[x] = g[x] /\ f[x] \subseteq L
  BY DEF Exports, Shared
<1>3. IsFiniteSet(DOMAIN f) /\ IsFiniteSet(DOMAIN g) /\ L \subseteq DOMAIN f /\ L \subseteq DOMAIN g
  BY <1>1 DEF Shared
<1>4. S \subseteq L
  OBVIOUS
<1> HIDE DEF f, g, S
<1>5. R = Reach(S, g) /\ R \subseteq L
  BY <1>2, <1>3, <1>4, SameReach
<1>6. Visible(at, file) = {file} \cup {at[p] : p \in DOMAIN at \cap R}
  BY DEF Visible, S, f
<1>7. Visible(more, file) = {file} \cup {more[p] : p \in DOMAIN more \cap R}
  BY <1>5 DEF Visible, S, g
<1> HIDE DEF R
<1>8. \A p \in R : p \in DOMAIN at /\ p \in DOMAIN more /\ at[p] = more[p] /\ p \in L
  BY <1>5 DEF Shared
<1> QED
  BY <1>6, <1>7, <1>8

LEMMA SameDangling ==
  ASSUME NEW at, NEW more, NEW L, Shared(at, more, L), NEW file, Range(file.deps) \subseteq L
  PROVE  DanglingReference(at, file) <=> DanglingReference(more, file)
<1>1. Visible(at, file) = Visible(more, file)
  BY SameVisible
<1> QED
  BY <1>1, Zenon DEF DanglingReference

LEMMA PublicAreImports ==
  ASSUME NEW file, IsFile(file)
  PROVE  PublicImports(file) \subseteq Range(file.deps)
  BY RangeMember DEF PublicImports, IsFile

-----------------------------------------------------------------------------
(* The invariant of the registry. *)

KeyOf(p) == IF p = NoPath THEN temporaryPath ELSE p

\* The paths that SortFileDescriptorSet found and that are collected.
Gathered(set, pend) == GraphNodes(set) \ pend

\* What is known of the files at the paths of a set.
SoundFiles(at) ==
  /\ IsFiniteSet(DOMAIN at) /\ NoPath \notin DOMAIN at
  /\ \A p \in DOMAIN at :
       /\ IsFile(at[p]) /\ NothingTwice(at[p]) /\ Path(at[p]) = p
       /\ Range(at[p].deps) \subseteq DOMAIN Merge(GlobalFiles, at) \ {NoPath}
       /\ ~DanglingReference(Merge(GlobalFiles, at), at[p])

MadeOf(set, pend, at) ==
  /\ pend \subseteq GraphNodes(set) /\ Gathered(set, pend) \subseteq PathsOf(set)
  /\ DOMAIN at = {KeyOf(p) : p \in Gathered(set, pend)}
  /\ \A p \in Gathered(set, pend) : at[KeyOf(p)] = FileOf(set, p)

Resolvable(set, pend, local) ==
  /\ DOMAIN GlobalFiles \subseteq local
  /\ local \subseteq DOMAIN GlobalFiles \cup (Gathered(set, pend) \ {NoPath})
  /\ \A p \in Gathered(set, pend) : p \in local \/ p = NoPath \/ Clash(set)

AcceptedFile(set, local, f) ==
  /\ Range(f.deps) \subseteq local
  /\ NothingTwice(f)
  /\ ~DanglingReference(Merge(GlobalFiles, ByPath(set)), f)

AcceptedFiles(set, pend, local) ==
  \A p \in Gathered(set, pend) : AcceptedFile(set, local, FileOf(set, p))

DefsOf(file, kind) == Range(IF kind = "message" THEN file.messages ELSE file.enums)

GoodEntry(fs, e) ==
  /\ e.set \in DOMAIN fs /\ e.path \in DOMAIN fs[e.set]
  /\ e.kind \in {"message", "enum"}
  /\ e.def \in DefsOf(fs[e.set][e.path], e.kind)

GoodTypes(fs, ty) == \A name \in DOMAIN ty : GoodEntry(fs, ty[name]) /\ ty[name].def.name = name

GoodEntries(fs, kind, s) ==
  /\ IsSequence(s)
  /\ \A e \in Range(s) : GoodEntry(fs, e) /\ e.kind = kind /\ e.set = Len(fs)
  /\ \A p \in DOMAIN fs[Len(fs)] : \A d \in DefsOf(fs[Len(fs)][p], kind) :
       \E e \in Range(s) : e.def = d /\ e.path = p

\* A type of a file is registered with its definition.
Registered(fs, ty, f, kind, name) ==
  /\ name \in DOMAIN ty /\ ty[name].kind = kind
  /\ DefinitionIn(fs[ty[name].set][ty[name].path], name) = DefinitionIn(f, name)

Settled(fs, ty, k) ==
  \A p \in DOMAIN fs[k] : \A kind \in {"message", "enum"} :
    \A d \in DefsOf(fs[k][p], kind) : Registered(fs, ty, fs[k][p], kind, d.name)

EarlierIn(fs) == UNION {Range(fs[k]) : k \in 1 .. (Len(fs) - 1)}

SoundSets(fs) == IsSequence(fs) /\ \A k \in 1 .. Len(fs) : SoundFiles(fs[k])

Answers(set, pend, fs, ty, res) ==
  /\ res \in {"collecting", "ok", "error", "panic"}
  /\ res \in {"collecting", "ok"} => ~Circular(set)
  /\ res = "ok" => pend = {} /\ Settled(fs, ty, Len(fs))
  /\ res = "error" => Faulty(set, EarlierIn(fs)) \/ Clash(set)
  /\ res = "panic" => MissingImports(set) # {}

Registry(set, pend, fs, local, col, ty, res) ==
  /\ IsFileSet(set)
  /\ SoundSets(fs) /\ Len(fs) >= 1
  /\ MadeOf(set, pend, fs[Len(fs)])
  /\ Resolvable(set, pend, local)
  /\ AcceptedFiles(set, pend, local)
  /\ GoodTypes(fs, ty)
  /\ GoodEntries(fs, "message", col.messages) /\ GoodEntries(fs, "enum", col.enums)
  /\ \A k \in 1 .. Len(fs) - 1 : Settled(fs, ty, k)
  /\ Answers(set, pend, fs, ty, res)

\* The files of the sets so far, and perhaps more.
MoreFiles(fs, more) ==
  \A k \in DOMAIN fs : /\ k \in DOMAIN more /\ DOMAIN fs[k] \subseteq DOMAIN more[k]
                        /\ \A p \in DOMAIN fs[k] : more[k][p] = fs[k][p]

LEMMA EntryOn ==
  ASSUME NEW fs, NEW more, MoreFiles(fs, more), NEW e, GoodEntry(fs, e)
  PROVE  GoodEntry(more, e) /\ more[e.set][e.path] = fs[e.set][e.path]
  BY DEF MoreFiles, GoodEntry

LEMMA TypesOn ==
  ASSUME NEW fs, NEW more, MoreFiles(fs, more), NEW ty, GoodTypes(fs, ty)
  PROVE  /\ GoodTypes(more, ty)
         /\ \A k : more[k] = fs[k] /\ Settled(fs, ty, k) => Settled(more, ty, k)
<1>1. ASSUME NEW name \in DOMAIN ty
      PROVE  /\ GoodEntry(more, ty[name]) /\ ty[name].def.name = name
             /\ more[ty[name].set][ty[name].path] = fs[ty[name].set][ty[name].path]
  BY EntryOn DEF GoodTypes
<1>2. GoodTypes(more, ty)
  BY <1>1 DEF GoodTypes
<1>3. ASSUME NEW f, NEW kind, NEW name, Registered(fs, ty, f, kind, name)
      PROVE  Registered(more, ty, f, kind, name)
  BY <1>1, <1>3 DEF Registered
<1>4. ASSUME NEW k, more[k] = fs[k], Settled(fs, ty, k) PROVE Settled(more, ty, k)
  BY <1>3, <1>4 DEF Settled
<1> QED
  BY <1>2, <1>4

LEMMA NoFilesSound == SoundFiles(<<>>)
<1>1. DOMAIN <<>> = {}
  BY EmptyFacts
<1> QED
  BY <1>1, FS_EmptySet DEF SoundFiles

(* A new set of files. *)
LEMMA Started ==
  ASSUME NEW set, IsFileSet(set), NEW fs, SoundSets(fs), NEW ty, GoodTypes(fs, ty),
         \A k \in 1 .. Len(fs) : Settled(fs, ty, k),
         NEW col, col = [messages |-> <<>>, enums |-> <<>>]
  PROVE  Registry(set, GraphNodes(set), Append(fs, <<>>), DOMAIN GlobalFiles, col, ty,
                  IF Circular(set) THEN "error" ELSE "collecting")
<1> DEFINE n    == Len(fs)
           more == Append(fs, <<>>)
           res  == IF Circular(set) THEN "error" ELSE "collecting"
<1>1. n \in Nat /\ DOMAIN fs = 1 .. n
  BY SeqFacts DEF SoundSets
<1>2. /\ IsSequence(more) /\ Len(more) = n + 1 /\ DOMAIN more = 1 .. n + 1
      /\ \A k \in 1 .. n : more[k] = fs[k]
      /\ more[n + 1] = <<>>
  BY AppendFacts DEF SoundSets
<1>3. DOMAIN <<>> = {} /\ IsSequence(<<>>) /\ Range(<<>>) = {}
  BY EmptyFacts
<1> HIDE DEF more, n
<1>4. MoreFiles(fs, more)
  BY <1>1, <1>2 DEF MoreFiles
<1>5. SoundSets(more) /\ Len(more) >= 1
  BY <1>1, <1>2, NoFilesSound DEF SoundSets, n
<1>6. Gathered(set, GraphNodes(set)) = {}
  BY DEF Gathered
<1>7. MadeOf(set, GraphNodes(set), more[Len(more)])
  BY <1>2, <1>3, <1>6 DEF MadeOf
<1>8. Resolvable(set, GraphNodes(set), DOMAIN GlobalFiles)
  BY <1>6 DEF Resolvable
<1>9. AcceptedFiles(set, GraphNodes(set), DOMAIN GlobalFiles)
  BY <1>6 DEF AcceptedFiles
<1>10. GoodTypes(more, ty) /\ \A k \in 1 .. Len(more) - 1 : Settled(more, ty, k)
  <2>1. 1 .. Len(more) - 1 = 1 .. n
    BY <1>1, <1>2
  <2>2. \A k \in 1 .. n : Settled(fs, ty, k)
    BY DEF n
  <2> QED
    BY <1>2, <1>4, <2>1, <2>2, TypesOn
<1>11. ASSUME NEW kind PROVE GoodEntries(more, kind, <<>>)
  BY <1>2, <1>3 DEF GoodEntries
<1>12. Answers(set, GraphNodes(set), more, ty, res)
  BY DEF Answers, Faulty
<1>13. col.messages = <<>> /\ col.enums = <<>>
  OBVIOUS
<1> HIDE DEF res
<1>14. Registry(set, GraphNodes(set), more, DOMAIN GlobalFiles, col, ty, res)
  BY <1>5, <1>7, <1>8, <1>9, <1>10, <1>11, <1>12, <1>13 DEF Registry
<1> QED
  BY <1>14 DEF more, res

-----------------------------------------------------------------------------
(* One file more. *)

LEMMA GlobalFacts ==
  ASSUME NEW p \in DOMAIN GlobalFiles
  PROVE  /\ IsFile(GlobalFiles[p]) /\ GlobalFiles[p].path = p /\ p # NoPath
         /\ Range(GlobalFiles[p].deps) \subseteq DOMAIN GlobalFiles
         /\ Path(GlobalFiles[p]) = p
  BY GlobalFilesAssumption DEF Path

(* What the files of a sound set import is there. *)
LEMMA SoundImports ==
  ASSUME NEW at, SoundFiles(at), NEW p \in DOMAIN Merge(GlobalFiles, at)
  PROVE  LET f == Merge(GlobalFiles, at)[p]
         IN  /\ IsFile(f) /\ Path(f) = p /\ p # NoPath
             /\ Range(f.deps) \subseteq DOMAIN Merge(GlobalFiles, at) \ {NoPath}
             /\ PublicImports(f) \subseteq DOMAIN Merge(GlobalFiles, at)
<1> DEFINE m == Merge(GlobalFiles, at)
           f == m[p]
<1>1. /\ DOMAIN m = DOMAIN GlobalFiles \cup DOMAIN at
      /\ \A x \in DOMAIN GlobalFiles : m[x] = GlobalFiles[x]
      /\ \A x \in DOMAIN at \ DOMAIN GlobalFiles : m[x] = at[x]
  BY DEF Merge
<1> HIDE DEF m
<1>2. IsFile(f) /\ Path(f) = p /\ p # NoPath /\ Range(f.deps) \subseteq DOMAIN m \ {NoPath}
  <2>1. CASE p \in DOMAIN GlobalFiles
    <3>1. f = GlobalFiles[p] /\ IsFile(f) /\ Path(f) = p /\ p # NoPath
      BY <1>1, <2>1, GlobalFacts
    <3>2. Range(f.deps) \subseteq DOMAIN GlobalFiles /\ NoPath \notin DOMAIN GlobalFiles
      BY <2>1, <3>1, GlobalFacts, GlobalFilesAssumption
    <3> QED
      BY <1>1, <3>1, <3>2
  <2>2. CASE p \notin DOMAIN GlobalFiles
    <3>1. p \in DOMAIN at /\ f = at[p]
      BY <1>1, <2>2 DEF m
    <3> QED
      BY <3>1 DEF SoundFiles, m
  <2> QED
    BY <2>1, <2>2
<1>3. PublicImports(f) \subseteq DOMAIN m
  BY <1>2, PublicAreImports
<1> QED
  BY <1>2, <1>3 DEF m

LEMMA MergedFinite ==
  ASSUME NEW at, IsFiniteSet(DOMAIN at)
  PROVE  IsFiniteSet(DOMAIN Merge(GlobalFiles, at))
<1>1. DOMAIN Merge(GlobalFiles, at) = DOMAIN GlobalFiles \cup DOMAIN at
  BY DEF Merge

<1>2. IsFiniteSet(DOMAIN GlobalFiles \cup DOMAIN at)
  BY GlobalFilesAssumption, FS_Union, Zenon
<1> QED
  BY <1>1, <1>2

LEMMA SoundGrows ==
  ASSUME NEW at, SoundFiles(at), NEW file, IsFile(file), NothingTwice(file),
         NEW key, key = Path(file), key \notin DOMAIN at,
         Range(file.deps) \subseteq DOMAIN Merge(GlobalFiles, at) \ {NoPath},
         ~DanglingReference(Merge(GlobalFiles, at), file)
  PROVE  SoundFiles(With(at, key, file))
<1> DEFINE new  == With(at, key, file)
           m    == Merge(GlobalFiles, at)
           more == Merge(GlobalFiles, new)
<1>1. /\ DOMAIN new = DOMAIN at \cup {key} /\ new[key] = file
      /\ \A p \in DOMAIN at : new[p] = at[p]
  BY DEF With, Merge
<1> HIDE DEF new
<1>2. /\ DOMAIN m = DOMAIN GlobalFiles \cup DOMAIN at
      /\ \A x \in DOMAIN GlobalFiles : m[x] = GlobalFiles[x]
      /\ \A x \in DOMAIN at \ DOMAIN GlobalFiles : m[x] = at[x]
  BY DEF Merge
<1>3. /\ DOMAIN more = DOMAIN GlobalFiles \cup DOMAIN new
      /\ \A x \in DOMAIN GlobalFiles : more[x] = GlobalFiles[x]
      /\ \A x \in DOMAIN new \ DOMAIN GlobalFiles : more[x] = new[x]
  BY DEF Merge
<1>4. IsFiniteSet(DOMAIN new)
  BY <1>1, FS_AddElement DEF SoundFiles
<1>5. IsFiniteSet(DOMAIN m) /\ IsFiniteSet(DOMAIN more)
  BY <1>4, MergedFinite DEF SoundFiles
<1>6. \A p \in DOMAIN m : PublicImports(m[p]) \subseteq DOMAIN m
  BY SoundImports
<1> DEFINE L == DOMAIN m
<1>7. ~DanglingReference(m, file) /\ Range(file.deps) \subseteq L \ {NoPath}
  OBVIOUS
<1>8. \A p \in DOMAIN at : /\ Range(at[p].deps) \subseteq L \ {NoPath}
                            /\ ~DanglingReference(m, at[p])
  BY DEF SoundFiles
<1> HIDE DEF m, more
<1>9. Shared(m, more, L)
  BY <1>1, <1>2, <1>3, <1>5, <1>6 DEF Shared
<1>10. L \subseteq DOMAIN more
  BY <1>1, <1>2, <1>3
<1> HIDE DEF L
<1>11. ASSUME NEW f, Range(f.deps) \subseteq L \ {NoPath}, ~DanglingReference(m, f)
       PROVE  Range(f.deps) \subseteq DOMAIN more \ {NoPath} /\ ~DanglingReference(more, f)
  <2>1. Range(f.deps) \subseteq L
    BY <1>11
  <2>2. ~DanglingReference(more, f)
    BY <1>9, <1>11, <2>1, SameDangling
  <2> QED
    BY <1>10, <1>11, <2>2
<1>12. key # NoPath
  BY DEF Path, NoPath, temporaryPath
<1>13. NoPath \notin DOMAIN new
  BY <1>1, <1>12 DEF SoundFiles
<1>14. ASSUME NEW p \in DOMAIN new
       PROVE  /\ IsFile(new[p]) /\ NothingTwice(new[p]) /\ Path(new[p]) = p
              /\ Range(new[p].deps) \subseteq DOMAIN more \ {NoPath}
              /\ ~DanglingReference(more, new[p])
  <2>1. CASE p = key
    BY <1>1, <1>7, <1>11, <2>1
  <2>2. CASE p # key
    <3>1. p \in DOMAIN at /\ new[p] = at[p]
      BY <1>1, <2>2
    <3>2. IsFile(at[p]) /\ NothingTwice(at[p]) /\ Path(at[p]) = p
      BY <3>1 DEF SoundFiles
    <3> QED
      BY <1>8, <1>11, <3>1, <3>2
  <2> QED
    BY <2>1, <2>2
<1>15. SoundFiles(new)
  BY <1>4, <1>13, <1>14 DEF SoundFiles, more
<1> QED
  BY <1>15 DEF new

LEMMA KeysDiffer ==
  ASSUME NEW set, IsFileSet(set), NEW p \in PathsOf(set), NEW q \in PathsOf(set), p # q
  PROVE  KeyOf(p) # KeyOf(q)
<1>1. p \in {f.path : f \in Range(set)} /\ q \in {f.path : f \in Range(set)}
  <2>1. FileOf(set, p) \in Range(set) /\ FileOf(set, p).path = p
    BY FileAtPath
  <2>2. FileOf(set, q) \in Range(set) /\ FileOf(set, q).path = q
    BY FileAtPath
  <2> QED
    BY <2>1, <2>2
<1> DEFINE A == {f.path : f \in Range(set)}
<1>2. ~({NoPath, temporaryPath} \subseteq A)
  BY DEF IsFileSet
<1> HIDE DEF A
<1> QED
  BY <1>1, <1>2 DEF KeyOf, A

LEMMA GatheredNext ==
  ASSUME NEW set, NEW pend, pend \subseteq GraphNodes(set), NEW path \in pend
  PROVE  Gathered(set, pend \ {path}) = Gathered(set, pend) \cup {path} /\ path \notin Gathered(set, pend)
  BY DEF Gathered

LEMMA MadeNext ==
  ASSUME NEW set, IsFileSet(set), NEW pend, NEW at, MadeOf(set, pend, at),
         NEW path \in pend, path \in PathsOf(set)
  PROVE  /\ KeyOf(path) \notin DOMAIN at
         /\ MadeOf(set, pend \ {path}, With(at, KeyOf(path), FileOf(set, path)))
<1> DEFINE key == KeyOf(path)
           file == FileOf(set, path)
           new == With(at, key, file)
           G == Gathered(set, pend)
<1>1. Gathered(set, pend \ {path}) = G \cup {path} /\ path \notin G
  BY GatheredNext DEF MadeOf
<1>2. G \subseteq PathsOf(set) /\ DOMAIN at = {KeyOf(p) : p \in G} /\ pend \subseteq GraphNodes(set)
  BY DEF MadeOf
<1>3. \A p \in G : at[KeyOf(p)] = FileOf(set, p)
  BY DEF MadeOf
<1> HIDE DEF G, file
<1>4. \A p \in G : KeyOf(p) # key
  BY <1>1, <1>2, KeysDiffer
<1> HIDE DEF key
<1>5. key \notin DOMAIN at
  BY <1>2, <1>4
<1>6. /\ DOMAIN new = DOMAIN at \cup {key} /\ new[key] = file
      /\ \A p \in DOMAIN at : new[p] = at[p]
  BY <1>5 DEF With, Merge
<1> HIDE DEF new
<1>7. DOMAIN new = {KeyOf(p) : p \in G \cup {path}}
  BY <1>2, <1>6 DEF key
<1>8. \A p \in G \cup {path} : new[KeyOf(p)] = FileOf(set, p)
  BY <1>2, <1>3, <1>6 DEF key, file
<1>9. MadeOf(set, pend \ {path}, new)
  BY <1>1, <1>2, <1>7, <1>8 DEF MadeOf
<1> QED
  BY <1>5, <1>9 DEF key, file, new

LEMMA GatheredFile ==
  ASSUME NEW set, NEW pend, NEW at, MadeOf(set, pend, at), NEW p \in Gathered(set, pend), p # NoPath
  PROVE  p \in PathsOf(set) /\ p \in DOMAIN at /\ at[p] = FileOf(set, p)
  BY DEF MadeOf, KeyOf

(* The files that can be imported are the ones of the whole set. *)
LEMMA LocalShared ==
  ASSUME NEW set, IsFileSet(set), NEW pend, NEW at, MadeOf(set, pend, at), IsFiniteSet(DOMAIN at),
         NEW local, Resolvable(set, pend, local), AcceptedFiles(set, pend, local)
  PROVE  Shared(Merge(GlobalFiles, at), Merge(GlobalFiles, ByPath(set)), local)
<1> DEFINE m    == Merge(GlobalFiles, at)
           byPath == ByPath(set)
           more == Merge(GlobalFiles, byPath)
<1>1. DOMAIN byPath = PathsOf(set) /\ \A p \in PathsOf(set) : byPath[p] = FileOf(set, p)
  BY DEF ByPath
<1> HIDE DEF byPath
<1>2. /\ DOMAIN m = DOMAIN GlobalFiles \cup DOMAIN at
      /\ \A x \in DOMAIN GlobalFiles : m[x] = GlobalFiles[x]
      /\ \A x \in DOMAIN at \ DOMAIN GlobalFiles : m[x] = at[x]
  BY DEF Merge
<1>3. /\ DOMAIN more = DOMAIN GlobalFiles \cup DOMAIN byPath
      /\ \A x \in DOMAIN GlobalFiles : more[x] = GlobalFiles[x]
      /\ \A x \in DOMAIN byPath \ DOMAIN GlobalFiles : more[x] = byPath[x]
  BY DEF Merge
<1>4. IsFiniteSet(DOMAIN m) /\ IsFiniteSet(DOMAIN more)
  BY <1>1, MergedFinite, PathsFinite
<1> HIDE DEF m, more
<1>5. ASSUME NEW p \in local
      PROVE  p \in DOMAIN m /\ p \in DOMAIN more /\ m[p] = more[p] /\ PublicImports(m[p]) \subseteq local
  <2>1. CASE p \in DOMAIN GlobalFiles
    <3>1. m[p] = GlobalFiles[p] /\ more[p] = GlobalFiles[p] /\ p \in DOMAIN m /\ p \in DOMAIN more
      BY <1>2, <1>3, <2>1
    <3>2. PublicImports(GlobalFiles[p]) \subseteq DOMAIN GlobalFiles
      BY <2>1, GlobalFacts, PublicAreImports
    <3> QED
      BY <3>1, <3>2 DEF Resolvable
  <2>2. CASE p \notin DOMAIN GlobalFiles
    <3>1. p \in Gathered(set, pend) /\ p # NoPath
      BY <2>2 DEF Resolvable
    <3>2. p \in PathsOf(set) /\ p \in DOMAIN at /\ at[p] = FileOf(set, p)
      BY <3>1, GatheredFile
    <3>3. m[p] = FileOf(set, p) /\ more[p] = FileOf(set, p) /\ p \in DOMAIN m /\ p \in DOMAIN more
      BY <1>1, <1>2, <1>3, <2>2, <3>2
    <3>4. Range(FileOf(set, p).deps) \subseteq local
      BY <3>1 DEF AcceptedFiles, AcceptedFile
    <3>5. PublicImports(FileOf(set, p)) \subseteq Range(FileOf(set, p).deps)
      BY <3>2, FileAtPath, PublicAreImports
    <3> QED
      BY <3>3, <3>4, <3>5
  <2> QED
    BY <2>1, <2>2
<1>6. Shared(m, more, local)
  BY <1>4, <1>5 DEF Shared
<1> QED
  BY <1>6 DEF m, more, byPath

LEMMA ResolvableNext ==
  ASSUME NEW set, IsFileSet(set), NEW pend, NEW at, MadeOf(set, pend, at),
         NEW local, Resolvable(set, pend, local), NEW path \in pend, path \in PathsOf(set),
         NEW more,
         \/ more = local \cup {path} /\ path # NoPath
         \/ /\ more = local
            /\ \/ path = NoPath \/ path \in local
               \/ \E p \in local : NamesClash(FileOf(set, path), Merge(GlobalFiles, at)[p])
  PROVE  Resolvable(set, pend \ {path}, more) /\ local \subseteq more
<1> DEFINE G == Gathered(set, pend)
           file == FileOf(set, path)
           m == Merge(GlobalFiles, at)
<1>1. Gathered(set, pend \ {path}) = G \cup {path} /\ path \notin G
  BY GatheredNext DEF MadeOf
<1>2. /\ DOMAIN GlobalFiles \subseteq local /\ local \subseteq DOMAIN GlobalFiles \cup (G \ {NoPath})
      /\ \A p \in G : p \in local \/ p = NoPath \/ Clash(set)
  BY DEF Resolvable
<1>3. path \in more \/ path = NoPath \/ Clash(set)
  <2>1. CASE \E p \in local : NamesClash(file, m[p])
    <3>1. SUFFICES ASSUME path \notin local, path # NoPath PROVE Clash(set)
      BY <2>1
    <3>2. PICK p \in local : NamesClash(file, m[p])
      BY <2>1
    <3>3. file \in FilesOf(set) /\ file.path = path
      BY FileAtPath DEF FilesOf
    <3>4. p # path
      BY <3>1
    <3>5. CASE p \in DOMAIN GlobalFiles
      <4>1. m[p] = GlobalFiles[p]
        BY <3>5 DEF Merge
      <4>2. GlobalFiles[p].path = p /\ GlobalFiles[p] \in Range(GlobalFiles)
        BY <3>5, GlobalFacts, RangeMember
      <4>3. file # GlobalFiles[p]
        BY <3>3, <3>4, <4>2
      <4> QED
        BY <3>2, <3>3, <4>1, <4>2, <4>3 DEF Clash
    <3>6. CASE p \notin DOMAIN GlobalFiles
      <4>1. p \in G /\ p # NoPath
        BY <1>2, <3>6
      <4>2. p \in PathsOf(set) /\ p \in DOMAIN at /\ at[p] = FileOf(set, p)
        BY <4>1, GatheredFile
      <4>3. m[p] = FileOf(set, p)
        BY <3>6, <4>2 DEF Merge
      <4>4. FileOf(set, p).path = p /\ FileOf(set, p) \in FilesOf(set)
        BY <4>2, FileAtPath DEF FilesOf
      <4>5. file # FileOf(set, p)
        BY <3>3, <3>4, <4>4
      <4> QED
        BY <3>2, <3>3, <4>3, <4>4, <4>5 DEF Clash
    <3> QED
      BY <3>5, <3>6
  <2> QED
    BY <2>1
<1>4. local \subseteq more /\ more \subseteq local \cup ({path} \ {NoPath})
  OBVIOUS
<1> HIDE DEF G
<1>5. DOMAIN GlobalFiles \subseteq more
  BY <1>2, <1>4
<1>6. more \subseteq DOMAIN GlobalFiles \cup ((G \cup {path}) \ {NoPath})
  BY <1>2, <1>4
<1>7. \A p \in G \cup {path} : p \in more \/ p = NoPath \/ Clash(set)
  BY <1>2, <1>3, <1>4
<1> QED
  BY <1>1, <1>4, <1>5, <1>6, <1>7 DEF Resolvable

LEMMA AcceptedNext ==
  ASSUME NEW set, NEW pend, pend \subseteq GraphNodes(set), NEW local, AcceptedFiles(set, pend, local),
         NEW path \in pend, NEW more, local \subseteq more, AcceptedFile(set, local, FileOf(set, path))
  PROVE  AcceptedFiles(set, pend \ {path}, more)
<1>1. Gathered(set, pend \ {path}) = Gathered(set, pend) \cup {path}
  BY GatheredNext
<1> QED
  BY <1>1 DEF AcceptedFiles, AcceptedFile

LEMMA EntriesNext ==
  ASSUME NEW fs, IsSequence(fs), Len(fs) >= 1, NEW file, NEW key, key = Path(file),
         key \notin DOMAIN fs[Len(fs)],
         NEW more, more = [fs EXCEPT ![Len(fs)] = With(fs[Len(fs)], key, file)],
         NEW kind \in {"message", "enum"}, NEW s, GoodEntries(fs, kind, s),
         NEW defs, defs = (IF kind = "message" THEN file.messages ELSE file.enums),
         IsSequence(defs)
  PROVE  GoodEntries(more, kind, s \o Entries(Len(fs), file, kind, defs))
<1> DEFINE k == Len(fs)
           es == Entries(k, file, kind, defs)
           new == With(fs[k], key, file)
<1>1. k \in Nat /\ k \in DOMAIN fs /\ DOMAIN fs = 1 .. k
  BY SeqFacts
<1>2. /\ DOMAIN new = DOMAIN fs[k] \cup {key} /\ new[key] = file
      /\ \A p \in DOMAIN fs[k] : new[p] = fs[k][p]
  BY DEF With, Merge
<1> HIDE DEF new
<1>3. DOMAIN more = DOMAIN fs /\ more[k] = new /\ \A j \in DOMAIN fs : j # k => more[j] = fs[j]
  BY <1>1 DEF new
<1>4. Len(more) = k
  <2>1. more = [j \in 1 .. k |-> more[j]]
    BY <1>1, <1>3
  <2> QED
    BY <1>1, <2>1, FunctionIsSeq
<1>5. MoreFiles(fs, more)
  BY <1>2, <1>3 DEF MoreFiles
<1>6. Len(defs) \in Nat /\ DOMAIN defs = 1 .. Len(defs)
  BY SeqFacts
<1>7. /\ DOMAIN es = DOMAIN defs
      /\ \A i \in DOMAIN defs :
           es[i].kind = kind /\ es[i].def = defs[i] /\ es[i].path = key /\ es[i].set = k
  BY DEF Entries
<1>8. IsSequence(es)
  <2>1. es = [i \in 1 .. Len(defs) |-> es[i]]
    BY <1>6 DEF Entries
  <2> HIDE DEF es
  <2> QED
    BY <1>6, <2>1, FunctionIsSeq
<1> HIDE DEF es
<1>9. IsSequence(s \o es) /\ Range(s \o es) = Range(s) \cup Range(es)
  BY <1>8, ConcatRange DEF GoodEntries
<1>10. DefsOf(file, kind) = Range(defs)
  BY Zenon DEF DefsOf
<1>11. ASSUME NEW e \in Range(es) PROVE GoodEntry(more, e) /\ e.kind = kind /\ e.set = k
  <2>1. PICK i \in DOMAIN es : e = es[i]
    BY RangeAt
  <2>2. e.kind = kind /\ e.def = defs[i] /\ e.path = key /\ e.set = k /\ i \in DOMAIN defs
    BY <1>7, <2>1
  <2>3. defs[i] \in DefsOf(file, kind)
    BY <1>10, <2>2, RangeMember
  <2> QED
    BY <1>1, <1>2, <1>3, <2>2, <2>3 DEF GoodEntry
<1>12. ASSUME NEW e \in Range(s) PROVE GoodEntry(more, e) /\ e.kind = kind /\ e.set = k
  BY <1>5, EntryOn DEF GoodEntries
<1>13. ASSUME NEW p \in DOMAIN new, NEW d \in DefsOf(new[p], kind)
       PROVE  \E e \in Range(s) \cup Range(es) : e.def = d /\ e.path = p
  <2>1. CASE p = key
    <3>1. PICK i \in DOMAIN defs : d = defs[i]
      BY <1>2, <1>10, <1>13, <2>1, RangeAt
    <3>2. es[i] \in Range(es) /\ es[i].def = d /\ es[i].path = key
      BY <1>7, <3>1, RangeMember
    <3> QED
      BY <2>1, <3>2
  <2>2. CASE p # key
    <3>1. p \in DOMAIN fs[k] /\ d \in DefsOf(fs[k][p], kind)
      BY <1>2, <1>13, <2>2
    <3>2. \E e \in Range(s) : e.def = d /\ e.path = p
      BY <3>1 DEF GoodEntries
    <3> QED
      BY <3>2
  <2> QED
    BY <2>1, <2>2
<1>14. GoodEntries(more, kind, s \o es)
  <2> DEFINE u == s \o es
  <2>1. IsSequence(u) /\ Range(u) = Range(s) \cup Range(es)
    BY <1>9
  <2> HIDE DEF u
  <2>2. \A e \in Range(u) : GoodEntry(more, e) /\ e.kind = kind /\ e.set = Len(more)
    BY <1>4, <1>11, <1>12, <2>1
  <2>3. more[Len(more)] = new
    BY <1>3, <1>4
  <2>4. \A p \in DOMAIN new : \A d \in DefsOf(new[p], kind) : \E e \in Range(u) : e.def = d /\ e.path = p
    BY <1>13, <2>1
  <2>5. GoodEntries(more, kind, u)
    BY <2>1, <2>2, <2>3, <2>4, Zenon DEF GoodEntries
  <2> QED
    BY <2>5 DEF u
<1> QED
  BY <1>14 DEF es

LEMMA BelowLast == ASSUME NEW n \in Nat PROVE \A j \in 1 .. n - 1 : j \in 1 .. n /\ j # n
  OBVIOUS

CurrentRegistry == Registry(fdSet, pending, files, localFiles, collected, types, result)

LEMMA LocalThere ==
  ASSUME NEW set, NEW pend, NEW at, MadeOf(set, pend, at), NEW local, Resolvable(set, pend, local)
  PROVE  local \subseteq DOMAIN Merge(GlobalFiles, at) \ {NoPath}
<1>1. DOMAIN Merge(GlobalFiles, at) = DOMAIN GlobalFiles \cup DOMAIN at
  BY DEF Merge
<1>2. \A p \in Gathered(set, pend) \ {NoPath} : p \in DOMAIN at
  BY GatheredFile
<1>3. local \subseteq DOMAIN GlobalFiles \cup (Gathered(set, pend) \ {NoPath}) /\ NoPath \notin DOMAIN GlobalFiles
  BY GlobalFilesAssumption DEF Resolvable
<1> QED
  BY <1>1, <1>2, <1>3

(* A set that a file is refused of has a fault, or a clash of names. *)
LEMMA RefusedFaulty ==
  ASSUME NEW set, IsFileSet(set), NEW pend, NEW at, MadeOf(set, pend, at), IsFiniteSet(DOMAIN at),
         NEW local, Resolvable(set, pend, local), AcceptedFiles(set, pend, local),
         NEW path \in pend, path \in PathsOf(set), Dependencies(set, path) \cap pend = {},
         NEW file, file = FileOf(set, path),
         ~(/\ Range(file.deps) \subseteq local
           /\ NothingTwice(file)
           /\ ~DanglingReference(Merge(GlobalFiles, at), file)),
         NEW earlier
  PROVE  Faulty(set, earlier) \/ Clash(set)
<1>1. file \in FilesOf(set)
  BY DEF FilesOf
<1>2. CASE ~(Range(file.deps) \subseteq local)
  <2>1. PICK d \in Range(file.deps) : d \notin local
    BY <1>2
  <2>2. d \notin DOMAIN GlobalFiles
    BY <2>1 DEF Resolvable
  <2>3. CASE d \in PathsOf(set) \ {NoPath}
    <3>1. d \in Dependencies(set, path)
      BY <2>1, <2>3, FileAtPath DEF Dependencies
    <3>2. d \in Gathered(set, pend)
      BY <3>1 DEF Gathered, GraphNodes
    <3> QED
      BY <2>1, <2>3, <3>2 DEF Resolvable
  <2>4. CASE d \notin PathsOf(set) \ {NoPath}
    <3>1. ~(Range(file.deps) \subseteq DOMAIN GlobalFiles \cup (PathsOf(set) \ {NoPath}))
      BY <2>1, <2>2, <2>4
    <3> QED
      BY <1>1, <3>1, Zenon DEF Faulty
  <2> QED
    BY <2>3, <2>4
<1>3. CASE ~NothingTwice(file)
  BY <1>1, <1>3, Zenon DEF Faulty
<1>4. CASE Range(file.deps) \subseteq local /\ DanglingReference(Merge(GlobalFiles, at), file)
  <2>1. Shared(Merge(GlobalFiles, at), Merge(GlobalFiles, ByPath(set)), local)
    BY LocalShared
  <2>2. DanglingReference(Merge(GlobalFiles, ByPath(set)), file)
    BY <1>4, <2>1, SameDangling
  <2> QED
    BY <1>1, <2>2, Zenon DEF Faulty
<1> QED
  BY <1>2, <1>3, <1>4

LEMMA FileCollected ==
  ASSUME CurrentRegistry, NEW path \in pending, CollectFile(path)
  PROVE  CurrentRegistry'
<1> DEFINE k    == Len(files)
           at   == files[k]
           file == FileOf(fdSet, path)
<1>1. result = "collecting" /\ Dependencies(fdSet, path) \cap pending = {}
  BY DEF CollectFile, NextInOrder
<1>2. /\ IsFileSet(fdSet) /\ SoundSets(files) /\ k >= 1
      /\ MadeOf(fdSet, pending, at)
      /\ Resolvable(fdSet, pending, localFiles) /\ AcceptedFiles(fdSet, pending, localFiles)
      /\ GoodTypes(files, types)
      /\ GoodEntries(files, "message", collected.messages) /\ GoodEntries(files, "enum", collected.enums)
      /\ \A j \in 1 .. k - 1 : Settled(files, types, j)
  BY DEF CurrentRegistry, Registry
<1>3. ~Circular(fdSet)
  BY <1>1 DEF CurrentRegistry, Registry, Answers
<1>4. k \in Nat /\ DOMAIN files = 1 .. k /\ IsSequence(files) /\ k \in 1 .. k
  BY <1>2, SeqFacts DEF SoundSets
<1>5. SoundFiles(at) /\ IsFiniteSet(DOMAIN at)
  BY <1>2, <1>4 DEF SoundSets, SoundFiles
<1>6. pending \subseteq GraphNodes(fdSet)
  BY <1>2 DEF MadeOf
<1>7. FilesIn(k) = Merge(GlobalFiles, at)
  BY DEF FilesIn
<1>8. CASE path \notin PathsOf(fdSet)
  <2>1. result' = "panic" /\ UNCHANGED <<fdSet, pending, files, localFiles, collected, types>>
    BY <1>8, Zenon DEF CollectFile
  <2>2. MissingImports(fdSet) # {}
    BY <1>6, <1>8 DEF MissingImports
  <2>3. Answers(fdSet, pending, files, types, "panic")
    BY <2>2 DEF Answers
  <2>4. Registry(fdSet, pending, files, localFiles, collected, types, "panic")
    BY <2>3 DEF CurrentRegistry, Registry
  <2> QED
    BY <2>1, <2>4 DEF CurrentRegistry
<1>9. CASE path \in PathsOf(fdSet) /\ ~NewFile(k, file)
  <2>1. result' = "error" /\ UNCHANGED <<fdSet, pending, files, localFiles, collected, types>>
    BY <1>9, Zenon DEF CollectFile
  <2>2. ~(/\ Range(file.deps) \subseteq localFiles
          /\ NothingTwice(file)
          /\ ~DanglingReference(Merge(GlobalFiles, at), file))
    BY <1>7, <1>9, Zenon DEF NewFile
  <2> HIDE DEF at, file
  <2>3. Faulty(fdSet, EarlierIn(files)) \/ Clash(fdSet)
    BY <1>1, <1>2, <1>5, <1>9, <2>2, RefusedFaulty DEF file
  <2>4. Answers(fdSet, pending, files, types, "error")
    BY <2>3 DEF Answers
  <2>5. Registry(fdSet, pending, files, localFiles, collected, types, "error")
    BY <2>4 DEF CurrentRegistry, Registry
  <2> QED
    BY <2>1, <2>5 DEF CurrentRegistry
<1>10. CASE path \in PathsOf(fdSet) /\ NewFile(k, file)
  <2> DEFINE key == Path(file)
             new == With(at, key, file)
             pend  == pending \ {path}
             more  == [files EXCEPT ![k] = new]
             local == localFiles \cup {p \in {path} : Registers(k, file)}
             ms == collected.messages \o Entries(k, file, "message", file.messages)
             es == collected.enums \o Entries(k, file, "enum", file.enums)
             col == [messages |-> ms, enums |-> es]
  <2>1. /\ pending' = pend /\ files' = more /\ localFiles' = local /\ collected' = col
        /\ fdSet' = fdSet /\ types' = types /\ result' = result
    BY <1>10, Zenon DEF CollectFile
  <2>2. file.path = path /\ IsFile(file)
    BY <1>2, <1>10, FileAtPath
  <2>3. key = KeyOf(path)
    BY <2>2 DEF Path, KeyOf
  <2>4. AcceptedFile(fdSet, localFiles, file) /\ ~DanglingReference(Merge(GlobalFiles, at), file)
    <3>1. /\ Range(file.deps) \subseteq localFiles /\ NothingTwice(file)
          /\ ~DanglingReference(Merge(GlobalFiles, at), file)
      BY <1>7, <1>10, Zenon DEF NewFile
    <3>2. Shared(Merge(GlobalFiles, at), Merge(GlobalFiles, ByPath(fdSet)), localFiles)
      BY <1>2, <1>5, LocalShared
    <3> HIDE DEF at, file
    <3>3. ~DanglingReference(Merge(GlobalFiles, ByPath(fdSet)), file)
      BY <3>1, <3>2, SameDangling
    <3> QED
      BY <3>1, <3>3 DEF AcceptedFile
  <2>5. key \notin DOMAIN at /\ MadeOf(fdSet, pend, new)
    BY <1>2, <1>10, <2>3, MadeNext
  <2>6. Resolvable(fdSet, pend, local) /\ localFiles \subseteq local
    <3>1. CASE Registers(k, file)
      <4>1. local = localFiles \cup {path} /\ path # NoPath
        BY <2>2, <3>1 DEF Registers
      <4> HIDE DEF local, at
      <4> QED
        BY <1>2, <1>10, <4>1, ResolvableNext
    <3>2. CASE ~Registers(k, file)
      <4>1. local = localFiles
        BY <3>2
      <4>2. \/ path = NoPath \/ path \in localFiles
            \/ \E p \in localFiles : NamesClash(file, Merge(GlobalFiles, at)[p])
        BY <1>7, <2>2, <3>2 DEF Registers
      <4> HIDE DEF local, at
      <4> QED
        BY <1>2, <1>10, <4>1, <4>2, ResolvableNext
    <3> QED
      BY <3>1, <3>2
  <2>7. AcceptedFiles(fdSet, pend, local)
    <3> HIDE DEF local
    <3> QED
      BY <1>2, <1>6, <2>4, <2>6, AcceptedNext
  <2>8. IsSequence(file.messages) /\ IsSequence(file.enums)
    BY <2>2 DEF IsFile
  <2>9. GoodEntries(more, "message", ms)
    BY <1>2, <1>4, <2>5, <2>8, EntriesNext
  <2>10. GoodEntries(more, "enum", es)
    BY <1>2, <1>4, <2>5, <2>8, EntriesNext
  <2>11. localFiles \subseteq DOMAIN Merge(GlobalFiles, at) \ {NoPath}
    BY <1>2, LocalThere
  <2>12. SoundFiles(new)
    <3>1. Range(file.deps) \subseteq localFiles /\ NothingTwice(file)
      BY <2>4 DEF AcceptedFile
    <3> HIDE DEF at, file, key
    <3>2. Range(file.deps) \subseteq DOMAIN Merge(GlobalFiles, at) \ {NoPath}
      BY <2>11, <3>1
    <3> QED
      BY <1>5, <2>2, <2>4, <2>5, <3>1, <3>2, SoundGrows DEF key
  <2>13. DOMAIN more = 1 .. k /\ more[k] = new /\ (\A j \in 1 .. k : j # k => more[j] = files[j])
    <3> HIDE DEF new
    <3> QED
      BY <1>4
  <2>14. /\ DOMAIN new = DOMAIN at \cup {key}
         /\ \A p \in DOMAIN at : new[p] = at[p]
    BY <2>5 DEF With, Merge
  <2> HIDE DEF new, key, local, ms, es
  <2>15. IsSequence(more) /\ Len(more) = k
    <3>1. more = [j \in 1 .. k |-> more[j]]
      BY <2>13
    <3> QED
      BY <1>4, <3>1, FunctionIsSeq
  <2>16. MoreFiles(files, more)
    BY <1>4, <2>13, <2>14 DEF MoreFiles
  <2> HIDE DEF more
  <2>17. SoundSets(more)
    BY <1>2, <2>12, <2>13, <2>15 DEF SoundSets
  <2>18. GoodTypes(more, types) /\ \A j \in 1 .. k - 1 : Settled(more, types, j)
    <3>1. \A j \in 1 .. k - 1 : j \in 1 .. k /\ j # k
      BY <1>4, BelowLast
    <3>2. \A j \in 1 .. k - 1 : more[j] = files[j]
      BY <2>13, <3>1
    <3> QED
      BY <1>2, <2>16, <3>2, TypesOn
  <2>19. Answers(fdSet, pend, more, types, result)
    BY <1>1, <1>3 DEF Answers
  <2>20. col.messages = ms /\ col.enums = es
    OBVIOUS
  <2>21. Registry(fdSet, pend, more, local, col, types, result)
    BY <1>2, <2>5, <2>6, <2>7, <2>9, <2>10, <2>13, <2>15, <2>17, <2>18, <2>19, <2>20 DEF Registry
  <2> QED
    BY <2>1, <2>21 DEF CurrentRegistry
<1> QED
  BY <1>8, <1>9, <1>10

-----------------------------------------------------------------------------
(* ExtendLocalTypes. *)

LEMMA OnceSame ==
  ASSUME NEW f, IsFile(f), NothingTwice(f), NEW a \in Definitions(f), NEW b \in Definitions(f),
         a.name = b.name
  PROVE  a = b
<1> DEFINE defs == f.messages \o f.enums
<1>1. Range(defs) = Definitions(f)
  BY ConcatRange DEF IsFile, Definitions
<1>2. \A i, j \in DOMAIN defs : defs[i].name = defs[j].name => i = j
  BY Zenon DEF NothingTwice
<1> HIDE DEF defs
<1>3. PICK i \in DOMAIN defs : a = defs[i]
  BY <1>1, RangeAt
<1>4. PICK j \in DOMAIN defs : b = defs[j]
  BY <1>1, RangeAt
<1> QED
  BY <1>2, <1>3, <1>4

LEMMA KindOfDefinition ==
  ASSUME NEW f, IsFile(f), NEW kind \in {"message", "enum"}, NEW d \in DefsOf(f, kind)
  PROVE  d \in Definitions(f) /\ (kind = "message" <=> "fields" \in DOMAIN d)
<1>1. CASE kind = "message"
  BY <1>1 DEF DefsOf, Definitions, IsFile
<1>2. CASE kind = "enum"
  BY <1>2 DEF DefsOf, Definitions, IsFile
<1> QED
  BY <1>1, <1>2

Conflicting == \E f \in FilesOf(fdSet) : \E g \in FilesOf(fdSet) \cup EarlierFiles : Conflict(f, g)

LEMMA CurrentFile ==
  ASSUME CurrentRegistry, NEW p \in DOMAIN files[Len(files)]
  PROVE  files[Len(files)][p] \in FilesOf(fdSet)
<1>1. MadeOf(fdSet, pending, files[Len(files)])
  BY DEF CurrentRegistry, Registry
<1>2. PICK q \in Gathered(fdSet, pending) : p = KeyOf(q)
  BY <1>1 DEF MadeOf
<1>3. files[Len(files)][p] = FileOf(fdSet, q) /\ q \in PathsOf(fdSet)
  BY <1>1, <1>2 DEF MadeOf
<1> QED
  BY <1>3 DEF FilesOf

LEMMA FileOfEntry ==
  ASSUME CurrentRegistry, NEW e, GoodEntry(files, e)
  PROVE  LET f == files[e.set][e.path]
         IN  /\ f \in FilesOf(fdSet) \cup EarlierFiles
             /\ e.set = Len(files) => f \in FilesOf(fdSet)
             /\ IsFile(f) /\ NothingTwice(f)
             /\ e.def \in Definitions(f) /\ (e.kind = "message" <=> "fields" \in DOMAIN e.def)
             /\ Definition(e) = DefinitionIn(f, e.def.name)
<1> DEFINE f == files[e.set][e.path]
           k == Len(files)
<1>1. /\ e.set \in DOMAIN files /\ e.path \in DOMAIN files[e.set]
      /\ e.kind \in {"message", "enum"} /\ e.def \in DefsOf(f, e.kind)
  BY DEF GoodEntry
<1>2. SoundSets(files)
  BY DEF CurrentRegistry, Registry
<1>3. k \in Nat /\ DOMAIN files = 1 .. k
  BY <1>2, SeqFacts DEF SoundSets
<1>4. SoundFiles(files[e.set])
  BY <1>1, <1>2, <1>3 DEF SoundSets
<1>5. IsFile(f) /\ NothingTwice(f)
  BY <1>1, <1>4 DEF SoundFiles
<1>6. e.set = k => f \in FilesOf(fdSet)
  BY <1>1, CurrentFile
<1>7. e.set # k => f \in EarlierFiles
  <2>1. SUFFICES ASSUME e.set # k PROVE f \in EarlierFiles
    OBVIOUS
  <2>2. e.set \in 1 .. k - 1 /\ f \in Range(files[e.set])
    BY <1>1, <1>3, <2>1, RangeMember
  <2> QED
    BY <2>2 DEF EarlierFiles
<1>8. Definition(e) = DefinitionIn(f, e.def.name)
  BY DEF Definition, DefinitionIn
<1> HIDE DEF f
<1>9. e.def \in Definitions(f) /\ (e.kind = "message" <=> "fields" \in DOMAIN e.def)
  BY <1>1, <1>5, KindOfDefinition
<1> QED
  BY <1>5, <1>6, <1>7, <1>8, <1>9 DEF f

LEMMA ConflictFound ==
  ASSUME CurrentRegistry, NEW ty, GoodTypes(files, ty),
         NEW e, GoodEntry(files, e), e.set = Len(files), e.def.name \in DOMAIN ty,
         ~(/\ ty[e.def.name].kind = e.kind
           /\ Definition(ty[e.def.name]) = Definition(e))
  PROVE  Conflicting
<1> DEFINE name == e.def.name
           t == ty[name]
           f == files[e.set][e.path]
           g == files[t.set][t.path]
<1>1. GoodEntry(files, t) /\ t.def.name = name
  BY DEF GoodTypes
<1>2. /\ f \in FilesOf(fdSet) /\ IsFile(f) /\ NothingTwice(f)
      /\ e.def \in Definitions(f) /\ (e.kind = "message" <=> "fields" \in DOMAIN e.def)
      /\ Definition(e) = DefinitionIn(f, name)
  BY FileOfEntry
<1> HIDE DEF t
<1>3. /\ g \in FilesOf(fdSet) \cup EarlierFiles
      /\ t.def \in Definitions(g) /\ (t.kind = "message" <=> "fields" \in DOMAIN t.def)
      /\ Definition(t) = DefinitionIn(g, name)
  BY <1>1, FileOfEntry
<1>4. e.kind \in {"message", "enum"} /\ t.kind \in {"message", "enum"}
  BY <1>1 DEF GoodEntry
<1> HIDE DEF f, g
<1>5. Definition(t) # Definition(e)
  <2> SUFFICES ASSUME Definition(t) = Definition(e) PROVE FALSE
    OBVIOUS
  <2>1. t.kind # e.kind
    BY DEF t
  <2>2. t.def \in DefinitionIn(g, name)
    BY <1>1, <1>3 DEF DefinitionIn
  <2>3. t.def \in Definitions(f)
    BY <1>2, <1>3, <2>2 DEF DefinitionIn
  <2>4. t.def = e.def
    BY <1>1, <1>2, <2>3, OnceSame
  <2> QED
    BY <1>2, <1>3, <1>4, <2>1, <2>4
<1>6. name \in DeclaredNames(f) \cap DeclaredNames(g)
  BY <1>1, <1>2, <1>3 DEF DeclaredNames
<1>7. Conflict(f, g)
  BY <1>2, <1>3, <1>5, <1>6 DEF Conflict
<1> QED
  BY <1>2, <1>3, <1>7 DEF Conflicting

Settles(ty, e) ==
  /\ e.def.name \in DOMAIN ty /\ ty[e.def.name].kind = e.kind
  /\ Definition(ty[e.def.name]) = Definition(e)

RegisterStep(c, local, e) == Register(local, e)
RegisterGood(c, i, local) ==
  /\ DOMAIN local = {"types", "ok"} /\ local.ok \in BOOLEAN
  /\ GoodTypes(files, local.types)
  /\ \A name \in DOMAIN c.types : name \in DOMAIN local.types /\ local.types[name] = c.types[name]
  /\ local.ok => \A j \in 1 .. i : Settles(local.types, c.all[j])
  /\ ~local.ok => Conflicting
TypeList == INSTANCE Induction WITH Step <- RegisterStep, Good <- RegisterGood

LEMMA EntryRegistered ==
  ASSUME CurrentRegistry, NEW c, NEW i \in Nat, i # 0, NEW local, RegisterGood(c, i - 1, local),
         GoodEntry(files, c.all[i]), c.all[i].set = Len(files)
  PROVE  RegisterGood(c, i, Register(local, c.all[i]))
<1> DEFINE e    == c.all[i]
           name == e.def.name
           ty   == local.types
           new  == Register(local, e)
<1>1. /\ DOMAIN local = {"types", "ok"} /\ local.ok \in BOOLEAN /\ GoodTypes(files, ty)
      /\ \A n \in DOMAIN c.types : n \in DOMAIN ty /\ ty[n] = c.types[n]
      /\ local.ok => \A j \in 1 .. i - 1 : Settles(ty, c.all[j])
      /\ ~local.ok => Conflicting
  BY DEF RegisterGood
<1>2. \A j \in 1 .. i : j = i \/ j \in 1 .. i - 1
  OBVIOUS
<1>3. GoodEntry(files, e) /\ e.set = Len(files)
  OBVIOUS
<1> HIDE DEF e
<1>4. CASE ~local.ok
  <2>1. new = local
    BY <1>4, Zenon DEF Register
  <2> QED
    BY <1>1, <1>4, <2>1 DEF RegisterGood, e
<1>5. CASE local.ok /\ name \in DOMAIN ty /\ Settles(ty, e)
  <2>1. new = local
    BY <1>5, Zenon DEF Register, Settles
  <2>2. \A j \in 1 .. i : Settles(ty, c.all[j])
    BY <1>1, <1>2, <1>5 DEF e
  <2> QED
    BY <1>1, <1>5, <2>1, <2>2 DEF RegisterGood, e
<1>6. CASE local.ok /\ name \in DOMAIN ty /\ ~Settles(ty, e)
  <2>1. new = [local EXCEPT !.ok = FALSE]
    BY <1>6, Zenon DEF Register, Settles
  <2>2. DOMAIN new = {"types", "ok"} /\ new.ok = FALSE /\ new.types = ty
    BY <1>1, <2>1
  <2>3. Conflicting
    BY <1>1, <1>3, <1>6, ConflictFound DEF Settles
  <2> QED
    BY <1>1, <2>2, <2>3 DEF RegisterGood, e
<1>7. CASE local.ok /\ name \notin DOMAIN ty
  <2> DEFINE t == With(ty, name, e)
  <2>1. new = [local EXCEPT !.types = t]
    BY <1>7, Zenon DEF Register
  <2>2. DOMAIN new = {"types", "ok"} /\ new.ok = local.ok /\ new.types = t
    BY <1>1, <2>1
  <2>3. /\ DOMAIN t = DOMAIN ty \cup {name} /\ t[name] = e
        /\ \A n \in DOMAIN ty : t[n] = ty[n]
    BY <1>7 DEF With, Merge
  <2> HIDE DEF t, new
  <2>4. GoodTypes(files, t)
    <3>1. ASSUME NEW n \in DOMAIN t PROVE GoodEntry(files, t[n]) /\ t[n].def.name = n
      <4>1. CASE n = name
        BY <1>3, <2>3, <4>1
      <4>2. CASE n # name
        BY <1>1, <2>3, <4>2 DEF GoodTypes
      <4> QED
        BY <4>1, <4>2
    <3> QED
      BY <3>1 DEF GoodTypes
  <2>5. \A n \in DOMAIN c.types : n \in DOMAIN t /\ t[n] = c.types[n]
    BY <1>1, <2>3
  <2>6. ASSUME NEW j \in 1 .. i PROVE Settles(t, c.all[j])
    <3>1. CASE j = i
      BY <2>3, <3>1 DEF Settles, e
    <3>2. CASE j \in 1 .. i - 1
      <4>1. Settles(ty, c.all[j])
        BY <1>1, <1>7, <3>2
      <4> QED
        BY <2>3, <4>1 DEF Settles
    <3> QED
      BY <1>2, <3>1, <3>2
  <2>7. RegisterGood(c, i, new)
    BY <1>7, <2>2, <2>4, <2>5, <2>6 DEF RegisterGood
  <2> QED
    BY <2>7 DEF new, e
<1> QED
  BY <1>1, <1>4, <1>5, <1>6, <1>7

LEMMA EntriesRegistered ==
  ASSUME CurrentRegistry, NEW c, c.types = types, IsSequence(c.all),
         \A e \in Range(c.all) : GoodEntry(files, e) /\ e.set = Len(files),
         NEW base, base = [types |-> types, ok |-> TRUE]
  PROVE  RegisterGood(c, Len(c.all), FoldLeft(Register, base, c.all))
<1> DEFINE n == Len(c.all)
           s == c.all
<1>1. n \in Nat /\ DOMAIN s = 1 .. n
  BY SeqFacts
<1>2. RegisterGood(c, 0, base)
  <2>1. DOMAIN base = {"types", "ok"} /\ base.ok = TRUE /\ base.types = types
    OBVIOUS
  <2>2. GoodTypes(files, types)
    BY DEF CurrentRegistry, Registry
  <2>3. \A j \in 1 .. 0 : FALSE
    OBVIOUS
  <2> QED
    BY <2>1, <2>2, <2>3 DEF RegisterGood
<1>3. ASSUME NEW i \in 1 .. n, NEW x, RegisterGood(c, i - 1, x)
      PROVE  RegisterGood(c, i, RegisterStep(c, x, s[i]))
  <2>1. s[i] \in Range(s) /\ i \in Nat /\ i # 0
    BY <1>1, RangeMember
  <2>2. GoodEntry(files, s[i]) /\ s[i].set = Len(files)
    BY <2>1
  <2> QED
    BY <1>3, <2>1, <2>2, EntryRegistered DEF RegisterStep
<1>4. FoldLeft(Register, base, s) = TypeList!FoldOf(c, base, s)
  BY Zenon DEF TypeList!FoldOf, RegisterStep, FoldLeft, MapThenFoldSet, Max,
               TypeList!MapThenFoldSet, TypeList!Largest
<1> HIDE DEF n, s
<1>i. TypeList!Inductive
  BY NaturalInduction, Zenon DEF TypeList!Inductive
<1>5. RegisterGood(c, n, TypeList!FoldOf(c, base, s))
  BY <1>i, <1>1, <1>2, <1>3, TypeList!FoldGood
<1> QED
  BY <1>4, <1>5 DEF n, s

(* The types of the last set, when all of its files are collected. *)
LEMMA TypesSettled ==
  ASSUME CurrentRegistry, NEW ty, NEW all, IsSequence(all),
         \A e \in Range(collected.messages) \cup Range(collected.enums) : e \in Range(all),
         \A j \in 1 .. Len(all) : Settles(ty, all[j]), GoodTypes(files, ty)
  PROVE  Settled(files, ty, Len(files))
<1> DEFINE k == Len(files)
<1>1. GoodEntries(files, "message", collected.messages) /\ GoodEntries(files, "enum", collected.enums)
  BY DEF CurrentRegistry, Registry
<1>2. Len(all) \in Nat /\ DOMAIN all = 1 .. Len(all)
  BY SeqFacts
<1>3. ASSUME NEW p \in DOMAIN files[k], NEW kind \in {"message", "enum"},
             NEW d \in DefsOf(files[k][p], kind)
      PROVE  Registered(files, ty, files[k][p], kind, d.name)
  <2>1. PICK e \in Range(all) : e.def = d /\ e.path = p /\ GoodEntry(files, e) /\ e.kind = kind /\ e.set = k
    <3>1. CASE kind = "message"
      <4>1. PICK e \in Range(collected.messages) : e.def = d /\ e.path = p
        BY <1>1, <1>3, <3>1 DEF GoodEntries
      <4> QED
        BY <1>1, <3>1, <4>1 DEF GoodEntries
    <3>2. CASE kind = "enum"
      <4>1. PICK e \in Range(collected.enums) : e.def = d /\ e.path = p
        BY <1>1, <1>3, <3>2 DEF GoodEntries
      <4> QED
        BY <1>1, <3>2, <4>1 DEF GoodEntries
    <3> QED
      BY <3>1, <3>2
  <2>2. PICK j \in 1 .. Len(all) : e = all[j]
    BY <1>2, <2>1, RangeAt
  <2>3. Settles(ty, e)
    BY <2>2
  <2>4. Definition(e) = DefinitionIn(files[k][p], d.name)
    BY <2>1, FileOfEntry
  <2>5. d.name \in DOMAIN ty /\ ty[d.name].kind = kind /\ ty[d.name].def.name = d.name
    BY <2>1, <2>3 DEF Settles, GoodTypes
  <2>6. Definition(ty[d.name]) = DefinitionIn(files[ty[d.name].set][ty[d.name].path], d.name)
    BY <2>5 DEF Definition, DefinitionIn
  <2> QED
    BY <2>1, <2>3, <2>4, <2>5, <2>6 DEF Settles, Registered
<1> QED
  BY <1>3 DEF Settled

(* More types. *)
LEMMA SettledMore ==
  ASSUME NEW ty, NEW more, \A name \in DOMAIN ty : name \in DOMAIN more /\ more[name] = ty[name],
         NEW k, Settled(files, ty, k)
  PROVE  Settled(files, more, k)
<1>1. ASSUME NEW f, NEW kind, NEW name, Registered(files, ty, f, kind, name)
      PROVE  Registered(files, more, f, kind, name)
  BY <1>1 DEF Registered
<1> QED
  BY <1>1 DEF Settled

LEMMA TypesExtended ==
  ASSUME CurrentRegistry, ExtendLocalTypes
  PROVE  CurrentRegistry'
<1> DEFINE all  == collected.messages \o collected.enums
           base == [types |-> types, ok |-> TRUE]
           c    == [types |-> types, all |-> all]
           new  == FoldLeft(Register, base, all)
<1>1. /\ result = "collecting" /\ pending = {}
      /\ types' = new.types /\ result' = (IF new.ok THEN "ok" ELSE "error")
      /\ UNCHANGED <<fdSet, pending, files, localFiles, collected>>
  BY Zenon DEF ExtendLocalTypes
<1>2. GoodEntries(files, "message", collected.messages) /\ GoodEntries(files, "enum", collected.enums)
  BY DEF CurrentRegistry, Registry
<1>3. IsSequence(all) /\ Range(all) = Range(collected.messages) \cup Range(collected.enums)
  BY <1>2, ConcatRange DEF GoodEntries
<1>4. \A e \in Range(all) : GoodEntry(files, e) /\ e.set = Len(files)
  <2> HIDE DEF all
  <2> QED
    BY <1>2, <1>3 DEF GoodEntries
<1>5. c.types = types /\ c.all = all
  OBVIOUS
<1> HIDE DEF all, c
<1>6. RegisterGood(c, Len(all), new)
  <2> HIDE DEF base
  <2>1. RegisterGood(c, Len(c.all), FoldLeft(Register, base, c.all))
    BY <1>3, <1>4, <1>5, EntriesRegistered DEF base
  <2> QED
    BY <1>5, <2>1
<1> HIDE DEF new
<1>7. /\ new.ok \in BOOLEAN /\ GoodTypes(files, new.types)
      /\ \A name \in DOMAIN types : name \in DOMAIN new.types /\ new.types[name] = types[name]
      /\ new.ok => \A j \in 1 .. Len(all) : Settles(new.types, all[j])
      /\ ~new.ok => Conflicting
  BY <1>5, <1>6 DEF RegisterGood
<1>8. ~Circular(fdSet) /\ \A k \in 1 .. Len(files) - 1 : Settled(files, types, k)
  BY <1>1 DEF CurrentRegistry, Registry, Answers
<1>9. \A k \in 1 .. Len(files) - 1 : Settled(files, new.types, k)
  BY <1>7, <1>8, SettledMore
<1> DEFINE res == IF new.ok THEN "ok" ELSE "error"
<1>10. Answers(fdSet, pending, files, new.types, res)
  <2>1. CASE new.ok
    <3>1. Settled(files, new.types, Len(files))
      BY <1>3, <1>7, <2>1, TypesSettled
    <3> QED
      BY <1>1, <1>8, <2>1, <3>1 DEF Answers
  <2>2. CASE ~new.ok
    <3>1. Conflicting
      BY <1>7, <2>2
    <3>2. Faulty(fdSet, EarlierIn(files))
      <4>1. EarlierIn(files) = EarlierFiles
        BY Zenon DEF EarlierIn, EarlierFiles
      <4>2. PICK f \in FilesOf(fdSet) : \E g \in FilesOf(fdSet) \cup EarlierFiles : Conflict(f, g)
        BY <3>1 DEF Conflicting
      <4> QED
        BY <4>1, <4>2, Zenon DEF Faulty
    <3> QED
      BY <2>2, <3>2 DEF Answers
  <2> QED
    BY <2>1, <2>2
<1> HIDE DEF res
<1>11. Registry(fdSet, pending, files, localFiles, collected, new.types, res)
  BY <1>7, <1>9, <1>10 DEF CurrentRegistry, Registry
<1> QED
  BY <1>1, <1>11 DEF CurrentRegistry, res

-----------------------------------------------------------------------------
(* A set that is accepted. *)

LEMMA AcceptedSet ==
  ASSUME CurrentRegistry, result = "ok", NEW f \in FilesOf(fdSet)
  PROVE  /\ IsFile(f) /\ AcceptedFile(fdSet, localFiles, f)
         /\ \E p \in DOMAIN files[Len(files)] : f = files[Len(files)][p]
<1>1. pending = {} /\ IsFileSet(fdSet)
  BY DEF CurrentRegistry, Registry, Answers
<1>2. MadeOf(fdSet, pending, files[Len(files)]) /\ AcceptedFiles(fdSet, pending, localFiles)
  BY DEF CurrentRegistry, Registry
<1>3. PICK q \in PathsOf(fdSet) : f = FileOf(fdSet, q)
  BY DEF FilesOf
<1>4. q \in Gathered(fdSet, pending)
  BY <1>1 DEF Gathered, GraphNodes
<1>5. KeyOf(q) \in DOMAIN files[Len(files)] /\ files[Len(files)][KeyOf(q)] = f
  BY <1>2, <1>3, <1>4 DEF MadeOf
<1>6. IsFile(f)
  BY <1>1, <1>3, FileAtPath
<1> QED
  BY <1>2, <1>3, <1>4, <1>5, <1>6 DEF AcceptedFiles

LEMMA DefinitionsOfFile ==
  ASSUME NEW f, NEW d \in Definitions(f)
  PROVE  \E kind \in {"message", "enum"} : d \in DefsOf(f, kind)
<1>1. CASE d \in Range(f.messages)
  <2>1. d \in DefsOf(f, "message")
    BY <1>1, Zenon DEF DefsOf
  <2> QED
    BY <2>1
<1>2. CASE d \in Range(f.enums)
  <2>1. d \in DefsOf(f, "enum")
    BY <1>2 DEF DefsOf
  <2> QED
    BY <2>1
<1> QED
  BY <1>1, <1>2 DEF Definitions

LEMMA FileSettled ==
  ASSUME CurrentRegistry, result = "ok", NEW f \in FilesOf(fdSet) \cup EarlierFiles,
         NEW kind \in {"message", "enum"}, NEW d \in DefsOf(f, kind)
  PROVE  Registered(files, types, f, kind, d.name)
<1> DEFINE n == Len(files)
<1>1. SoundSets(files) /\ \A k \in 1 .. n - 1 : Settled(files, types, k)
  BY DEF CurrentRegistry, Registry
<1>2. n \in Nat /\ n >= 1 /\ Settled(files, types, n)
  BY SeqFacts DEF CurrentRegistry, Registry, Answers, SoundSets
<1>3. PICK k : Settled(files, types, k) /\ \E p \in DOMAIN files[k] : f = files[k][p]
  <2>1. CASE f \in FilesOf(fdSet)
    BY <1>2, <2>1, AcceptedSet
  <2>2. CASE f \in EarlierFiles
    <3>1. PICK k \in 1 .. n - 1 : f \in Range(files[k])
      BY <2>2 DEF EarlierFiles
    <3>2. \E p \in DOMAIN files[k] : f = files[k][p]
      BY <3>1 DEF Range
    <3> QED
      BY <1>1, <3>1, <3>2
  <2> QED
    BY <2>1, <2>2
<1> QED
  BY <1>3 DEF Settled

LEMMA NameSettled ==
  ASSUME CurrentRegistry, result = "ok", NEW f \in FilesOf(fdSet) \cup EarlierFiles,
         NEW d \in Definitions(f)
  PROVE  /\ d.name \in DOMAIN types
         /\ Definition(types[d.name]) = DefinitionIn(f, d.name)
<1>1. PICK kind \in {"message", "enum"} : d \in DefsOf(f, kind)
  BY DefinitionsOfFile
<1>2. Registered(files, types, f, kind, d.name)
  BY <1>1, FileSettled
<1>3. types[d.name].def.name = d.name
  BY <1>2 DEF CurrentRegistry, Registry, GoodTypes, Registered
<1> QED
  BY <1>2, <1>3 DEF Registered, Definition, DefinitionIn

LEMMA CauseOfRefusal == ASSUME CurrentRegistry PROVE RefusedForCause
<1>1. EarlierIn(files) = EarlierFiles
  BY Zenon DEF EarlierIn, EarlierFiles
<1>2. result = "error" => Faulty(fdSet, EarlierFiles) \/ Clash(fdSet)
  BY <1>1 DEF CurrentRegistry, Registry, Answers
<1>3. result = "panic" => MissingImports(fdSet) # {}
  BY DEF CurrentRegistry, Registry, Answers
<1>4. ASSUME result = "ok" PROVE ~Faulty(fdSet, EarlierFiles)
  <2>1. pending = {} /\ ~Circular(fdSet)
    BY <1>4 DEF CurrentRegistry, Registry, Answers
  <2>2. Gathered(fdSet, pending) \subseteq PathsOf(fdSet) /\ Resolvable(fdSet, pending, localFiles)
    BY DEF CurrentRegistry, Registry, MadeOf
  <2>3. MissingImports(fdSet) = {}
    BY <2>1, <2>2 DEF MissingImports, Gathered
  <2>4. localFiles \subseteq DOMAIN GlobalFiles \cup (PathsOf(fdSet) \ {NoPath})
    BY <2>2 DEF Resolvable
  <2>5. ASSUME NEW f \in FilesOf(fdSet)
        PROVE  /\ Range(f.deps) \subseteq DOMAIN GlobalFiles \cup (PathsOf(fdSet) \ {NoPath})
               /\ NothingTwice(f)
               /\ ~DanglingReference(Merge(GlobalFiles, ByPath(fdSet)), f)
    BY <1>4, <2>4, AcceptedSet DEF AcceptedFile
  <2>6. ASSUME NEW f \in FilesOf(fdSet), NEW g \in FilesOf(fdSet) \cup EarlierFiles
        PROVE  ~Conflict(f, g)
    <3>1. ASSUME NEW name \in DeclaredNames(f) \cap DeclaredNames(g)
          PROVE  DefinitionIn(f, name) = DefinitionIn(g, name)
      <4>1. PICK a \in Definitions(f) : a.name = name
        BY <3>1 DEF DeclaredNames
      <4>2. PICK b \in Definitions(g) : b.name = name
        BY <3>1 DEF DeclaredNames
      <4> QED
        BY <1>4, <4>1, <4>2, NameSettled
    <3> QED
      BY <3>1 DEF Conflict
  <2> QED
    BY <2>1, <2>3, <2>5, <2>6, Zenon DEF Faulty
<1> QED
  BY <1>2, <1>3, <1>4 DEF RefusedForCause

(* What a message of an accepted set refers to is found. *)
LEMMA ReferenceFound ==
  ASSUME CurrentRegistry, result = "ok", NEW f \in FilesOf(fdSet), NEW d \in Range(f.messages),
         NEW r \in References(d)
  PROVE  Finds(r.type, r.typeName)
<1> DEFINE n == Len(files)
           at == files[n]
           m == Merge(GlobalFiles, at)
<1>1. PICK p \in DOMAIN at : f = at[p]
  BY AcceptedSet
<1>2. SoundFiles(at)
  <2>1. n \in Nat /\ n >= 1 /\ SoundSets(files)
    BY SeqFacts DEF CurrentRegistry, Registry, SoundSets
  <2> QED
    BY <2>1 DEF SoundSets
<1>3. Range(f.deps) \subseteq DOMAIN m /\ ~DanglingReference(m, f)
  BY <1>1, <1>2 DEF SoundFiles
<1>4. /\ DOMAIN m = DOMAIN GlobalFiles \cup DOMAIN at
      /\ \A x \in DOMAIN GlobalFiles : m[x] = GlobalFiles[x]
      /\ \A x \in DOMAIN at \ DOMAIN GlobalFiles : m[x] = at[x]
  BY DEF Merge
<1> HIDE DEF m
<1>5. PICK g \in Visible(m, f) : Declares(g, r.type, r.typeName)
  BY <1>3 DEF DanglingReference
<1>6. g = f \/ \E q \in DOMAIN m : g = m[q]
  BY <1>5 DEF Visible
<1>7. \/ \E q \in DOMAIN GlobalFiles : g = GlobalFiles[q]
      \/ g \in FilesOf(fdSet)
  <2>1. \A q \in DOMAIN at : at[q] \in FilesOf(fdSet)
    BY CurrentFile
  <2> QED
    BY <1>4, <1>6, <2>1
<1>8. r.type \in {"message", "enum"}
  BY DEF References
<1>9. CASE g \in FilesOf(fdSet)
  <2>1. PICK e \in DefsOf(g, r.type) : e.name = r.typeName
    BY <1>5, Zenon DEF Declares, DefsOf
  <2>2. Registered(files, types, g, r.type, e.name)
    BY <1>8, <1>9, <2>1, FileSettled
  <2> QED
    BY <2>1, <2>2 DEF Registered, Finds, IsLocal
<1>10. CASE \E q \in DOMAIN GlobalFiles : g = GlobalFiles[q]
  BY <1>5, <1>10 DEF Finds, GlobalType
<1> QED
  BY <1>7, <1>9, <1>10

LEMMA CompleteOnceAccepted == ASSUME CurrentRegistry PROVE RegistryComplete
<1>1. ASSUME result = "ok", NEW f \in FilesOf(fdSet), NEW d \in Definitions(f)
      PROVE  /\ d.name \in DOMAIN types
             /\ Definition(types[d.name]) = DefinitionIn(f, d.name)
             /\ d \in Range(f.messages) => \A r \in References(d) : Finds(r.type, r.typeName)
  BY <1>1, NameSettled, ReferenceFound
<1> QED
  BY <1>1 DEF RegistryComplete

-----------------------------------------------------------------------------
(* What the tree shaker keeps. *)

LEMMA SetAsSeq ==
  ASSUME NEW S, IsFiniteSet(S)
  PROVE  IsSequence(SetToSeq(S)) /\ Range(SetToSeq(S)) \subseteq S
<1> DEFINE n == Cardinality(S)
           s == SetToSeq(S)
<1>1. n \in Nat /\ ExistsBijection(1 .. n, S)
  BY FS_CardinalityType
<1>2. \E f \in [1 .. n -> S] : IsInjective(f)
  BY <1>1 DEF ExistsBijection, Bijection, Injection
<1>3. s \in [1 .. n -> S]
  BY <1>2 DEF SetToSeq
<1> HIDE DEF n, s
<1>4. s = [i \in 1 .. n |-> s[i]] /\ DOMAIN s = 1 .. n
  BY <1>3
<1>5. IsSequence(s)
  BY <1>1, <1>4, FunctionIsSeq
<1>6. Range(s) \subseteq S
  BY <1>3 DEF Range
<1> QED
  BY <1>5, <1>6 DEF s

ShakenFields == {"deps", "public", "messages", "enums", "proto", "packages"}

\* A kept file imports by a list, and what it declares is of sets that have its path.
SoundShaken(path, f) ==
  /\ DOMAIN f = ShakenFields
  /\ IsSequence(f.deps) /\ f.public \subseteq DOMAIN f.deps
  /\ \A e \in f.proto : e.set \in DOMAIN files /\ path \in DOMAIN FilesIn(e.set)

ShakenSound ==
  /\ IsFiniteSet(DOMAIN shaken) /\ NoPath \notin DOMAIN shaken
  /\ \A path \in DOMAIN shaken : SoundShaken(path, shaken[path])

LEMMA FilesInSet ==
  ASSUME CurrentRegistry, NEW k \in DOMAIN files
  PROVE  /\ SoundFiles(files[k]) /\ IsFiniteSet(DOMAIN FilesIn(k)) /\ NoPath \notin DOMAIN FilesIn(k)
         /\ DOMAIN files[k] \subseteq DOMAIN FilesIn(k) /\ DOMAIN GlobalFiles \subseteq DOMAIN FilesIn(k)
         /\ \A p \in DOMAIN FilesIn(k) :
              /\ IsFile(FilesIn(k)[p]) /\ Path(FilesIn(k)[p]) = p
              /\ Range(FilesIn(k)[p].deps) \subseteq DOMAIN FilesIn(k)
              /\ ~DanglingReference(FilesIn(k), FilesIn(k)[p])
<1> DEFINE at == files[k]
           m == Merge(GlobalFiles, at)
<1>1. SoundFiles(at)
  BY SeqFacts DEF CurrentRegistry, Registry, SoundSets
<1>2. FilesIn(k) = m
  BY Zenon DEF FilesIn
<1>3. /\ DOMAIN m = DOMAIN GlobalFiles \cup DOMAIN at
      /\ \A x \in DOMAIN GlobalFiles : m[x] = GlobalFiles[x]
      /\ \A x \in DOMAIN at \ DOMAIN GlobalFiles : m[x] = at[x]
  BY DEF Merge
<1>4. IsFiniteSet(DOMAIN m)
  BY <1>1, MergedFinite DEF SoundFiles
<1>5. ASSUME NEW p \in DOMAIN m
      PROVE  IsFile(m[p]) /\ Path(m[p]) = p /\ Range(m[p].deps) \subseteq DOMAIN m /\ p # NoPath
  BY <1>1, SoundImports
<1>6. \A p \in DOMAIN at : ~DanglingReference(m, at[p])
  BY <1>1 DEF SoundFiles
<1> HIDE DEF m, at
<1>7. ASSUME NEW p \in DOMAIN m PROVE ~DanglingReference(m, m[p])
  <2>1. CASE p \in DOMAIN GlobalFiles
    <3> DEFINE L == DOMAIN GlobalFiles
    <3>1. /\ Range(GlobalFiles[p].deps) \subseteq L
          /\ ~DanglingReference(GlobalFiles, GlobalFiles[p])
      BY <2>1, GlobalFilesAssumption
    <3>2. \A q \in DOMAIN GlobalFiles : PublicImports(GlobalFiles[q]) \subseteq DOMAIN GlobalFiles
      BY GlobalFacts, PublicAreImports
    <3>3. Shared(GlobalFiles, m, L)
      BY <1>3, <1>4, <3>2, GlobalFilesAssumption DEF Shared
    <3> QED
      BY <1>3, <2>1, <3>1, <3>3, SameDangling
  <2>2. CASE p \notin DOMAIN GlobalFiles
    BY <1>3, <1>6, <1>7, <2>2
  <2> QED
    BY <2>1, <2>2
<1> QED
  BY <1>1, <1>2, <1>3, <1>4, <1>5, <1>7 DEF at

(* The file that a reference of a file refers to is one of the set. *)
LEMMA TargetThere ==
  ASSUME CurrentRegistry, NEW k \in DOMAIN files, NEW p \in DOMAIN FilesIn(k), NEW root,
         NEW f \in ReferencesIn(FilesIn(k)[p], root)
  PROVE  Path(Target(k, FilesIn(k)[p], f)) \in DOMAIN FilesIn(k)
<1> DEFINE at == FilesIn(k)
           file == at[p]
           g == Target(k, file, f)
<1>1. \E m \in Range(file.messages) : f \in References(m)
  BY DEF ReferencesIn
<1>2. ~DanglingReference(at, file)
  BY FilesInSet
<1>3. \E x \in Visible(at, file) : Declares(x, f.type, f.typeName)
  BY <1>1, <1>2, Zenon DEF DanglingReference
<1>4. g \in Visible(at, file)
  BY <1>3, Zenon DEF Target
<1> HIDE DEF g
<1>5. g = file \/ \E q \in DOMAIN at : g = at[q]
  BY <1>4 DEF Visible
<1>6. \E q \in DOMAIN at : g = at[q]
  BY <1>5
<1> QED
  BY <1>6, FilesInSet DEF g

\* A place in the files of set k.
PlaceIn(k, place) == place.path \in DOMAIN FilesIn(k)

LEMMA NeededThere ==
  ASSUME CurrentRegistry, NEW k \in DOMAIN files, NEW place, PlaceIn(k, place)
  PROVE  /\ \A q \in NeededMessages(k, place) : PlaceIn(k, q)
         /\ \A q \in NeededEnums(k, place) : PlaceIn(k, q)
<1> DEFINE file == FilesIn(k)[place.path]
<1>1. \A f \in ReferencesIn(file, place.name) : Path(Target(k, file, f)) \in DOMAIN FilesIn(k)
  BY TargetThere DEF PlaceIn
<1>2. \A path, name : Place(path, name).path = path
  BY DEF Place
<1>3. ASSUME NEW q \in NeededMessages(k, place) PROVE PlaceIn(k, q)
  <2>1. PICK f \in ReferencesIn(file, place.name) :
          q = Place(Path(Target(k, file, f)), Referred(k, file, f).root)
    BY <1>3, Zenon DEF NeededMessages
  <2> QED
    BY <1>1, <1>2, <2>1 DEF PlaceIn
<1>4. ASSUME NEW q \in NeededEnums(k, place) PROVE PlaceIn(k, q)
  <2>1. PICK f \in ReferencesIn(file, place.name) :
          q = Place(Path(Target(k, file, f)), f.typeName)
    BY <1>4, Zenon DEF NeededEnums
  <2> QED
    BY <1>1, <1>2, <2>1 DEF PlaceIn
<1> QED
  BY <1>3, <1>4

LEMMA HarvestedThere ==
  ASSUME CurrentRegistry, NEW k \in DOMAIN files, NEW place, PlaceIn(k, place)
  PROVE  \A q \in HarvestedMessages(k, place) : PlaceIn(k, q)
<1> DEFINE at == FilesIn(k)
           in(p) == {Place(p, m.name) : m \in Range(at[p].messages)}
           F == {in(p) : p \in DOMAIN at}
           places == UNION F
           needed == [p \in places |->
                        IF InProto(p.path, "message", p.name) THEN {} ELSE NeededMessages(k, p)]
           T == {place} \cup (UNION {needed[p] : p \in places})
<1>1. HarvestedMessages(k, place) = Reach({place}, needed)
  BY Zenon DEF HarvestedMessages
<1>2. IsFiniteSet(DOMAIN at) /\ \A p \in DOMAIN at : IsFile(at[p])
  BY FilesInSet
<1>3. \A path, name : Place(path, name).path = path
  BY DEF Place
<1>4. \A p \in places : PlaceIn(k, p)
  BY <1>3 DEF PlaceIn
<1>5. IsFiniteSet(places)
  <2>1. ASSUME NEW p \in DOMAIN at PROVE IsFiniteSet(in(p))
    <3> DEFINE R == Range(at[p].messages)
               g == [m \in R |-> Place(p, m.name)]
    <3>1. IsFiniteSet(R)
      BY <1>2, RangeFinite DEF IsFile
    <3> DEFINE image == {g[m] : m \in R}
    <3>2. in(p) = image
      OBVIOUS
    <3> HIDE DEF g, R
    <3>3. IsFiniteSet(image)
      BY <3>1, ImageFinite
    <3> HIDE DEF image, in
    <3> QED
      BY <3>2, <3>3
  <2> DEFINE h == [p \in DOMAIN at |-> in(p)]
  <2>2. F = {h[p] : p \in DOMAIN at} /\ \A X \in F : IsFiniteSet(X)
    BY <2>1
  <2> HIDE DEF h, F
  <2>3. IsFiniteSet(F)
    BY <1>2, <2>2, ImageFinite
  <2> QED
    BY <2>2, <2>3, FS_UNION
<1>6. DOMAIN needed = places
  OBVIOUS
<1>7. \A p \in places : \A q \in needed[p] : PlaceIn(k, q)
  BY <1>4, NeededThere
<1> HIDE DEF needed, places
<1>8. Closed(T, needed) /\ {place} \subseteq T
  BY <1>6 DEF Closed
<1>9. \A q \in T : PlaceIn(k, q)
  BY <1>7
<1> HIDE DEF T
<1>10. Reach({place}, needed) \subseteq T
  BY <1>5, <1>6, <1>8, ReachStays
<1> QED
  BY <1>1, <1>9, <1>10

LEMMA TouchedSound ==
  ASSUME CurrentRegistry, ShakenSound, NEW k \in DOMAIN files, NEW paths,
         paths \subseteq DOMAIN FilesIn(k)
  PROVE  /\ IsFiniteSet(DOMAIN getOrInit(k, paths)) /\ NoPath \notin DOMAIN getOrInit(k, paths)
         /\ \A p \in DOMAIN getOrInit(k, paths) : SoundShaken(p, getOrInit(k, paths)[p])
<1> DEFINE at == FilesIn(k)
           imports == [p \in DOMAIN at \ DOMAIN shaken |-> Range(at[p].deps)]
           all == Reach(paths, imports)
           new == [p \in all |-> [deps |-> at[p].deps, public |-> at[p].public,
                                  packages |-> at[p].packages,
                                  messages |-> <<>>, enums |-> {}, proto |-> {}]]
           touched == Merge(shaken, new)
<1>1. getOrInit(k, paths) = touched
  BY Zenon DEF getOrInit
<1>2. /\ IsFiniteSet(DOMAIN at) /\ NoPath \notin DOMAIN at
      /\ \A p \in DOMAIN at : IsFile(at[p]) /\ Range(at[p].deps) \subseteq DOMAIN at
  BY FilesInSet
<1>3. all \subseteq DOMAIN at
  <2>1. DOMAIN imports = DOMAIN at \ DOMAIN shaken /\ Closed(DOMAIN at, imports)
    BY <1>2 DEF Closed
  <2>2. IsFiniteSet(DOMAIN at \ DOMAIN shaken)
    BY <1>2, FS_Difference
  <2> HIDE DEF imports
  <2> QED
    BY <2>1, <2>2, ReachStays
<1> HIDE DEF all
<1>4. DOMAIN new = all
  OBVIOUS
<1>5. ASSUME NEW p \in all PROVE SoundShaken(p, new[p])
  <2>1. /\ new[p].deps = at[p].deps /\ new[p].public = at[p].public /\ new[p].proto = {}
        /\ DOMAIN new[p] = ShakenFields
    BY DEF ShakenFields
  <2> HIDE DEF new
  <2> QED
    BY <1>2, <1>3, <2>1 DEF SoundShaken, IsFile
<1> HIDE DEF new
<1>6. /\ DOMAIN touched = DOMAIN shaken \cup all
      /\ \A x \in DOMAIN shaken : touched[x] = shaken[x]
      /\ \A x \in all \ DOMAIN shaken : touched[x] = new[x]
  BY <1>4 DEF Merge
<1> HIDE DEF touched
<1>7. /\ IsFiniteSet(DOMAIN shaken) /\ NoPath \notin DOMAIN shaken
      /\ \A p \in DOMAIN shaken : SoundShaken(p, shaken[p])
  BY DEF ShakenSound
<1>8. \A p \in DOMAIN touched : SoundShaken(p, touched[p])
  BY <1>5, <1>6, <1>7
<1>9. IsFiniteSet(all)
  BY <1>2, <1>3, FS_Subset
<1>10. IsFiniteSet(DOMAIN shaken \cup all)
  BY <1>7, <1>9, FS_Union, Zenon
<1>11. IsFiniteSet(DOMAIN touched) /\ NoPath \notin DOMAIN touched
  BY <1>2, <1>3, <1>6, <1>7, <1>10
<1> QED
  BY <1>1, <1>8, <1>11

(* The types that are harvested are declared in sets that have their path. *)
LEMMA HarvestSound ==
  ASSUME CurrentRegistry, ShakenSound, files' = files, NEW k \in DOMAIN files,
         NEW messages, NEW enums, \A q \in messages \cup enums : PlaceIn(k, q),
         Harvest(k, messages, enums)
  PROVE  ShakenSound'
<1> DEFINE touched == getOrInit(k, {p.path : p \in messages \cup enums})
           at(S, p) == {e.name : e \in {e \in S : e.path = p}}
           new(S, p, kind) == {[kind |-> kind, set |-> k, name |-> n] :
                                 n \in {n \in at(S, p) : ~InProto(p, kind, n)}}
           more(p) == [touched[p] EXCEPT
                         !.messages = Merge([n \in at(messages, p) |-> k], @),
                         !.enums    = @ \cup at(enums, p),
                         !.proto    = @ \cup new(messages, p, "message") \cup new(enums, p, "enum")]
<1>1. shaken' = [p \in DOMAIN touched |-> more(p)]
  BY Zenon DEF Harvest
<1>2. {p.path : p \in messages \cup enums} \subseteq DOMAIN FilesIn(k)
  BY DEF PlaceIn
<1>3. /\ IsFiniteSet(DOMAIN touched) /\ NoPath \notin DOMAIN touched
      /\ \A p \in DOMAIN touched : SoundShaken(p, touched[p])
  BY <1>2, TouchedSound
<1>4. ASSUME NEW S, \A q \in S : PlaceIn(k, q), NEW p, NEW kind, NEW e \in new(S, p, kind)
      PROVE  e.set = k /\ p \in DOMAIN FilesIn(k)
  BY <1>4 DEF PlaceIn
<1> HIDE DEF touched
<1>5. \A j : FilesIn(j)' = FilesIn(j)
  BY DEF FilesIn
<1>6. ASSUME NEW p \in DOMAIN touched PROVE SoundShaken(p, more(p))
  <2>1. /\ DOMAIN touched[p] = ShakenFields
        /\ IsSequence(touched[p].deps) /\ touched[p].public \subseteq DOMAIN touched[p].deps
        /\ \A e \in touched[p].proto : e.set \in DOMAIN files /\ p \in DOMAIN FilesIn(e.set)
    BY <1>3 DEF SoundShaken
  <2>2. /\ DOMAIN more(p) = ShakenFields
        /\ more(p).deps = touched[p].deps /\ more(p).public = touched[p].public
        /\ more(p).proto = touched[p].proto \cup new(messages, p, "message") \cup new(enums, p, "enum")
    BY <2>1 DEF ShakenFields
  <2>3. \A e \in new(messages, p, "message") \cup new(enums, p, "enum") :
          e.set \in DOMAIN files /\ p \in DOMAIN FilesIn(e.set)
    BY <1>4
  <2> HIDE DEF more, new
  <2>4. \A e \in more(p).proto : e.set \in DOMAIN files /\ p \in DOMAIN FilesIn(e.set)
    BY <2>1, <2>2, <2>3
  <2> QED
    BY <2>1, <2>2, <2>4 DEF SoundShaken
<1> HIDE DEF more
<1>7. DOMAIN shaken' = DOMAIN touched /\ \A p \in DOMAIN touched : shaken'[p] = more(p)
  BY <1>1
<1>8. \A p \in DOMAIN shaken' : SoundShaken(p, shaken'[p])
  BY <1>6, <1>7
<1>9. \A p, f : SoundShaken(p, f)' <=> SoundShaken(p, f')
  BY <1>5 DEF SoundShaken
<1> QED
  BY <1>3, <1>7, <1>8, <1>9 DEF ShakenSound

(* The entry of a type is in a set, and of a file of it. *)
LEMMA EntryThere ==
  ASSUME CurrentRegistry, NEW kind \in {"message", "enum"}, NEW name, Finds(kind, name)
  PROVE  /\ EntryOf(kind, name).set \in DOMAIN files
         /\ EntryOf(kind, name).path \in DOMAIN FilesIn(EntryOf(kind, name).set)
<1>1. CASE IsLocal(kind, name)
  <2>1. GoodEntry(files, types[name])
    BY <1>1 DEF CurrentRegistry, Registry, GoodTypes, IsLocal
  <2>2. EntryOf(kind, name) = types[name]
    BY <1>1 DEF EntryOf
  <2> QED
    BY <2>1, <2>2, FilesInSet DEF GoodEntry
<1>2. CASE ~IsLocal(kind, name)
  <2> DEFINE path == CHOOSE p \in DOMAIN GlobalFiles : Declares(GlobalFiles[p], kind, name)
             def == CHOOSE d \in Definitions(GlobalFiles[path]) : d.name = name
  <2>1. \E p \in DOMAIN GlobalFiles : Declares(GlobalFiles[p], kind, name)
    BY <1>2, Zenon DEF Finds, GlobalType
  <2>2. path \in DOMAIN GlobalFiles
    BY <2>1, Zenon
  <2>3. EntryOf(kind, name) = [kind |-> kind, path |-> path, set |-> 1, def |-> def]
    BY <1>2, Zenon DEF EntryOf
  <2> HIDE DEF path, def
  <2>4. EntryOf(kind, name).set = 1 /\ EntryOf(kind, name).path = path
    BY <2>3
  <2>5. IsSequence(files) /\ Len(files) >= 1
    BY DEF CurrentRegistry, Registry, SoundSets
  <2>6. 1 \in DOMAIN files
    BY <2>5, SeqFacts
  <2> QED
    BY <2>2, <2>4, <2>6, FilesInSet
<1> QED
  BY <1>1, <1>2

(* The types of an entry and all they need are at places of its set. *)
LEMMA HarvestPlaced ==
  ASSUME CurrentRegistry,
         NEW kind \in {"message", "enum"}, NEW name, Finds(kind, name), HarvestType(kind, name)
  PROVE  /\ UNCHANGED unpruned
         /\ \E k \in DOMAIN files : \E messages, enums :
              /\ \A q \in messages \cup enums : PlaceIn(k, q)
              /\ Harvest(k, messages, enums)
<1> DEFINE entry == EntryOf(kind, name)
           k     == entry.set
           roots == IF entry.def.root = NoType THEN {}
                    ELSE HarvestedMessages(k, Place(entry.path, entry.def.root))
           new   == {p \in roots : ~InProto(p.path, "message", p.name)}
           enums == (UNION {NeededEnums(k, p) : p \in new})
                      \cup {p \in {Place(entry.path, name)} : entry.def.root = NoType}
<1>1. Harvest(k, roots, enums) /\ UNCHANGED unpruned
  BY Zenon DEF HarvestType
<1>2. k \in DOMAIN files /\ entry.path \in DOMAIN FilesIn(k)
  BY EntryThere
<1> HIDE DEF entry, k
<1>3. \A n : PlaceIn(k, Place(entry.path, n))
  BY <1>2 DEF PlaceIn, Place
<1>4. \A p \in roots : PlaceIn(k, p)
  BY <1>2, <1>3, HarvestedThere
<1>5. ASSUME NEW q \in enums PROVE PlaceIn(k, q)
  <2>1. CASE q \in UNION {NeededEnums(k, p) : p \in new}
    <3>1. PICK p \in new : q \in NeededEnums(k, p)
      BY <2>1
    <3>2. PlaceIn(k, p)
      BY <1>4, <3>1
    <3> QED
      BY <1>2, <3>1, <3>2, NeededThere
  <2>2. CASE q \in {p \in {Place(entry.path, name)} : entry.def.root = NoType}
    BY <1>3, <2>2
  <2> QED
    BY <1>5, <2>1, <2>2
<1> HIDE DEF roots, enums
<1> QED
  BY <1>1, <1>2, <1>4, <1>5

LEMMA HarvestKeeps ==
  ASSUME CurrentRegistry, ShakenSound, files' = files,
         NEW kind \in {"message", "enum"}, NEW name, Finds(kind, name), HarvestType(kind, name)
  PROVE  ShakenSound' /\ UNCHANGED unpruned
<1>1. PICK k \in DOMAIN files : \E messages, enums :
        /\ \A q \in messages \cup enums : PlaceIn(k, q)
        /\ Harvest(k, messages, enums)
  BY HarvestPlaced
<1>2. PICK messages, enums : /\ \A q \in messages \cup enums : PlaceIn(k, q)
                            /\ Harvest(k, messages, enums)
  BY <1>1
<1>3. ShakenSound'
  BY <1>2, HarvestSound
<1> QED
  BY <1>3, HarvestPlaced

(* The imports that stay, counted anew. *)
LEMMA Renumbered ==
  ASSUME NEW n \in Nat, NEW kept, kept \subseteq 1 .. n,
         NEW new, new = [i \in kept |-> Cardinality({j \in kept : j <= i})]
  PROVE  /\ Cardinality(kept) \in Nat
         /\ \A i \in kept : new[i] \in 1 .. Cardinality(kept)
<1>1. IsFiniteSet(1 .. n)
  BY FS_Interval
<1>2. IsFiniteSet(kept)
  BY <1>1, FS_Subset
<1>3. Cardinality(kept) \in Nat
  BY <1>2, FS_CardinalityType
<1>4. ASSUME NEW i \in kept PROVE new[i] \in 1 .. Cardinality(kept)
  <2> DEFINE below == {j \in kept : j <= i}
  <2>1. below \subseteq kept /\ i \in below
    BY <1>4
  <2> HIDE DEF below
  <2>2. IsFiniteSet(below) /\ Cardinality(below) <= Cardinality(kept)
    BY <1>2, <2>1, FS_Subset
  <2>3. Cardinality(below) \in Nat
    BY <2>2, FS_CardinalityType
  <2>4. Cardinality(below) # 0
    BY <2>1, <2>2, FS_EmptySet
  <2>5. new[i] = Cardinality(below)
    BY DEF below
  <2> QED
    BY <1>3, <2>2, <2>3, <2>4, <2>5
<1> QED
  BY <1>3, <1>4

LEMMA ImportsPruned ==
  ASSUME ShakenSound, files' = files, NEW path, path \in unpruned, unpruned \subseteq DOMAIN shaken,
         PruneImports(path)
  PROVE  ShakenSound' /\ unpruned' \subseteq DOMAIN shaken'
<1> DEFINE file == shaken[path]
           kept == {i \in DOMAIN file.deps : Keeps(path, file.deps[i])}
           new(i) == Cardinality({j \in kept : j <= i})
           deps == [n \in 1 .. Cardinality(kept) |-> file.deps[CHOOSE i \in kept : new(i) = n]]
           public == {new(i) : i \in kept \cap file.public}
           f == [file EXCEPT !.deps = deps, !.public = public]
<1>1. /\ unpruned' = unpruned \ {path}
      /\ shaken' = [shaken EXCEPT ![path].deps = deps, ![path].public = public]
  BY Zenon DEF PruneImports
<1>2. path \in DOMAIN shaken /\ SoundShaken(path, file)
  BY DEF ShakenSound
<1>3. IsSequence(file.deps)
  BY <1>2 DEF SoundShaken
<1>4. Len(file.deps) \in Nat /\ DOMAIN file.deps = 1 .. Len(file.deps)
  BY <1>3, SeqFacts
<1>5. /\ Cardinality(kept) \in Nat
      /\ \A i \in kept : new(i) \in 1 .. Cardinality(kept)
  <2> DEFINE g == [i \in kept |-> new(i)]
  <2>1. kept \subseteq 1 .. Len(file.deps)
    BY <1>4
  <2>2. g = [i \in kept |-> Cardinality({j \in kept : j <= i})]
    OBVIOUS
  <2>3. \A i \in kept : g[i] = new(i)
    OBVIOUS
  <2> HIDE DEF kept, g
  <2> QED
    BY <1>4, <2>1, <2>2, <2>3, Renumbered
<1>6. public \subseteq 1 .. Cardinality(kept)
  BY <1>5
<1>7. IsSequence(deps) /\ DOMAIN deps = 1 .. Cardinality(kept)
  BY <1>5, FunctionIsSeq
<1> HIDE DEF deps, public, kept
<1>8. /\ DOMAIN shaken' = DOMAIN shaken
      /\ shaken'[path] = f
      /\ \A p \in DOMAIN shaken \ {path} : shaken'[p] = shaken[p]
  BY <1>1, <1>2
<1>9. DOMAIN f = DOMAIN file /\ f.deps = deps /\ f.public = public /\ f.proto = file.proto
  BY <1>2 DEF SoundShaken, ShakenFields
<1>10. SoundShaken(path, f)
  BY <1>2, <1>6, <1>7, <1>9 DEF SoundShaken
<1> HIDE DEF f, file
<1>11. \A p \in DOMAIN shaken' : SoundShaken(p, shaken'[p])
  BY <1>8, <1>10 DEF ShakenSound
<1>12. \A p, g : SoundShaken(p, g)' <=> SoundShaken(p, g')
  BY DEF SoundShaken, FilesIn
<1>13. ShakenSound'
  BY <1>8, <1>11, <1>12 DEF ShakenSound
<1> QED
  BY <1>1, <1>8, <1>13

LEMMA FilesPruned ==
  ASSUME ShakenSound, files' = files, PruneFiles
  PROVE  ShakenSound'
<1>1. \E D : D \subseteq DOMAIN shaken /\ shaken' = [p \in D |-> shaken[p]]
  BY DEF PruneFiles
<1>2. PICK D : D \subseteq DOMAIN shaken /\ shaken' = [p \in D |-> shaken[p]]
  BY <1>1
<1>3. DOMAIN shaken' = D /\ \A p \in D : shaken'[p] = shaken[p]
  BY <1>2
<1>4. IsFiniteSet(D)
  BY <1>2, FS_Subset DEF ShakenSound
<1>5. \A p \in D : SoundShaken(p, shaken'[p])
  BY <1>2, <1>3 DEF ShakenSound
<1>6. \A p, g : SoundShaken(p, g)' <=> SoundShaken(p, g')
  BY DEF SoundShaken, FilesIn
<1>7. NoPath \notin D
  BY <1>2 DEF ShakenSound
<1> QED
  BY <1>3, <1>4, <1>5, <1>6, <1>7 DEF ShakenSound

-----------------------------------------------------------------------------
(* What is kept makes a set of files again. *)

LEMMA KeptFinite ==
  ASSUME CurrentRegistry, NEW path, NEW proto, NEW defs, NEW K,
         \A e \in proto : e.set \in DOMAIN files /\ path \in DOMAIN FilesIn(e.set),
         \A k \in DOMAIN files : path \in DOMAIN FilesIn(k) => IsFiniteSet(defs[k]),
         \A d \in K : \E e \in proto : d \in defs[e.set]
  PROVE  /\ IsFiniteSet(K)
         /\ \A d \in K : \E k \in DOMAIN files : path \in DOMAIN FilesIn(k) /\ d \in defs[k]
<1> DEFINE with == {k \in DOMAIN files : path \in DOMAIN FilesIn(k)}
           all  == {defs[k] : k \in with}
<1>1. IsFiniteSet(DOMAIN files)
  BY SeqFinite DEF CurrentRegistry, Registry, SoundSets
<1>2. IsFiniteSet(with)
  BY <1>1, FS_Subset
<1>3. \A d \in K : \E k \in with : d \in defs[k]
  OBVIOUS
<1>4. \A k \in with : IsFiniteSet(defs[k])
  OBVIOUS
<1>5. \A d \in K : \E k \in DOMAIN files : path \in DOMAIN FilesIn(k) /\ d \in defs[k]
  OBVIOUS
<1> HIDE DEF with
<1>6. IsFiniteSet(all)
  BY <1>2, ImageFinite
<1>7. \A T \in all : IsFiniteSet(T)
  BY <1>4
<1>8. K \subseteq UNION all
  BY <1>3
<1> HIDE DEF all
<1>9. IsFiniteSet(UNION all)
  BY <1>6, <1>7, FS_UNION
<1> QED
  BY <1>5, <1>8, <1>9, FS_Subset

LEMMA ShakenIsFile ==
  ASSUME CurrentRegistry, ShakenSound, NEW path \in DOMAIN shaken
  PROVE  IsFile(ShakenFile(path)) /\ ShakenFile(path).path = path
<1> DEFINE proto == shaken[path].proto
           M == Kept(path, LAMBDA file : file.messages)
           E == Kept(path, LAMBDA file : file.enums)
           inM == [k \in DOMAIN files |-> Range(FilesIn(k)[path].messages)]
           inE == [k \in DOMAIN files |-> Range(FilesIn(k)[path].enums)]
<1>1. /\ IsSequence(shaken[path].deps) /\ shaken[path].public \subseteq DOMAIN shaken[path].deps
      /\ \A e \in proto : e.set \in DOMAIN files /\ path \in DOMAIN FilesIn(e.set)
  BY DEF ShakenSound, SoundShaken
<1>2. ASSUME NEW k \in DOMAIN files, path \in DOMAIN FilesIn(k)
      PROVE  /\ IsFiniteSet(inM[k]) /\ IsFiniteSet(inE[k])
             /\ \A m \in inM[k] : "fields" \in DOMAIN m
             /\ \A e \in inE[k] : "fields" \notin DOMAIN e
  <2>1. IsFile(FilesIn(k)[path])
    BY <1>2, FilesInSet
  <2>2. /\ inM[k] = Range(FilesIn(k)[path].messages)
        /\ inE[k] = Range(FilesIn(k)[path].enums)
    OBVIOUS
  <2> HIDE DEF inM, inE
  <2> QED
    BY <2>1, <2>2, RangeFinite DEF IsFile
<1>3. M = UNION {{d \in Range(FilesIn(e.set)[path].messages) :
                    d.root = e.name \/ (e.kind = "enum" /\ d.name = e.name)} : e \in proto}
  BY Zenon DEF Kept
<1>4. E = UNION {{d \in Range(FilesIn(e.set)[path].enums) :
                    d.root = e.name \/ (e.kind = "enum" /\ d.name = e.name)} : e \in proto}
  BY Zenon DEF Kept
<1> HIDE DEF M, E
<1>5. \A d \in M : \E e \in proto : d \in inM[e.set]
  BY <1>1, <1>3
<1>6. \A d \in E : \E e \in proto : d \in inE[e.set]
  BY <1>1, <1>4
<1> HIDE DEF inM, inE, proto
<1>7. IsFiniteSet(M) /\ \A d \in M : \E k \in DOMAIN files : path \in DOMAIN FilesIn(k) /\ d \in inM[k]
  BY <1>1, <1>2, <1>5, KeptFinite
<1>8. IsFiniteSet(E) /\ \A d \in E : \E k \in DOMAIN files : path \in DOMAIN FilesIn(k) /\ d \in inE[k]
  BY <1>1, <1>2, <1>6, KeptFinite
<1>9. /\ IsSequence(SetToSeq(M)) /\ \A m \in Range(SetToSeq(M)) : "fields" \in DOMAIN m
      /\ IsSequence(SetToSeq(E)) /\ \A e \in Range(SetToSeq(E)) : "fields" \notin DOMAIN e
  BY <1>2, <1>7, <1>8, SetAsSeq
<1>10. ShakenFile(path) = [path |-> path, deps |-> shaken[path].deps,
                           public |-> shaken[path].public,
                           packages |-> shaken[path].packages, names |-> {},
                           messages |-> SetToSeq(M), enums |-> SetToSeq(E)]
  BY Zenon DEF ShakenFile, M, E
<1>11. /\ ShakenFile(path).path = path /\ ShakenFile(path).deps = shaken[path].deps
       /\ ShakenFile(path).public = shaken[path].public
       /\ ShakenFile(path).messages = SetToSeq(M) /\ ShakenFile(path).enums = SetToSeq(E)
  BY <1>10
<1> QED
  BY <1>1, <1>9, <1>11 DEF IsFile

LEMMA AdhocIsFile ==
  ASSUME IsSequence(ti.adhoc), IsFiniteSet(ti.deps)
  PROVE  IsFile(adhocFile) /\ adhocFile.path # NoPath
<1> DEFINE message(i) == [name |-> <<AdhocPackage, ti.adhoc[i].name>>,
                          root |-> <<AdhocPackage, ti.adhoc[i].name>>,
                          fields |-> ti.adhoc[i].fields]
           s == [i \in DOMAIN ti.adhoc |-> message(i)]
<1>1. /\ adhocFile.path = "adhoc.proto" /\ adhocFile.deps = SetToSeq(ti.deps)
      /\ adhocFile.public = {} /\ adhocFile.enums = <<>> /\ adhocFile.messages = s
  BY DEF adhocFile
<1>2. Len(ti.adhoc) \in Nat /\ DOMAIN ti.adhoc = 1 .. Len(ti.adhoc)
  BY SeqFacts
<1>3. IsSequence(s)
  BY <1>2, FunctionIsSeq
<1>4. \A i : "fields" \in DOMAIN message(i)
  OBVIOUS
<1>5. DOMAIN s = DOMAIN ti.adhoc /\ \A i \in DOMAIN s : s[i] = message(i)
  OBVIOUS
<1> HIDE DEF message, s
<1>6. \A m \in Range(s) : "fields" \in DOMAIN m
  BY <1>4, <1>5, RangeAt
<1>7. NoPath # "adhoc.proto"
  BY DEF NoPath
<1> QED
  BY <1>1, <1>3, <1>6, <1>7, EmptyFacts, SetAsSeq DEF IsFile

LEMMA OutputIsFileSet ==
  ASSUME CurrentRegistry, ShakenSound, IsSequence(ti.adhoc), IsFiniteSet(ti.deps)
  PROVE  IsFileSet(OutputDescriptors)
<1> DEFINE S == {ShakenFile(p) : p \in DOMAIN shaken}
           last == IF ti.adhoc = <<>> /\ ti.deps = {} THEN <<>> ELSE <<adhocFile>>
           out == SetToSeq(S) \o last
<1>1. OutputDescriptors = out
  BY Zenon DEF OutputDescriptors
<1>2. IsFiniteSet(S)
  <2> DEFINE g == [p \in DOMAIN shaken |-> ShakenFile(p)]
  <2>1. S = {g[p] : p \in DOMAIN shaken}
    OBVIOUS
  <2> HIDE DEF g, S
  <2> QED
    BY <2>1, ImageFinite DEF ShakenSound
<1>3. \A f \in S : IsFile(f) /\ f.path # NoPath
  BY ShakenIsFile DEF ShakenSound
<1>4. IsSequence(last) /\ Range(last) \subseteq {adhocFile}
  <2>1. IsSequence(<<adhocFile>>) /\ Range(<<adhocFile>>) = {adhocFile}
    <3> DEFINE one == <<adhocFile>>
    <3>1. one \in Seq({adhocFile})
      OBVIOUS
    <3>2. DOMAIN one = {1} /\ one[1] = adhocFile
      OBVIOUS
    <3> HIDE DEF one
    <3>3. Range(one) = {adhocFile}
      BY <3>2 DEF Range
    <3> QED
      BY <3>1, <3>3, SeqIsSeq DEF one
  <2> QED
    BY <2>1, EmptyFacts
<1> HIDE DEF S, last
<1>5. IsSequence(SetToSeq(S)) /\ Range(SetToSeq(S)) \subseteq S
  BY <1>2, SetAsSeq
<1>6. IsSequence(out) /\ Range(out) = Range(SetToSeq(S)) \cup Range(last)
  BY <1>4, <1>5, ConcatRange
<1> HIDE DEF out
<1>7. \A f \in Range(out) : IsFile(f) /\ f.path # NoPath
  BY <1>3, <1>4, <1>5, <1>6, AdhocIsFile
<1> QED
  BY <1>1, <1>6, <1>7 DEF IsFileSet

-----------------------------------------------------------------------------
(* The inductive invariant of the registry and of what is shaken. *)

\* The stages after the registry is extended, which leave it alone.
RegistryDone ==
  {"triggers", "publishers", "data_sources", "aggregators", "report_configs", "session", "compile",
   "infer", "harvest", "prune", "shaken"}

NoRegistry == pending = {} /\ localFiles = {} /\ types = <<>>

\* The types that the configuration refers to are in the registry.
TypesFound ==
  /\ \A name \in ti.messages : Finds("message", name)
  /\ \A name \in ti.enums : Finds("enum", name)

RegistryInv ==
  /\ \A set \in FileSetsOf(req) : IsFileSet(set)
  /\ IsFileSet(mc.descriptors)
  /\ result = "none" => NoRegistry
  /\ result # "none" => CurrentRegistry
  /\ stage \in RegistryDone => result = "ok"
  /\ stage \in {"infer", "harvest"} => TypesFound
  /\ stage \in {"harvest", "prune", "shaken"} => GoodInference(ti) /\ ShakenSound
  /\ unpruned \subseteq (IF stage = "prune" THEN DOMAIN shaken ELSE {})
  /\ UnderWay => ti.reports \subseteq DOMAIN mc.reports

LEMMA SameRegistry ==
  ASSUME UNCHANGED registryVars
  PROVE  /\ CurrentRegistry' <=> CurrentRegistry
         /\ NoRegistry' <=> NoRegistry
         /\ files' = files /\ result' = result
         /\ \A kind, name : Finds(kind, name)' <=> Finds(kind, name)
<1>1. /\ fdSet' = fdSet /\ pending' = pending /\ files' = files /\ localFiles' = localFiles
      /\ collected' = collected /\ types' = types /\ result' = result
  BY DEF registryVars
<1>2. CurrentRegistry' <=> CurrentRegistry
  BY <1>1 DEF CurrentRegistry
<1>3. \A kind, name : Finds(kind, name)' <=> Finds(kind, name)
  BY <1>1 DEF Finds, IsLocal, GlobalType
<1> QED
  BY <1>1, <1>2, <1>3 DEF NoRegistry

LEMMA SameShaken == ASSUME UNCHANGED <<shaken, files>> PROVE ShakenSound' <=> ShakenSound
<1>1. \A k : FilesIn(k)' = FilesIn(k)
  BY DEF FilesIn
<1>2. \A p, f : SoundShaken(p, f)' <=> SoundShaken(p, f)
  BY <1>1 DEF SoundShaken
<1> QED
  BY <1>2 DEF ShakenSound

(* Steps that leave the registry, the configuration and what is shaken alone. *)
LEMMA RegistryInvStays ==
  ASSUME RegistryInv, UNCHANGED <<registryVars, shakerVars, mc, ti, req>>,
         \/ stage' = stage
         \/ stage' = "answered" /\ stage # "prune"
         \/ stage \notin {"infer", "harvest", "prune", "shaken"} /\ stage' \in {"signals", "descriptors"}
         \/ /\ stage \notin {"infer", "harvest", "prune", "shaken"} /\ result = "ok"
            /\ stage' \in {"triggers", "publishers", "data_sources", "aggregators", "report_configs",
                           "session", "compile"}
  PROVE  RegistryInv'
<1>1. UNCHANGED <<shaken, unpruned, mc, ti, req>>
  BY DEF shakerVars
<1>2. FileSetsOf(req)' = FileSetsOf(req)
  BY <1>1 DEF FileSetsOf
<1>3. /\ CurrentRegistry' <=> CurrentRegistry
      /\ NoRegistry' <=> NoRegistry
      /\ files' = files /\ result' = result
      /\ TypesFound' <=> TypesFound
  BY <1>1, SameRegistry DEF TypesFound
<1>4. ShakenSound' <=> ShakenSound
  BY <1>1, <1>3, SameShaken
<1>5. GoodInference(ti)' <=> GoodInference(ti)
  BY <1>1 DEF GoodInference
<1>6. UnderWay' => UnderWay
  BY <1>1 DEF UnderWay
<1> QED
  BY <1>1, <1>2, <1>3, <1>4, <1>5, <1>6 DEF RegistryInv, RegistryDone

LEMMA InitRegistry == ASSUME Init PROVE RegistryInv
<1>1. \A set \in FileSetsOf(req) : IsFileSet(set)
  BY RequestsAssumption DEF Init
<1>2. mc.descriptors = <<>>
  BY DEF Init, NoConfig
<1>3. /\ result = "none" /\ stage = "received" /\ unpruned = {}
      /\ pending = {} /\ localFiles = {} /\ types = <<>>
  BY DEF Init
<1> QED
  BY <1>1, <1>2, <1>3, NoFiles DEF RegistryInv, NoRegistry, RegistryDone, UnderWay

(* A set is collected, by a new resolver or by one that is extended. *)
LEMMA CollectingStarted ==
  ASSUME NEW set, IsFileSet(set), NEW earlier, SoundSets(earlier), StartCollecting(set, earlier),
         GoodTypes(earlier, types'), \A k \in 1 .. Len(earlier) : Settled(earlier, types', k)
  PROVE  CurrentRegistry' /\ result' # "none"
<1>1. /\ fdSet' = set /\ files' = Append(earlier, <<>>) /\ localFiles' = DOMAIN GlobalFiles
      /\ collected' = [messages |-> <<>>, enums |-> <<>>] /\ pending' = GraphNodes(set)
      /\ result' = IF Circular(set) THEN "error" ELSE "collecting"
  BY Zenon DEF StartCollecting
<1>2. PICK ty : ty = types'
  OBVIOUS
<1>3. PICK col : col = [messages |-> <<>>, enums |-> <<>>]
  OBVIOUS
<1>4. Registry(set, GraphNodes(set), Append(earlier, <<>>), DOMAIN GlobalFiles, col, ty,
               IF Circular(set) THEN "error" ELSE "collecting")
  BY <1>2, <1>3, Started
<1>5. CurrentRegistry'
  BY <1>1, <1>2, <1>3, <1>4, Zenon DEF CurrentRegistry
<1> QED
  BY <1>1, <1>5

LEMMA ResolverMade ==
  ASSUME NEW set, IsFileSet(set), NewEnrichedTypeResolver(set)
  PROVE  CurrentRegistry' /\ result' # "none"
<1> DEFINE earlier == <<>>
<1>1. StartCollecting(set, earlier) /\ types' = <<>>
  BY DEF NewEnrichedTypeResolver
<1>2. IsSequence(earlier) /\ Len(earlier) = 0 /\ DOMAIN types' = {}
  BY <1>1, EmptyFacts
<1> HIDE DEF earlier
<1>3. SoundSets(earlier) /\ GoodTypes(earlier, types')
      /\ \A k \in 1 .. Len(earlier) : Settled(earlier, types', k)
  BY <1>2 DEF SoundSets, GoodTypes
<1> QED
  BY <1>1, <1>3, CollectingStarted

(* Collecting and registering. *)
LEMMA CollectingKeeps ==
  ASSUME RegistryInv, SessionInv,
         \/ initializeTypeRegistry \/ extendRegistryWithCustomDescriptors \/ RegisterNext
  PROVE  RegistryInv'
<1>1. /\ UNCHANGED <<shakerVars, mc, ti, req>>
      /\ stage \in {"signals", "descriptors", "validate"}
      /\ stage' \in {"answered", "signals", "descriptors", "validate"}
      /\ stage' = "validate" => stage = "validate"
  BY DEF initializeTypeRegistry, extendRegistryWithCustomDescriptors, RegisterNext, Answer
<1>2. UNCHANGED <<shaken, unpruned, mc, ti, req>>
  BY <1>1 DEF shakerVars
<1>3. FileSetsOf(req)' = FileSetsOf(req)
  BY <1>2 DEF FileSetsOf
<1>4. req.signals.set \in FileSetsOf(req) /\ Parsed \in FileSetsOf(req)
  BY DEF FileSetsOf, Parsed
<1>5. (CurrentRegistry' /\ result' # "none") \/ UNCHANGED registryVars
  <2>1. CASE initializeTypeRegistry
    <3>1. PICK set : set = req.signals.set
      OBVIOUS
    <3>2. NewEnrichedTypeResolver(set) \/ UNCHANGED registryVars
      BY <2>1, <3>1, Zenon DEF initializeTypeRegistry
    <3> QED
      BY <1>4, <3>1, <3>2, ResolverMade DEF RegistryInv
  <2>2. CASE extendRegistryWithCustomDescriptors
    <3>1. PICK set, earlier : set = Parsed /\ earlier = files
      OBVIOUS
    <3>2. /\ StartCollecting(set, earlier) /\ types' = types /\ result = "ok"
      BY <2>2, <3>1, Zenon DEF extendRegistryWithCustomDescriptors
    <3>3. CurrentRegistry
      BY <3>2 DEF RegistryInv
    <3>4. Len(files) \in Nat /\ Len(files) >= 1
      BY <3>3, SeqFacts DEF CurrentRegistry, Registry, SoundSets
    <3>5. \A k \in 1 .. Len(files) : k = Len(files) \/ k \in 1 .. Len(files) - 1
      BY <3>4
    <3>6. /\ SoundSets(files) /\ GoodTypes(files, types)
          /\ \A k \in 1 .. Len(files) : Settled(files, types, k)
      BY <3>2, <3>3, <3>5 DEF CurrentRegistry, Registry, Answers
    <3> QED
      BY <1>4, <3>1, <3>2, <3>6, CollectingStarted DEF RegistryInv
  <2>3. CASE RegisterNext
    <3>1. (\E path \in pending : CollectFile(path)) \/ ExtendLocalTypes
      BY <2>3 DEF RegisterNext, RegistryStep
    <3>2. CurrentRegistry
      BY <3>1 DEF RegistryInv, CollectFile, ExtendLocalTypes
    <3>3. CurrentRegistry'
      BY <3>1, <3>2, FileCollected, TypesExtended
    <3>4. result' # "none"
      BY <3>3 DEF CurrentRegistry, Registry, Answers
    <3> QED
      BY <3>3, <3>4
  <2> QED
    BY <2>1, <2>2, <2>3
<1>6. (result' = "none" => NoRegistry') /\ (result' # "none" => CurrentRegistry')
  BY <1>5, SameRegistry DEF RegistryInv
<1>7. UnderWay' => UnderWay
  BY <1>1, <1>2 DEF UnderWay
<1> QED
  BY <1>1, <1>2, <1>3, <1>6, <1>7 DEF RegistryInv, RegistryDone

(* A configuration is made, taken, or sent back. *)
LEMMA ConfigurationKeeps ==
  ASSUME RegistryInv, SessionInv, InferenceInv,
         compileSession \/ Compiled \/ ReceiveConfig \/ ValidateCompiled
  PROVE  RegistryInv'
<1>1. CASE compileSession
  <2>1. /\ UNCHANGED <<registryVars, shakerVars, req>>
        /\ stage = "compile" /\ stage' \in {"answered", "compiled", "infer"}
        /\ \/ UNCHANGED <<mc, ti>> /\ stage' = "answered"
           \/ mc' = Assembled(CompileAll(sess.expressions)) /\ ti' = NewTypeInference(sess.hints)
    BY <1>1, Zenon DEF compileSession, Answer
  <2>2. CASE UNCHANGED <<mc, ti>> /\ stage' = "answered"
    BY <2>1, <2>2, RegistryInvStays
  <2>3. CASE mc' = Assembled(CompileAll(sess.expressions)) /\ ti' = NewTypeInference(sess.hints)
    <3>1. UNCHANGED <<shaken, unpruned, req>> /\ FileSetsOf(req)' = FileSetsOf(req)
      BY <2>1 DEF shakerVars, FileSetsOf
    <3>2. PICK compiled, hints : compiled = CompileAll(sess.expressions) /\ hints = sess.hints
      OBVIOUS
    <3>3. mc'.descriptors \in {sess.descriptors, <<>>}
      BY <2>3, <3>2 DEF Assembled
    <3>4. IsFileSet(mc'.descriptors)
      BY <2>1, <3>3, NoFiles DEF SessionInv, GoodSession
    <3>5. ti'.messages = {} /\ ti'.enums = {} /\ ti'.reports = {}
      BY <2>3, <3>2 DEF NewTypeInference
    <3> QED
      BY <2>1, <3>1, <3>4, <3>5, SameRegistry DEF RegistryInv, RegistryDone, TypesFound
  <2> QED
    BY <2>1, <2>2, <2>3
<1>2. CASE Compiled
  <2>1. /\ UNCHANGED <<shakerVars, mc, ti, req>> /\ stage = "compiled"
        /\ \/ UNCHANGED registryVars /\ stage' = "answered"
           \/ NewEnrichedTypeResolver(mc.descriptors) /\ stage' = "validate"
    BY <1>2, Zenon DEF Compiled, Answer
  <2>2. CASE UNCHANGED registryVars /\ stage' = "answered"
    BY <2>1, <2>2, RegistryInvStays
  <2>3. CASE NewEnrichedTypeResolver(mc.descriptors) /\ stage' = "validate"
    <3>1. UNCHANGED <<shaken, unpruned, req>> /\ FileSetsOf(req)' = FileSetsOf(req)
      BY <2>1 DEF shakerVars, FileSetsOf
    <3>2. PICK set : set = mc.descriptors
      OBVIOUS
    <3>3. CurrentRegistry' /\ result' # "none"
      BY <2>3, <3>2, ResolverMade DEF RegistryInv
    <3>4. UnderWay' => UnderWay
      BY <2>1, <2>3 DEF UnderWay
    <3> QED
      BY <2>1, <2>3, <3>1, <3>3, <3>4 DEF RegistryInv, RegistryDone
  <2> QED
    BY <2>1, <2>2, <2>3
<1>3. CASE ReceiveConfig
  <2>1. /\ UNCHANGED <<shakerVars, ti, req>> /\ stage = "received" /\ req.endpoint # "compile"
        /\ mc' = mc \/ mc' = req.config
        /\ stage' \in {"answered", "validate"}
        /\ \/ UNCHANGED registryVars
           \/ NewEnrichedTypeResolver(req.config.descriptors)
    BY <1>3, Zenon DEF ReceiveConfig, Answer
  <2>2. UNCHANGED <<shaken, unpruned, req>> /\ FileSetsOf(req)' = FileSetsOf(req)
    BY <2>1 DEF shakerVars, FileSetsOf
  <2>3. req.config.descriptors \in FileSetsOf(req)
    BY DEF FileSetsOf
  <2>4. IsFileSet(mc'.descriptors)
    BY <2>1, <2>3 DEF RegistryInv
  <2>5. PICK set : set = req.config.descriptors
    OBVIOUS
  <2>6. (result' = "none" => NoRegistry') /\ (result' # "none" => CurrentRegistry')
    BY <2>1, <2>3, <2>5, ResolverMade, SameRegistry DEF RegistryInv
  <2>7. ~UnderWay'
    BY <2>1 DEF UnderWay
  <2> QED
    BY <2>1, <2>2, <2>4, <2>6, <2>7 DEF RegistryInv, RegistryDone
<1>4. CASE ValidateCompiled
  <2>1. /\ UNCHANGED <<registryVars, shakerVars, mc, ti>>
        /\ stage = "answered" /\ stage' = "received"
        /\ req' = [req EXCEPT !.endpoint = "validate", !.config = mc,
                              !.text = textprotoMarshal(TextOf(mc), req.version)]
    BY <1>4, Zenon DEF ValidateCompiled
  <2>2. /\ DOMAIN req' = DOMAIN req /\ req'.signals = req.signals
        /\ req'.descriptor_protos = req.descriptor_protos /\ req'.config = mc
    <3>1. {"config", "endpoint", "text", "signals", "descriptor_protos"} \subseteq DOMAIN req
      BY DEF SessionInv, IsRequest
    <3>2. PICK text : text = textprotoMarshal(TextOf(mc), req.version)
      OBVIOUS
    <3>3. req' = [req EXCEPT !.endpoint = "validate", !.config = mc, !.text = text]
      BY <2>1, <3>2
    <3> QED
      BY <3>1, <3>3
  <2>3. FileSetsOf(req)' = {req.signals.set, ParsedSet(req.descriptor_protos), mc.descriptors}
    BY <2>2 DEF FileSetsOf
  <2>4. \A set \in FileSetsOf(req)' : IsFileSet(set)
    BY <2>3 DEF RegistryInv, FileSetsOf
  <2>5. UNCHANGED <<shaken, unpruned>> /\ ~UnderWay'
    BY <2>1 DEF shakerVars, UnderWay
  <2> QED
    BY <2>1, <2>4, <2>5, SameRegistry DEF RegistryInv, RegistryDone
<1> QED
  BY <1>1, <1>2, <1>3, <1>4

(* Inference and tree shaking. *)
LEMMA InferenceKeeps ==
  ASSUME RegistryInv, SessionInv, InferenceInv, InferNext \/ InferTriggers
  PROVE  RegistryInv'
<1>1. CASE InferNext
  <2>1. UNCHANGED <<registryVars, shakerVars, req, stage>> /\ stage = "infer"
    BY <1>1 DEF InferNext
  <2>2. Inferred /\ InferredBeforeUse /\ IsRequest(req) /\ ConfigDenotes(mc) /\ UnderWay
    BY <2>1 DEF InferenceInv, SessionInv, UnderWay
  <2>3. Gains(ti') /\ Retyped(mc, mc')
    BY <1>1, <2>2, InferenceStep, InferenceRetypes
  <2>4. mc'.descriptors = mc.descriptors /\ DOMAIN mc'.reports = DOMAIN mc.reports
    BY <2>3 DEF Retyped
  <2>5. TypesFound /\ ti.reports \subseteq DOMAIN mc.reports
    BY <2>1, <2>2 DEF RegistryInv
  <2>6. TypesFound' /\ ti'.reports \subseteq DOMAIN mc'.reports
    BY <2>1, <2>3, <2>4, <2>5, SameRegistry DEF Gains, Tracked, TypesFound
  <2>7. UNCHANGED <<shaken, unpruned, req, stage>> /\ FileSetsOf(req)' = FileSetsOf(req)
    BY <2>1 DEF shakerVars, FileSetsOf
  <2> QED
    BY <2>1, <2>4, <2>6, <2>7, SameRegistry DEF RegistryInv, RegistryDone
<1>2. CASE InferTriggers
  <2>1. /\ UNCHANGED <<registryVars, mc, ti, req>> /\ stage = "infer" /\ unpruned' = unpruned
        /\ stage' = "answered" \/ (stage' = "harvest" /\ shaken' = <<>>)
    BY <1>2 DEF InferTriggers, Answer, shakerVars
  <2>2. unpruned = {} /\ GoodInference(ti) /\ TypesFound
    BY <2>1 DEF RegistryInv, InferenceInv, Inferred
  <2>3. stage' = "harvest" => ShakenSound'
    <3>1. CASE shaken' = <<>>
      <4>1. DOMAIN shaken' = {}
        BY <3>1, EmptyFacts
      <4> QED
        BY <4>1, FS_EmptySet DEF ShakenSound
    <3> QED
      BY <2>1, <3>1
  <2>4. GoodInference(ti)' /\ TypesFound' /\ FileSetsOf(req)' = FileSetsOf(req) /\ (UnderWay' => UnderWay)
    BY <2>1, <2>2, SameRegistry DEF GoodInference, TypesFound, FileSetsOf, UnderWay
  <2> QED
    BY <2>1, <2>2, <2>3, <2>4, SameRegistry DEF RegistryInv, RegistryDone
<1> QED
  BY <1>1, <1>2

LEMMA ShakingKeeps ==
  ASSUME RegistryInv, SessionInv, InferenceInv,
         HarvestNext \/ HarvestEnds \/ PruneNext \/ PruneEnds \/ SetDescriptors
  PROVE  RegistryInv'
<1>1. /\ UNCHANGED <<registryVars, req>> /\ stage \in {"harvest", "prune", "shaken"}
      /\ stage' \in {"harvest", "prune", "shaken", "compiled", "answered"}
  BY DEF HarvestNext, HarvestEnds, PruneNext, PruneEnds, SetDescriptors, Answer
<1>2. result = "ok" /\ CurrentRegistry /\ GoodInference(ti) /\ ShakenSound
  BY <1>1 DEF RegistryInv, RegistryDone
<1>3. /\ result' = "ok" /\ CurrentRegistry' /\ files' = files
      /\ FileSetsOf(req)' = FileSetsOf(req) /\ (UnderWay' => UnderWay)
      /\ \A kind, name : Finds(kind, name)' <=> Finds(kind, name)
  BY <1>1, <1>2, SameRegistry DEF FileSetsOf, UnderWay
<1>4. CASE HarvestNext
  <2>1. /\ stage = "harvest" /\ UNCHANGED <<mc, stage>>
        /\ \/ \E name \in ti.messages :
                HarvestType("message", name) /\ ti' = [ti EXCEPT !.messages = @ \ {name}]
           \/ \E name \in ti.enums :
                HarvestType("enum", name) /\ ti' = [ti EXCEPT !.enums = @ \ {name}]
    BY <1>4, Zenon DEF HarvestNext
  <2>2. unpruned = {} /\ TypesFound
    BY <2>1 DEF RegistryInv
  <2>3. ShakenSound' /\ UNCHANGED unpruned
    BY <1>2, <1>3, <2>1, <2>2, HarvestKeeps DEF TypesFound
  <2>4. /\ DOMAIN ti' = TiFields /\ ti'.adhoc = ti.adhoc /\ ti'.deps = ti.deps
        /\ ti'.reports = ti.reports
        /\ ti'.messages \subseteq ti.messages /\ ti'.enums \subseteq ti.enums
    BY <1>2, <2>1 DEF GoodInference, TiFields
  <2>5. GoodInference(ti)' /\ TypesFound'
    BY <1>2, <1>3, <2>2, <2>4 DEF GoodInference, TypesFound
  <2> QED
    BY <1>1, <1>3, <2>1, <2>2, <2>3, <2>4, <2>5 DEF RegistryInv
<1>5. CASE HarvestEnds
  <2>1. UNCHANGED <<mc, ti, shaken>> /\ unpruned' = DOMAIN shaken /\ stage' = "prune"
    BY <1>5 DEF HarvestEnds, StartPruning
  <2>2. ShakenSound' /\ GoodInference(ti)'
    BY <1>2, <1>3, <2>1, SameShaken DEF GoodInference
  <2> QED
    BY <1>1, <1>3, <2>1, <2>2 DEF RegistryInv
<1>6. CASE PruneNext
  <2>1. UNCHANGED <<mc, ti, stage>> /\ stage = "prune" /\ unpruned \subseteq DOMAIN shaken
    BY <1>6 DEF PruneNext, RegistryInv
  <2>2. ShakenSound' /\ unpruned' \subseteq DOMAIN shaken'
    BY <1>2, <1>3, <1>6, <2>1, ImportsPruned DEF PruneNext
  <2>3. GoodInference(ti)'
    BY <1>2, <2>1 DEF GoodInference
  <2> QED
    BY <1>1, <1>3, <2>1, <2>2, <2>3 DEF RegistryInv
<1>7. CASE PruneEnds
  <2>1. UNCHANGED <<mc, ti, unpruned>> /\ stage' = "shaken" /\ PruneFiles /\ unpruned = {}
    BY <1>7 DEF PruneEnds, PruneFiles
  <2>2. ShakenSound' /\ GoodInference(ti)'
    BY <1>2, <1>3, <2>1, FilesPruned DEF GoodInference
  <2> QED
    BY <1>1, <1>3, <2>1, <2>2 DEF RegistryInv
<1>8. CASE SetDescriptors
  <2>1. /\ UNCHANGED <<shakerVars, ti>> /\ stage = "shaken" /\ stage' \in {"answered", "compiled"}
        /\ mc' = mc \/ mc' = [mc EXCEPT !.descriptors = OutputDescriptors]
        /\ mc' = mc \/ stage' = "compiled"
    BY <1>8 DEF SetDescriptors, Answer
  <2>2. UNCHANGED <<shaken, unpruned>> /\ unpruned = {}
    BY <2>1 DEF shakerVars, RegistryInv
  <2>3. IsFileSet(OutputDescriptors)
    BY <1>2, OutputIsFileSet DEF GoodInference
  <2>4. IsFileSet(mc'.descriptors) /\ (UnderWay' => mc'.reports = mc.reports)
    <3>1. CASE mc' = mc
      BY <3>1 DEF RegistryInv
    <3>2. CASE mc' = [mc EXCEPT !.descriptors = OutputDescriptors] /\ stage' = "compiled"
      <4>1. PICK out : out = OutputDescriptors
        OBVIOUS
      <4>2. mc' = [mc EXCEPT !.descriptors = out]
        BY <3>2, <4>1
      <4>3. UnderWay
        BY <2>1 DEF UnderWay, InferenceInv
      <4>4. "descriptors" \in DOMAIN mc
        BY <4>3 DEF SessionInv, ConfigDenotes
      <4>5. mc'.descriptors = out /\ mc'.reports = mc.reports
        BY <4>2, <4>4
      <4> QED
        BY <2>3, <4>1, <4>5
    <3> QED
      BY <2>1, <3>1, <3>2
  <2>5. UnderWay' => ti'.reports \subseteq DOMAIN mc'.reports
    BY <1>3, <2>1, <2>4 DEF RegistryInv
  <2> QED
    BY <1>1, <1>3, <2>1, <2>2, <2>4, <2>5 DEF RegistryInv, RegistryDone
<1> QED
  BY <1>4, <1>5, <1>6, <1>7, <1>8

LEMMA NextRegistry ==
  ASSUME SessionInv, InferenceInv, RegistryInv, [Next]_vars
  PROVE  RegistryInv'
<1>1. CASE UNCHANGED vars \/ Done
  <2>1. UNCHANGED <<registryVars, shakerVars, mc, ti, req, stage>>
    BY <1>1 DEF Done, vars
  <2> QED
    BY <2>1, RegistryInvStays
<1>2. CASE \/ Receive \/ RegistryExtended \/ RegistryFails
           \/ parseTriggers \/ parseDeprecatedSources \/ parseDataSources \/ parseAggregators
           \/ parseReportConfigs \/ FinishSession \/ CyclicDependency \/ Validated
  <2>1. /\ UNCHANGED <<registryVars, shakerVars, mc, ti, req>>
        /\ stage \notin {"harvest", "prune", "shaken"}
        /\ stage = "infer" => stage' = "answered"
        /\ stage' \in {"answered", "signals"} \/ result = "ok"
        /\ stage' \in {"answered", "signals", "triggers", "publishers", "data_sources",
                       "aggregators", "report_configs", "session", "compile"}
    BY <1>2
       DEF Receive, RegistryExtended, RegistryFails, parseTriggers, parseDeprecatedSources,
           parseDataSources, parseAggregators, parseReportConfigs, Parsing, FinishSession,
           CyclicDependency, Validated, Answer, RegistryInv, RegistryDone
  <2> QED
    BY <2>1, RegistryInvStays
<1>3. CASE initializeTypeRegistry \/ extendRegistryWithCustomDescriptors \/ RegisterNext
  BY <1>3, CollectingKeeps
<1>4. CASE compileSession \/ Compiled \/ ReceiveConfig \/ ValidateCompiled
  BY <1>4, ConfigurationKeeps
<1>5. CASE InferNext \/ InferTriggers
  BY <1>5, InferenceKeeps
<1>6. CASE HarvestNext \/ HarvestEnds \/ PruneNext \/ PruneEnds \/ SetDescriptors
  BY <1>6, ShakingKeeps
<1> QED
  BY <1>1, <1>2, <1>3, <1>4, <1>5, <1>6, Zenon DEF Next

(* All files that a request brings, at any stage, form sets of files that the    *)
(* registry takes up file by file, and the type of each name is that of a file.  *)
THEOREM Registries == Spec => [](SessionInv /\ InferenceInv /\ RegistryInv)
<1>1. Init => SessionInv /\ InferenceInv /\ RegistryInv
  BY InitSession, InitInference, InitRegistry
<1>2. SessionInv /\ InferenceInv /\ RegistryInv /\ [Next]_vars
        => SessionInv' /\ InferenceInv' /\ RegistryInv'
  BY NextSession, NextInference, NextRegistry
<1> QED
  BY <1>1, <1>2, PTL DEF Spec

(* Whichever order SortFileDescriptorSet gives the files of a set, whichever set  *)
(* it is: it is accepted only without a fault, refused only for one or for a      *)
(* clash of names, and the resolver panics only on an import that is not there.   *)
THEOREM RefusalsExplained == Spec => []RefusedForCause
<1>1. RegistryInv => RefusedForCause
  <2> SUFFICES ASSUME RegistryInv PROVE RefusedForCause
    OBVIOUS
  <2>1. CASE result = "none"
    BY <2>1 DEF RefusedForCause
  <2>2. CASE result # "none"
    BY <2>2, CauseOfRefusal DEF RegistryInv
  <2> QED
    BY <2>1, <2>2
<1> QED
  BY <1>1, Registries, PTL

(* ExtendLocalTypes without an error leaves a registry that finds every type of  *)
(* the set with its own definition, and all that the type refers to.             *)
THEOREM TypesRegistered == Spec => []RegistryComplete
<1>1. RegistryInv => RegistryComplete
  BY CompleteOnceAccepted DEF RegistryInv, RegistryComplete
<1> QED
  BY <1>1, Registries, PTL

-----------------------------------------------------------------------------
(* Types. *)

FlowOK ==
  /\ stage \in Stages
  /\ answer \in {"none", "ok", "bad_request", "panic"}
  /\ (stage = "answered") <=> (answer # "none")

LEMMA InitFlow == ASSUME Init PROVE FlowOK
  BY DEF Init, FlowOK, Stages

LEMMA NextFlow == ASSUME FlowOK, [Next]_vars PROVE FlowOK'
<1>1. CASE UNCHANGED vars \/ Done \/ RegisterNext \/ InferNext \/ HarvestNext \/ PruneNext
  <2>1. UNCHANGED <<stage, answer>>
    BY <1>1 DEF Done, vars, RegisterNext, InferNext, HarvestNext, PruneNext
  <2> QED
    BY <2>1 DEF FlowOK
<1>2. CASE \/ extendRegistryWithCustomDescriptors \/ HarvestEnds \/ PruneEnds
           \/ parseTriggers \/ parseDeprecatedSources \/ parseDataSources \/ parseAggregators
           \/ parseReportConfigs
  <2>1. /\ stage # "answered" /\ stage' \in Stages \ {"answered"} /\ answer' = answer
    BY <1>2 DEF extendRegistryWithCustomDescriptors, HarvestEnds, PruneEnds, parseTriggers,
                parseDeprecatedSources, parseDataSources, parseAggregators, parseReportConfigs,
                Parsing, Stages
  <2> QED
    BY <2>1 DEF FlowOK
<1>3. CASE Receive \/ initializeTypeRegistry \/ RegistryExtended \/ RegistryFails \/ FinishSession
  <2>1. /\ stage # "answered"
        /\ \/ stage' \in Stages \ {"answered"} /\ answer' = answer
           \/ stage' = "answered" /\ answer' \in {"ok", "bad_request", "panic"}
    BY <1>3 DEF Receive, initializeTypeRegistry, RegistryExtended, RegistryFails, FinishSession,
                Answer, Stages
  <2> QED
    BY <2>1 DEF FlowOK, Stages
<1>4. CASE \/ compileSession \/ CyclicDependency \/ InferTriggers \/ SetDescriptors \/ Compiled
           \/ ReceiveConfig \/ Validated
  <2>1. /\ stage # "answered"
        /\ \/ stage' \in Stages \ {"answered"} /\ answer' = answer
           \/ stage' = "answered" /\ answer' \in {"ok", "bad_request", "panic"}
    BY <1>4, Zenon DEF compileSession, CyclicDependency, InferTriggers, SetDescriptors, Compiled,
                       ReceiveConfig, Validated, Answer, Stages
  <2> QED
    BY <2>1 DEF FlowOK, Stages
<1>5. CASE ValidateCompiled
  <2>1. stage' = "received" /\ answer' = "none"
    BY <1>5 DEF ValidateCompiled
  <2> QED
    BY <2>1 DEF FlowOK, Stages
<1> QED
  BY <1>1, <1>2, <1>3, <1>4, <1>5, Zenon DEF Next

LEMMA IndexInNodes ==
  ASSUME NEW nodes, NEW index, NEW e, IsExpression(nodes), IsExpression(e), IndexDenotes(nodes, index, e)
  PROVE  index \in 0 .. Len(nodes) /\ Len(nodes) \in Nat
<1>1. Len(nodes) \in Nat
  BY ExpressionFacts
<1>2. CASE e = Blank
  BY <1>1, <1>2 DEF IndexDenotes
<1>3. CASE e # Blank
  <2>1. index \in 1 .. Len(nodes)
    BY <1>3, DenotedFacts DEF IndexDenotes
  <2> QED
    BY <1>1, <2>1
<1> QED
  BY <1>2, <1>3

LEMMA BuilderInNodes ==
  ASSUME NEW nodes, NEW b, NEW r, IsExpression(nodes), HasExpressions(r), BuilderDenotes(nodes, b, r)
  PROVE  NodesOf(b) \subseteq DOMAIN nodes
<1>1. Len(nodes) \in Nat /\ DOMAIN nodes = 1 .. Len(nodes)
  BY ExpressionFacts
<1>2. ASSUME NEW i \in DOMAIN b.fields PROVE b.fields[i].node \in 0 .. Len(nodes)
  <2>1. i \in DOMAIN r.fields /\ IndexDenotes(nodes, b.fields[i].node, r.fields[i].expression)
    BY DEF BuilderDenotes, FieldDenotes
  <2>2. IsExpression(r.fields[i].expression)
    BY <2>1, RangeMember DEF HasExpressions
  <2> QED
    BY <2>1, <2>2, IndexInNodes
<1>3. ASSUME NEW n \in NodesOf(b) PROVE n \in DOMAIN nodes
  <2>1. PICK f \in Range(b.fields) : n = f.node /\ n # 0
    BY DEF NodesOf
  <2>2. PICK i \in DOMAIN b.fields : f = b.fields[i]
    BY RangeAt
  <2> QED
    BY <1>1, <1>2, <2>1, <2>2
<1> QED
  BY <1>3

(* The configuration refers to nodes that are there. *)
LEMMA ConfigInNodes ==
  ASSUME IsRequest(req), ConfigDenotes(mc)
  PROVE  /\ \A i \in DOMAIN mc.nodes : Range(mc.nodes[i].args) \subseteq 1 .. (i - 1)
         /\ \A b \in BuildersOf(mc) : NodesOf(b) \subseteq DOMAIN mc.nodes
         /\ \A t \in Range(mc.triggers) : {t.selector, t.initialize} \subseteq 0 .. Len(mc.nodes)
<1>1. IsExpression(mc.nodes)
  BY DEF ConfigDenotes
<1>2. ASSUME NEW i \in DOMAIN mc.nodes PROVE Range(mc.nodes[i].args) \subseteq 1 .. (i - 1)
  <2> DEFINE as == mc.nodes[i].args
  <2>1. \A a \in DOMAIN as : as[a] \in 1 .. i - 1
    BY <1>1, ExpressionFacts
  <2> HIDE DEF as
  <2>2. ASSUME NEW x \in Range(as) PROVE x \in 1 .. (i - 1)
    BY <2>1, <2>2, RangeAt
  <2> QED
    BY <2>2 DEF as
<1>3. ASSUME NEW s \in Range(mc.sources) PROVE NodesOf(s.builder) \subseteq DOMAIN mc.nodes
  <2>1. PICK k \in DOMAIN mc.sources : s = mc.sources[k]
    BY RangeAt
  <2> DEFINE bs == RequestedBuilders[k]
  <2>2. k \in 1 .. NP + ND + NA /\ SourceDenotes(mc.nodes, s, bs)
    BY <2>1 DEF ConfigDenotes
  <2>3. CASE bs = <<>>
    <3>1. DOMAIN s.builder.fields = {}
      BY <2>2, <2>3 DEF SourceDenotes
    <3>2. NodesOf(s.builder) = {}
      BY <3>1, RangeAt DEF NodesOf
    <3> QED
      BY <3>2
  <2>4. CASE bs # <<>>
    <3>1. HasExpressions(bs[1]) /\ BuilderDenotes(mc.nodes, s.builder, bs[1])
      BY <2>2, <2>4, RequestedIsBuilder DEF SourceDenotes
    <3> QED
      BY <1>1, <3>1, BuilderInNodes
  <2> QED
    BY <2>3, <2>4
<1>4. ASSUME NEW x \in Range(mc.reports) PROVE NodesOf(x.builder) \subseteq DOMAIN mc.nodes
  <2>1. PICK k \in DOMAIN mc.reports : x = mc.reports[k]
    BY RangeAt
  <2>2. /\ k \in 1 .. NR /\ k \in DOMAIN req.report_configs
        /\ BuilderDenotes(mc.nodes, x.builder, req.report_configs[k].builder)
    BY <2>1, Lengths, SeqFacts DEF ConfigDenotes, ReportDenotes, IsRequest
  <2>3. HasExpressions(req.report_configs[k].builder)
    BY <2>2, RangeMember DEF IsRequest
  <2> QED
    BY <1>1, <2>2, <2>3, BuilderInNodes
<1>5. ASSUME NEW t \in Range(mc.triggers) PROVE {t.selector, t.initialize} \subseteq 0 .. Len(mc.nodes)
  <2>1. PICK k \in DOMAIN mc.triggers : t = mc.triggers[k]
    BY RangeAt
  <2>2. /\ k \in DOMAIN req.triggers /\ TriggerDenotes(mc.nodes, t, req.triggers[k])
    BY <2>1, Lengths, SeqFacts DEF ConfigDenotes, IsRequest
  <2>3. IsExpression(req.triggers[k].selector) /\ IsExpression(req.triggers[k].initialize)
    BY <2>2, RangeMember DEF IsRequest
  <2> QED
    BY <1>1, <2>2, <2>3, IndexInNodes DEF TriggerDenotes
<1>6. \A b \in BuildersOf(mc) : NodesOf(b) \subseteq DOMAIN mc.nodes
  BY <1>3, <1>4 DEF BuildersOf
<1> QED
  BY <1>2, <1>5, <1>6

LEMMA TypesOK ==
  ASSUME SessionInv, RegistryInv, FlowOK
  PROVE  TypeOK
<1>1. result \in {"none", "collecting", "ok", "error", "panic"}
  BY DEF RegistryInv, CurrentRegistry, Registry, Answers
<1>2. \A e \in errs : e.list \in DOMAIN req /\ e.item \in DOMAIN req[e.list]
  <2>1. ItemLists \subseteq DOMAIN req
    BY DEF SessionInv, IsRequest, ItemLists
  <2> QED
    BY <2>1 DEF SessionInv, ErrsOK
<1>3. /\ pending \subseteq GraphNodes(fdSet)
      /\ localFiles \subseteq DOMAIN GlobalFiles \cup PathsOf(fdSet)
      /\ \A name \in DOMAIN types : types[name].path \in DOMAIN files[types[name].set]
  <2>1. CASE result = "none"
    <3>1. pending = {} /\ localFiles = {} /\ DOMAIN types = {}
      BY <2>1, EmptyFacts DEF RegistryInv, NoRegistry
    <3> QED
      BY <3>1
  <2>2. CASE result # "none"
    <3>1. CurrentRegistry
      BY <2>2 DEF RegistryInv
    <3>2. MadeOf(fdSet, pending, files[Len(files)]) /\ Resolvable(fdSet, pending, localFiles)
      BY <3>1 DEF CurrentRegistry, Registry
    <3>3. /\ pending \subseteq GraphNodes(fdSet)
          /\ localFiles \subseteq DOMAIN GlobalFiles \cup PathsOf(fdSet)
      BY <3>2 DEF MadeOf, Resolvable
    <3>4. \A name \in DOMAIN types : GoodEntry(files, types[name])
      BY <3>1 DEF CurrentRegistry, Registry, GoodTypes
    <3> QED
      BY <3>3, <3>4 DEF GoodEntry
  <2> QED
    BY <2>1, <2>2
<1>4. unpruned \subseteq DOMAIN shaken
  BY DEF RegistryInv
<1>5. UnderWay => ti.reports \subseteq DOMAIN mc.reports /\ ConfigDenotes(mc) /\ IsRequest(req)
  BY DEF RegistryInv, SessionInv
<1>6. (stage = "answered") = (answer # "none")
  BY DEF FlowOK
<1> QED
  BY <1>1, <1>2, <1>3, <1>4, <1>5, <1>6, ConfigInNodes DEF TypeOK, FlowOK

(* A request keeps its types from its arrival to the answer, whatever it has and  *)
(* whichever order the program takes: what its session, its registry and its      *)
(* configuration refer to is there (ToSession, compileSession, ExtendLocalTypes).     *)
THEOREM WellTyped == Spec => []TypeOK
<1>1. Init => FlowOK
  BY InitFlow
<1>2. FlowOK /\ [Next]_vars => FlowOK'
  BY NextFlow
<1>3. SessionInv /\ RegistryInv /\ FlowOK => TypeOK
  BY TypesOK
<1> QED
  BY <1>1, <1>2, <1>3, Registries, PTL DEF Spec

-----------------------------------------------------------------------------
(* Pruning of imports. *)

\* Which imports of a file are kept, of the files at their paths, if it uses the
\* types of the files at the paths in uses.
NeededImports(at, before, uses) ==
  {d \in Range(before.deps) : Reach({d}, Exports(at)) \cap (uses \cup PublicImports(before)) # {}}

\* The paths of what the kept messages of a file use.
Uses(path) == UNION {getMessageDeps(path, m) : m \in DOMAIN shaken[path].messages}

\* The imports of the kept file f, from those it has in each set.
ImportsOf(path, f, uses, isPruned) ==
  \A k \in DOMAIN files : path \in DOMAIN FilesIn(k) =>
    /\ PublicImports(f) = PublicImports(FilesIn(k)[path])
    /\ Range(f.deps) = IF isPruned THEN NeededImports(FilesIn(k), FilesIn(k)[path], uses)
                       ELSE Range(FilesIn(k)[path].deps)

IsPruned(path) == stage # "harvest" /\ path \notin unpruned

KnownPath(path) == \E k \in DOMAIN files : path \in DOMAIN FilesIn(k)

\* The set D of paths has the imports of path, as they are in each set.
WithImports(path, D) ==
  \A k \in DOMAIN files : path \in DOMAIN FilesIn(k) => Range(FilesIn(k)[path].deps) \subseteq D

PruningSound ==
  /\ \A path \in DOMAIN shaken : KnownPath(path)
  /\ \A path \in DOMAIN shaken : ImportsOf(path, shaken[path], Uses(path), IsPruned(path))
  /\ stage # "shaken" => \A path \in DOMAIN shaken : WithImports(path, DOMAIN shaken)

\* Files of one path are one file, and their imports are pruned by what they are.
PruningInv ==
  stage \in {"harvest", "prune", "shaken"} /\ ~MergedPaths => PruningSound

(* The last of some places of a list. *)
LEMMA MaxOf ==
  ASSUME NEW n \in Nat, NEW s \in SUBSET (1 .. n), s # {}
  PROVE  Max(s) \in s
<1> DEFINE B == {b \in Nat : \A y \in s : b >= y}
<1>1. B \in SUBSET Nat /\ n \in B
  OBVIOUS
<1>2. PICK b \in B : \A y \in B : ~(y < b)
  <2> HIDE DEF B
  <2> QED
    BY <1>1, Least
<1>3. b \in s
  <2> SUFFICES ASSUME b \notin s PROVE FALSE
    OBVIOUS
  <2>1. b \in Nat /\ \A y \in s : b > y
    BY <1>2
  <2>2. PICK y \in s : y \in 1 .. n
    OBVIOUS
  <2>3. b # 0 /\ b - 1 \in Nat
    BY <2>1, <2>2
  <2>4. \A z \in s : b - 1 >= z
    BY <2>1
  <2>5. b - 1 \in B
    BY <2>3, <2>4
  <2> QED
    BY <1>2, <2>1, <2>5
<1>4. b \in s /\ \A y \in s : b >= y
  BY <1>2, <1>3
<1> QED
  BY <1>4 DEF Max

(* A file is the same in all sets that have its path. *)
LEMMA OneFile ==
  ASSUME ~MergedPaths, NEW j \in DOMAIN files, NEW k \in DOMAIN files,
         NEW p, p \in DOMAIN FilesIn(j), p \in DOMAIN FilesIn(k)
  PROVE  FilesIn(j)[p] = FilesIn(k)[p]
<1>1. \A i : /\ DOMAIN FilesIn(i) = DOMAIN GlobalFiles \cup DOMAIN files[i]
             /\ p \in DOMAIN GlobalFiles => FilesIn(i)[p] = GlobalFiles[p]
             /\ p \in DOMAIN files[i] \ DOMAIN GlobalFiles => FilesIn(i)[p] = files[i][p]
  BY DEF FilesIn, Merge
<1>2. CASE p \in DOMAIN GlobalFiles
  BY <1>1, <1>2
<1>3. CASE p \notin DOMAIN GlobalFiles
  <2>1. p \in DOMAIN files[j] /\ p \in DOMAIN files[k]
    BY <1>1, <1>3
  <2>2. files[j][p] = files[k][p]
    BY <2>1, Zenon DEF MergedPaths
  <2> QED
    BY <1>1, <1>3, <2>1, <2>2
<1> QED
  BY <1>2, <1>3

(* The places of what is kept, counted anew: each has its own, and there is one   *)
(* for each number.                                                               *)
Once(kept, new) ==
  /\ \A i, j \in kept : new[i] = new[j] => i = j
  /\ \A c \in 1 .. Cardinality(kept) : \E i \in kept : new[i] = c

LEMMA CountedAnew ==
  ASSUME NEW n \in Nat, NEW kept, kept \subseteq 1 .. n,
         NEW new, new = [i \in kept |-> Cardinality({j \in kept : j <= i})]
  PROVE  Once(kept, new)
<1> DEFINE below(i) == {j \in kept : j <= i}
           C == Cardinality(kept)
<1>1. IsFiniteSet(1 .. n)
  BY FS_Interval
<1>2. IsFiniteSet(kept)
  BY <1>1, FS_Subset
<1>3. C \in Nat /\ \A i \in kept : new[i] \in 1 .. C
  BY Renumbered
<1>4. \A i \in kept : new[i] = Cardinality(below(i))
  <2> DEFINE g == [i \in kept |-> Cardinality(below(i))]
  <2>1. new = g
    BY Zenon
  <2>2. \A i \in kept : g[i] = Cardinality(below(i))
    BY Zenon
  <2> QED
    BY <2>1, <2>2, Zenon
<1>5. ASSUME NEW i \in kept, NEW j \in kept, i < j PROVE new[i] # new[j]
  <2>1. \A x \in kept : x \in Int
    OBVIOUS
  <2>6. \A x, y : x \in below(y) <=> x \in kept /\ x <= y
    BY Zenon
  <2>7. ~(j <= i) /\ j <= j /\ \A x \in Int : x <= i => x <= j
    BY <1>5, <2>1
  <2>3. below(j) \subseteq kept /\ below(i) \subseteq below(j) /\ j \in below(j) /\ j \notin below(i)
    <3> HIDE DEF below
    <3> QED
      BY <2>1, <2>6, <2>7, Zenon
  <2>2. new[i] = Cardinality(below(i)) /\ new[j] = Cardinality(below(j))
    BY <1>4
  <2> HIDE DEF below
  <2>4. IsFiniteSet(below(j))
    BY <1>2, <2>3, FS_Subset
  <2>5. Cardinality(below(i)) = Cardinality(below(j)) => below(j) = below(i)
    BY <2>3, <2>4, FS_Subset
  <2> QED
    BY <2>2, <2>3, <2>5
<1>6. \A i, j \in kept : new[i] = new[j] => i = j
  BY <1>5
<1>7. IsFiniteSet(1 .. C) /\ Cardinality(1 .. C) = C
  BY <1>3, FS_Interval
<1> HIDE DEF C
<1>8. new \in Injection(kept, 1 .. C)
  <2>1. new \in [kept -> 1 .. C]
    BY <1>3
  <2> QED
    BY <1>6, <2>1 DEF Injection, IsInjective
<1>9. new \in Surjection(kept, 1 .. C)
  BY <1>7, <1>8, FS_Injection DEF C
<1>10. \A c \in 1 .. C : \E i \in kept : new[i] = c
  BY <1>9 DEF Surjection
<1> QED
  BY <1>6, <1>10, Zenon DEF C, Once

(* A list of which some places are kept, in their order. *)
KeptAt(kept, new, s, t, c) ==
  \A i \in kept : new[i] = c => \E j \in kept : new[j] = c /\ t[c] = s[j]

Lists(kept, new, s, t) ==
  /\ \A i \in kept : new[i] \in DOMAIN t /\ t[new[i]] = s[i]
  /\ Range(t) = {s[i] : i \in kept}

LEMMA KeptPlaces ==
  ASSUME NEW s, IsSequence(s), NEW kept, kept \subseteq DOMAIN s,
         NEW new, new = [i \in kept |-> Cardinality({j \in kept : j <= i})],
         NEW t, DOMAIN t = 1 .. Cardinality(kept),
         \A c \in DOMAIN t : KeptAt(kept, new, s, t, c)
  PROVE  Lists(kept, new, s, t)
<1> DEFINE C == Cardinality(kept)
<1>1. PICK n : n = Len(s)
  OBVIOUS
<1>2. n \in Nat /\ kept \subseteq 1 .. n
  BY <1>1, SeqFacts
<1>3. C \in Nat /\ \A i \in kept : new[i] \in 1 .. C
  BY <1>2, Renumbered, Zenon
<1>4. /\ \A i, j \in kept : new[i] = new[j] => i = j
      /\ \A c \in 1 .. C : \E i \in kept : new[i] = c
  <2>1. Once(kept, new)
    BY <1>2, CountedAnew, Zenon
  <2> QED
    BY <2>1, Zenon DEF Once
<1> HIDE DEF C
<1>5. DOMAIN t = 1 .. C
  BY DEF C
<1>6. ASSUME NEW i \in kept PROVE new[i] \in DOMAIN t /\ t[new[i]] = s[i]
  <2>1. new[i] \in DOMAIN t
    BY <1>3, <1>5
  <2>2. PICK j \in kept : new[j] = new[i] /\ t[new[i]] = s[j]
    BY <2>1, Zenon DEF KeptAt
  <2> QED
    BY <1>4, <2>1, <2>2, Zenon
<1>7. ASSUME NEW x \in Range(t) PROVE x \in {s[i] : i \in kept}
  <2>1. PICK c \in DOMAIN t : x = t[c]
    BY Zenon DEF Range
  <2>2. PICK i \in kept : new[i] = c
    BY <1>4, <1>5, <2>1, Zenon
  <2>3. x = s[i]
    BY <1>6, <2>1, <2>2, Zenon
  <2> QED
    BY <2>3, Zenon
<1>8. ASSUME NEW x \in {s[i] : i \in kept} PROVE x \in Range(t)
  <2>1. PICK i \in kept : x = s[i]
    BY Zenon
  <2> QED
    BY <1>6, <2>1, RangeMember, Zenon
<1> QED
  BY <1>6, <1>7, <1>8, Zenon DEF Lists

(* What an import makes visible is the same in the files as they were. *)
LEMMA SameExports ==
  ASSUME CurrentRegistry, ShakenSound, PruningSound, stage # "shaken",
         NEW k \in DOMAIN files, NEW path \in DOMAIN shaken, path \in DOMAIN FilesIn(k),
         NEW d \in Range(FilesIn(k)[path].deps)
  PROVE  /\ Reach({d}, Exports(shaken)) = Reach({d}, Exports(FilesIn(k)))
         /\ d \in Reach({d}, Exports(FilesIn(k)))
<1> DEFINE at == FilesIn(k)
           L == DOMAIN shaken \cap DOMAIN at
           f == Exports(shaken)
           g == Exports(at)
<1>1. /\ IsFiniteSet(DOMAIN at)
      /\ \A p \in DOMAIN at : IsFile(at[p]) /\ Range(at[p].deps) \subseteq DOMAIN at
  BY FilesInSet
<1>2. /\ DOMAIN f = DOMAIN shaken /\ \A x \in DOMAIN shaken : f[x] = PublicImports(shaken[x])
      /\ DOMAIN g = DOMAIN at /\ \A x \in DOMAIN at : g[x] = PublicImports(at[x])
  BY DEF Exports
<1>3. \A x \in L : PublicImports(shaken[x]) = PublicImports(at[x])
  BY DEF PruningSound, ImportsOf
<1>4. \A x \in L : Range(at[x].deps) \subseteq DOMAIN shaken
  BY DEF PruningSound, WithImports
<1>5. \A x \in L : PublicImports(at[x]) \subseteq L
  BY <1>1, <1>4, PublicAreImports
<1>6. {d} \subseteq L
  BY <1>1, <1>4
<1> HIDE DEF f, g
<1>7. IsFiniteSet(DOMAIN f) /\ IsFiniteSet(DOMAIN g)
  <2>1. IsFiniteSet(DOMAIN shaken)
    BY DEF ShakenSound
  <2> QED
    BY <1>1, <1>2, <2>1, Zenon
<1>8. Reach({d}, f) = Reach({d}, g)
  <2>1. L \subseteq DOMAIN f /\ L \subseteq DOMAIN g /\ \A x \in L : f[x] = g[x] /\ f[x] \subseteq L
    BY <1>2, <1>3, <1>5
  <2> HIDE DEF L
  <2> QED
    BY <1>6, <1>7, <2>1, SameReach, Zenon
<1>9. {d} \subseteq Reach({d}, g)
  BY <1>7, ReachStarts
<1> QED
  BY <1>8, <1>9 DEF f, g

(* What PruneImports makes of a file that is not pruned. *)
LEMMA PrunedOnce ==
  ASSUME CurrentRegistry, ShakenSound, PruningSound, stage # "shaken",
         NEW path \in DOMAIN shaken, ~IsPruned(path), PruneImports(path)
  PROVE  /\ DOMAIN shaken' = DOMAIN shaken
         /\ \A p \in DOMAIN shaken \ {path} : shaken'[p] = shaken[p]
         /\ shaken'[path].messages = shaken[path].messages
         /\ ImportsOf(path, shaken'[path], Uses(path), TRUE)
<1> DEFINE file == shaken[path]
           kept == {i \in DOMAIN file.deps : Keeps(path, file.deps[i])}
           count(i) == Cardinality({j \in kept : j <= i})
           new == [i \in kept |-> count(i)]
           deps == [n \in 1 .. Cardinality(kept) |-> file.deps[CHOOSE i \in kept : count(i) = n]]
           public == {count(i) : i \in kept \cap file.public}
           f == [file EXCEPT !.deps = deps, !.public = public]
<1>1. shaken' = [shaken EXCEPT ![path].deps = deps, ![path].public = public]
  BY Zenon DEF PruneImports
<1>2. /\ DOMAIN file = ShakenFields /\ IsSequence(file.deps) /\ file.public \subseteq DOMAIN file.deps
  BY DEF ShakenSound, SoundShaken
<1>3. kept \subseteq DOMAIN file.deps
  OBVIOUS
<1>4. \A i \in DOMAIN file.deps : i \in kept <=> Keeps(path, file.deps[i])
  OBVIOUS
<1>5. /\ \A i \in kept : new[i] \in DOMAIN deps /\ deps[new[i]] = file.deps[i]
      /\ Range(deps) = {file.deps[i] : i \in kept}
  <2>1. new = [i \in kept |-> Cardinality({j \in kept : j <= i})]
    OBVIOUS
  <2>2. DOMAIN deps = 1 .. Cardinality(kept)
    OBVIOUS
  <2>3. \A c \in DOMAIN deps : deps[c] = file.deps[CHOOSE i \in kept : count(i) = c]
    OBVIOUS
  <2>4. \A i \in kept : new[i] = count(i)
    OBVIOUS
  <2> HIDE DEF deps, new, count, kept
  <2>5. ASSUME NEW c \in DOMAIN deps PROVE KeptAt(kept, new, file.deps, deps, c)
    <3> SUFFICES ASSUME NEW i \in kept, new[i] = c
                 PROVE  \E j \in kept : new[j] = c /\ deps[c] = file.deps[j]
      BY Zenon DEF KeptAt
    <3>1. count(i) = c
      BY <2>4
    <3>2. PICK j : j = (CHOOSE l \in kept : count(l) = c)
      OBVIOUS
    <3>3. j \in kept /\ count(j) = c
      BY <3>1, <3>2, Zenon
    <3>4. deps[c] = file.deps[j]
      BY <2>3, <3>2, Zenon
    <3> QED
      BY <2>4, <3>3, <3>4
  <2> HIDE DEF file
  <2>6. Lists(kept, new, file.deps, deps)
    BY <1>2, <1>3, <2>1, <2>2, <2>5, KeptPlaces, Zenon
  <2> QED
    BY <2>6, Zenon DEF Lists
<1>6. public = {new[i] : i \in kept \cap file.public}
  <2>1. \A i \in kept : new[i] = count(i)
    OBVIOUS
  <2> HIDE DEF kept, new, count
  <2> QED
    BY <2>1
<1> HIDE DEF deps, public, new, count, kept
<1>7. /\ DOMAIN shaken' = DOMAIN shaken /\ shaken'[path] = f
      /\ \A p \in DOMAIN shaken \ {path} : shaken'[p] = shaken[p]
  BY <1>1
<1>8. f.deps = deps /\ f.public = public /\ f.messages = file.messages
  BY <1>2 DEF ShakenFields
<1>9. RequiredDeps(path) = Uses(path) \cup PublicImports(file)
  BY Zenon DEF RequiredDeps, Uses
<1> HIDE DEF f
<1>10. ASSUME NEW k \in DOMAIN files, path \in DOMAIN FilesIn(k)
       PROVE  /\ PublicImports(f) = PublicImports(FilesIn(k)[path])
              /\ Range(f.deps) = NeededImports(FilesIn(k), FilesIn(k)[path], Uses(path))
  <2> DEFINE at == FilesIn(k)
             before == at[path]
             needed == Uses(path) \cup PublicImports(before)
  <2>1. PublicImports(file) = PublicImports(before) /\ Range(file.deps) = Range(before.deps)
    BY <1>10, Zenon DEF PruningSound, ImportsOf
  <2>2. ASSUME NEW d \in Range(before.deps)
        PROVE  /\ Keeps(path, d) <=> Reach({d}, Exports(at)) \cap needed # {}
               /\ d \in Reach({d}, Exports(at))
    <3>1. /\ Reach({d}, Exports(shaken)) = Reach({d}, Exports(at))
          /\ d \in Reach({d}, Exports(at))
      BY <1>10, SameExports
    <3>2. Keeps(path, d) <=> \E target \in needed : target \in Reach({d}, Exports(shaken))
      BY <1>9, <2>1, Zenon DEF Keeps, grantsVisibilityTo
    <3> QED
      BY <3>1, <3>2
  <2>3. NeededImports(at, before, Uses(path)) = {d \in Range(before.deps) : Reach({d}, Exports(at)) \cap needed # {}}
    BY Zenon DEF NeededImports
  <2>4. PublicImports(before) \subseteq needed
    OBVIOUS
  <2> HIDE DEF needed, before, at
  <2>5. \A i \in DOMAIN file.deps : file.deps[i] \in Range(before.deps)
    BY <2>1, RangeMember
  <2>6. ASSUME NEW d \in Range(deps) PROVE d \in NeededImports(at, before, Uses(path))
    BY <1>3, <1>4, <1>5, <2>2, <2>3, <2>5
  <2>7. ASSUME NEW d \in NeededImports(at, before, Uses(path)) PROVE d \in Range(deps)
    <3>1. d \in Range(file.deps) /\ Keeps(path, d)
      BY <2>1, <2>2, <2>3
    <3>2. PICK i \in DOMAIN file.deps : d = file.deps[i]
      BY <3>1, RangeAt
    <3> QED
      BY <1>4, <1>5, <3>1, <3>2
  <2>8. ASSUME NEW x \in PublicImports(f) PROVE x \in PublicImports(file)
    <3>1. PICK i \in public : x = deps[i]
      BY <1>8 DEF PublicImports
    <3>2. PICK j \in kept \cap file.public : i = new[j]
      BY <1>6, <3>1
    <3> QED
      BY <1>5, <3>1, <3>2 DEF PublicImports
  <2>9. ASSUME NEW x \in PublicImports(file) PROVE x \in PublicImports(f)
    <3>1. PICK i \in file.public : x = file.deps[i]
      BY DEF PublicImports
    <3>2. i \in DOMAIN file.deps
      BY <1>2
    <3>3. x \in Range(before.deps) /\ x \in needed
      BY <2>1, <2>4, <2>5, <3>1, <3>2
    <3>4. Keeps(path, x)
      BY <2>2, <3>3
    <3>5. i \in kept /\ new[i] \in public /\ deps[new[i]] = x
      BY <1>4, <1>5, <1>6, <3>1, <3>2, <3>4
    <3> QED
      BY <1>8, <3>5 DEF PublicImports
  <2>10. PublicImports(f) = PublicImports(before) /\ Range(f.deps) = NeededImports(at, before, Uses(path))
    BY <1>8, <2>1, <2>6, <2>7, <2>8, <2>9
  <2> QED
    BY <2>10 DEF before, at
<1>11. ImportsOf(path, f, Uses(path), TRUE)
  BY <1>10, Zenon DEF ImportsOf
<1> QED
  BY <1>7, <1>8, <1>11

(* A step leaves files of sets alone, and so what they use and export. *)
LEMMA SameUses ==
  ASSUME files' = files, NEW path, shaken'[path].messages = shaken[path].messages
  PROVE  Uses(path)' = Uses(path)
<1>1. \A k : FilesIn(k)' = FilesIn(k)
  BY DEF FilesIn
<1>2. \A k, file, f : Target(k, file, f)' = Target(k, file, f)
  BY <1>1, Zenon DEF Target
<1>3. \A m : getMessageDeps(path, m)' = getMessageDeps(path, m)
  BY <1>1, <1>2, Zenon DEF getMessageDeps
<1>4. Uses(path)' = UNION {getMessageDeps(path, m)' : m \in DOMAIN shaken'[path].messages}
  BY Zenon DEF Uses
<1> QED
  BY <1>3, <1>4, Zenon DEF Uses

LEMMA ImportsOfNext ==
  ASSUME files' = files, NEW path, NEW f, NEW u, NEW b,
         f = shaken'[path], u = Uses(path)', b = IsPruned(path)', ImportsOf(path, f, u, b)
  PROVE  ImportsOf(path, shaken[path], Uses(path), IsPruned(path))'
<1>1. \A k : FilesIn(k)' = FilesIn(k)
  BY DEF FilesIn
<1> QED
  BY <1>1, Zenon DEF ImportsOf

LEMMA KnownNext ==
  ASSUME files' = files
  PROVE  /\ \A path : KnownPath(path)' <=> KnownPath(path)
         /\ \A path, D : WithImports(path, D)' <=> WithImports(path, D')
         /\ MergedPaths' <=> MergedPaths
<1>1. \A k : FilesIn(k)' = FilesIn(k)
  BY DEF FilesIn
<1>2. \A path : KnownPath(path)' <=> KnownPath(path)
  BY <1>1 DEF KnownPath
<1>3. \A path, D : WithImports(path, D)' <=> WithImports(path, D')
  BY <1>1 DEF WithImports
<1>4. MergedPaths' <=> MergedPaths
  BY DEF MergedPaths
<1> QED
  BY <1>2, <1>3, <1>4

(* The files that come with a harvest have their imports. *)
LEMMA TouchedImports ==
  ASSUME CurrentRegistry, ShakenSound, ~MergedPaths, PruningSound, stage = "harvest",
         NEW k \in DOMAIN files, NEW paths, paths \subseteq DOMAIN FilesIn(k)
  PROVE  \A p \in DOMAIN getOrInit(k, paths) :
           /\ KnownPath(p) /\ WithImports(p, DOMAIN getOrInit(k, paths))
           /\ \A uses : ImportsOf(p, getOrInit(k, paths)[p], uses, FALSE)
<1> DEFINE at == FilesIn(k)
           imports == [p \in DOMAIN at \ DOMAIN shaken |-> Range(at[p].deps)]
           all == Reach(paths, imports)
           new == [p \in all |-> [deps |-> at[p].deps, public |-> at[p].public,
                                  packages |-> at[p].packages,
                                  messages |-> <<>>, enums |-> {}, proto |-> {}]]
           touched == Merge(shaken, new)
<1>1. getOrInit(k, paths) = touched
  BY Zenon DEF getOrInit
<1>2. IsFiniteSet(DOMAIN at) /\ \A p \in DOMAIN at : Range(at[p].deps) \subseteq DOMAIN at
  BY FilesInSet
<1>3. /\ all \subseteq DOMAIN at
      /\ \A p \in all \ DOMAIN shaken : Range(at[p].deps) \subseteq all
  <2>1. /\ DOMAIN imports = DOMAIN at \ DOMAIN shaken /\ Closed(DOMAIN at, imports)
        /\ \A p \in DOMAIN at \ DOMAIN shaken : imports[p] = Range(at[p].deps)
    BY <1>2 DEF Closed
  <2>2. IsFiniteSet(DOMAIN at \ DOMAIN shaken)
    BY <1>2, FS_Difference
  <2> HIDE DEF imports
  <2>3. all \subseteq DOMAIN at /\ Closed(all, imports)
    BY <2>1, <2>2, ReachStays, ReachCloses
  <2> HIDE DEF all
  <2> QED
    BY <2>1, <2>3 DEF Closed
<1> HIDE DEF all
<1>4. DOMAIN new = all /\ \A p \in all : new[p].deps = at[p].deps /\ new[p].public = at[p].public
  OBVIOUS
<1> HIDE DEF new
<1>5. /\ DOMAIN touched = DOMAIN shaken \cup all
      /\ \A x \in DOMAIN shaken : touched[x] = shaken[x]
      /\ \A x \in all \ DOMAIN shaken : touched[x] = new[x]
  BY <1>4 DEF Merge
<1> HIDE DEF touched
<1>6. \A path : ~IsPruned(path)
  BY DEF IsPruned
<1>7. ASSUME NEW p \in DOMAIN shaken
      PROVE  /\ KnownPath(p) /\ WithImports(p, DOMAIN touched)
             /\ \A uses : ImportsOf(p, touched[p], uses, FALSE)
  <2>1. KnownPath(p) /\ WithImports(p, DOMAIN shaken)
    BY DEF PruningSound
  <2>2. WithImports(p, DOMAIN touched)
    BY <1>5, <2>1 DEF WithImports
  <2>3. ImportsOf(p, shaken[p], Uses(p), FALSE)
    <3>1. IsPruned(p) = FALSE
      BY DEF IsPruned
    <3>2. ImportsOf(p, shaken[p], Uses(p), IsPruned(p))
      BY DEF PruningSound
    <3> QED
      BY <3>1, <3>2
  <2>4. \A uses : ImportsOf(p, shaken[p], uses, FALSE)
    BY <2>3 DEF ImportsOf
  <2> QED
    BY <1>5, <2>1, <2>2, <2>4
<1>8. ASSUME NEW p \in all \ DOMAIN shaken
      PROVE  /\ KnownPath(p) /\ WithImports(p, DOMAIN touched)
             /\ \A uses : ImportsOf(p, touched[p], uses, FALSE)
  <2>1. p \in DOMAIN FilesIn(k)
    BY <1>3
  <2>2. \A j \in DOMAIN files : p \in DOMAIN FilesIn(j) => FilesIn(j)[p] = at[p]
    BY <2>1, OneFile
  <2>3. Range(at[p].deps) \subseteq DOMAIN touched
    BY <1>3, <1>5
  <2>4. touched[p].deps = at[p].deps /\ touched[p].public = at[p].public
    BY <1>4, <1>5
  <2>5. PublicImports(touched[p]) = PublicImports(at[p])
    BY <2>4 DEF PublicImports
  <2> HIDE DEF at
  <2>6. KnownPath(p) /\ WithImports(p, DOMAIN touched)
    BY <2>1, <2>2, <2>3 DEF KnownPath, WithImports
  <2>7. \A uses : ImportsOf(p, touched[p], uses, FALSE)
    BY <2>2, <2>4, <2>5 DEF ImportsOf
  <2> QED
    BY <2>6, <2>7
<1> QED
  BY <1>1, <1>5, <1>7, <1>8

LEMMA HarvestedImports ==
  ASSUME CurrentRegistry, ShakenSound, ~MergedPaths, PruningSound, files' = files,
         stage = "harvest", stage' = "harvest", NEW k \in DOMAIN files,
         NEW messages, NEW enums, \A q \in messages \cup enums : PlaceIn(k, q),
         Harvest(k, messages, enums)
  PROVE  PruningSound'
<1> DEFINE touched == getOrInit(k, {p.path : p \in messages \cup enums})
<1>1. /\ DOMAIN shaken' = DOMAIN touched
      /\ \A p \in DOMAIN touched :
           \E x, y, z : shaken'[p] = [touched[p] EXCEPT !.messages = x, !.enums = y, !.proto = z]
  <2> DEFINE at(S, p) == {e.name : e \in {e \in S : e.path = p}}
             new(S, p, kind) == {[kind |-> kind, set |-> k, name |-> n] :
                                   n \in {n \in at(S, p) : ~InProto(p, kind, n)}}
             m(p) == Merge([n \in at(messages, p) |-> k], touched[p].messages)
             e(p) == touched[p].enums \cup at(enums, p)
             d(p) == touched[p].proto \cup new(messages, p, "message") \cup new(enums, p, "enum")
             more == [p \in DOMAIN touched |->
                        [touched[p] EXCEPT
                           !.messages = Merge([n \in at(messages, p) |-> k], @),
                           !.enums    = @ \cup at(enums, p),
                           !.proto    = @ \cup new(messages, p, "message") \cup new(enums, p, "enum")]]
  <2>1. shaken' = more
    BY Zenon DEF Harvest
  <2>2. more = [p \in DOMAIN touched |-> [touched[p] EXCEPT !.messages = m(p), !.enums = e(p), !.proto = d(p)]]
    <3> HIDE DEF touched, at, new
    <3> QED
      OBVIOUS
  <2> HIDE DEF more, m, e, d, touched
  <2>3. DOMAIN shaken' = DOMAIN touched
    BY <2>1, <2>2
  <2>4. ASSUME NEW p \in DOMAIN touched
        PROVE  \E x, y, z : shaken'[p] = [touched[p] EXCEPT !.messages = x, !.enums = y, !.proto = z]
    <3>1. shaken'[p] = [touched[p] EXCEPT !.messages = m(p), !.enums = e(p), !.proto = d(p)]
      BY <2>1, <2>2
    <3> QED
      BY <3>1, Zenon
  <2> QED
    BY <2>3, <2>4
<1>2. {p.path : p \in messages \cup enums} \subseteq DOMAIN FilesIn(k)
  BY DEF PlaceIn
<1>3. /\ \A p \in DOMAIN touched : DOMAIN touched[p] = ShakenFields
      /\ \A p \in DOMAIN touched :
           /\ KnownPath(p) /\ WithImports(p, DOMAIN touched)
           /\ \A uses : ImportsOf(p, touched[p], uses, FALSE)
  <2> DEFINE paths == {p.path : p \in messages \cup enums}
  <2>1. paths \subseteq DOMAIN FilesIn(k)
    BY <1>2
  <2> HIDE DEF paths
  <2>2. \A p \in DOMAIN getOrInit(k, paths) : SoundShaken(p, getOrInit(k, paths)[p])
    BY <2>1, TouchedSound
  <2>3. \A p \in DOMAIN getOrInit(k, paths) : DOMAIN getOrInit(k, paths)[p] = ShakenFields
    BY <2>2 DEF SoundShaken
  <2>4. \A p \in DOMAIN getOrInit(k, paths) :
          /\ KnownPath(p) /\ WithImports(p, DOMAIN getOrInit(k, paths))
          /\ \A uses : ImportsOf(p, getOrInit(k, paths)[p], uses, FALSE)
    BY <2>1, TouchedImports
  <2> QED
    BY <2>3, <2>4, Zenon DEF paths
<1> HIDE DEF touched
<1>5. DOMAIN shaken' = DOMAIN touched
  BY <1>1
<1>6. ASSUME NEW p \in DOMAIN touched
      PROVE  shaken'[p].deps = touched[p].deps /\ shaken'[p].public = touched[p].public
  <2>1. PICK x : \E y, z : shaken'[p] = [touched[p] EXCEPT !.messages = x, !.enums = y, !.proto = z]
    BY <1>1
  <2>2. PICK y : \E z : shaken'[p] = [touched[p] EXCEPT !.messages = x, !.enums = y, !.proto = z]
    BY <2>1
  <2>3. PICK z : shaken'[p] = [touched[p] EXCEPT !.messages = x, !.enums = y, !.proto = z]
    BY <2>2
  <2> QED
    BY <1>3, <2>3 DEF ShakenFields
<1>7. ASSUME NEW p \in DOMAIN touched
      PROVE  ImportsOf(p, shaken[p], Uses(p), IsPruned(p))'
  <2>1. PICK f : f = shaken'[p]
    OBVIOUS
  <2>2. PICK u : u = Uses(p)'
    OBVIOUS
  <2>3. PICK b : b = IsPruned(p)'
    OBVIOUS
  <2>4. b = FALSE
    BY <2>3 DEF IsPruned
  <2>5. ImportsOf(p, touched[p], u, FALSE)
    BY <1>3
  <2>6. PublicImports(f) = PublicImports(touched[p]) /\ f.deps = touched[p].deps
    BY <1>6, <2>1 DEF PublicImports
  <2>7. ImportsOf(p, f, u, b)
    BY <2>4, <2>5, <2>6 DEF ImportsOf
  <2> QED
    BY <2>1, <2>2, <2>3, <2>7, ImportsOfNext
<1>8. PICK D : D = DOMAIN shaken'
  OBVIOUS
<1>9. \A p \in D : KnownPath(p) /\ WithImports(p, D)
  BY <1>3, <1>5, <1>8
<1>10. \A p \in DOMAIN shaken' : KnownPath(p)' /\ WithImports(p, DOMAIN shaken)'
  BY <1>8, <1>9, KnownNext
<1> QED
  BY <1>5, <1>7, <1>10 DEF PruningSound

(* Pruning the imports of one file. *)
LEMMA PruningGoesOn ==
  ASSUME CurrentRegistry, ShakenSound, ~MergedPaths, PruningSound, files' = files,
         stage = "prune", stage' = "prune", unpruned \subseteq DOMAIN shaken,
         NEW path \in unpruned, PruneImports(path)
  PROVE  PruningSound'
<1>1. path \in DOMAIN shaken /\ ~IsPruned(path) /\ unpruned' = unpruned \ {path}
  BY DEF IsPruned, PruneImports
<1>2. /\ DOMAIN shaken' = DOMAIN shaken
      /\ \A p \in DOMAIN shaken \ {path} : shaken'[p] = shaken[p]
      /\ shaken'[path].messages = shaken[path].messages
      /\ ImportsOf(path, shaken'[path], Uses(path), TRUE)
  BY <1>1, PrunedOnce
<1>3. ASSUME NEW p \in DOMAIN shaken
      PROVE  ImportsOf(p, shaken[p], Uses(p), IsPruned(p))'
  <2>1. Uses(p)' = Uses(p)
    BY <1>2, SameUses
  <2>2. IsPruned(p)' = IF p = path THEN TRUE ELSE IsPruned(p)
    BY <1>1 DEF IsPruned
  <2>3. PICK f : f = shaken'[p]
    OBVIOUS
  <2>4. PICK u : u = Uses(p)
    OBVIOUS
  <2>5. PICK b : b = IsPruned(p)'
    OBVIOUS
  <2>6. ImportsOf(p, f, u, b)
    <3>1. CASE p = path
      <4>1. b = TRUE
        BY <2>2, <2>5, <3>1
      <4> QED
        BY <1>2, <2>3, <2>4, <3>1, <4>1
    <3>2. CASE p # path
      <4>1. b = IsPruned(p) /\ f = shaken[p]
        BY <1>2, <2>2, <2>3, <2>5, <3>2
      <4>2. ImportsOf(p, shaken[p], Uses(p), IsPruned(p))
        BY DEF PruningSound
      <4> QED
        BY <2>4, <4>1, <4>2
    <3> QED
      BY <3>1, <3>2
  <2> QED
    BY <2>1, <2>3, <2>4, <2>5, <2>6, ImportsOfNext
<1>4. PICK D : D = DOMAIN shaken'
  OBVIOUS
<1>5. \A p \in D : KnownPath(p) /\ WithImports(p, D)
  BY <1>2, <1>4 DEF PruningSound
<1>6. \A p \in DOMAIN shaken' : KnownPath(p)' /\ WithImports(p, DOMAIN shaken)'
  BY <1>4, <1>5, KnownNext
<1> QED
  BY <1>2, <1>3, <1>6 DEF PruningSound

(* What is harvested is left as it is until it is pruned, and what is pruned when *)
(* unused files go.                                                               *)
LEMMA PruningStays ==
  ASSUME PruningSound, files' = files, DOMAIN shaken' \subseteq DOMAIN shaken,
         \A p \in DOMAIN shaken' : shaken'[p] = shaken[p],
         \A p \in DOMAIN shaken' : IsPruned(p)' = IsPruned(p),
         stage' # "shaken" => stage # "shaken" /\ DOMAIN shaken' = DOMAIN shaken
  PROVE  PruningSound'
<1>1. ASSUME NEW p \in DOMAIN shaken'
      PROVE  ImportsOf(p, shaken[p], Uses(p), IsPruned(p))'
  <2>1. shaken'[p] = shaken[p] /\ shaken'[p].messages = shaken[p].messages
    OBVIOUS
  <2>2. Uses(p)' = Uses(p)
    BY <2>1, SameUses
  <2>3. PICK f : f = shaken[p]
    OBVIOUS
  <2>4. PICK u : u = Uses(p)
    OBVIOUS
  <2>5. PICK b : b = IsPruned(p)
    OBVIOUS
  <2>6. ImportsOf(p, f, u, b)
    BY <2>3, <2>4, <2>5 DEF PruningSound
  <2>7. IsPruned(p)' = IsPruned(p)
    OBVIOUS
  <2>8. f = shaken'[p] /\ u = Uses(p)' /\ b = IsPruned(p)'
    BY <2>1, <2>2, <2>3, <2>4, <2>5, <2>7
  <2> QED
    BY <2>6, <2>8, ImportsOfNext
<1>2. PICK D : D = DOMAIN shaken'
  OBVIOUS
<1>3. \A p \in D : KnownPath(p)
  BY <1>2 DEF PruningSound
<1>4. stage' # "shaken" => \A p \in D : WithImports(p, D)
  BY <1>2 DEF PruningSound
<1>5. \A p \in DOMAIN shaken' : KnownPath(p)'
  BY <1>2, <1>3, KnownNext
<1>6. stage' # "shaken" => \A p \in DOMAIN shaken' : WithImports(p, DOMAIN shaken)'
  BY <1>2, <1>4, KnownNext
<1> QED
  BY <1>1, <1>5, <1>6 DEF PruningSound

LEMMA NextPruning ==
  ASSUME SessionInv, InferenceInv, RegistryInv, PruningInv, [Next]_vars
  PROVE  PruningInv'
<1>1. CASE \/ Receive \/ RegistryExtended \/ RegistryFails
           \/ parseTriggers \/ parseDeprecatedSources \/ parseDataSources \/ parseAggregators
           \/ parseReportConfigs \/ FinishSession \/ CyclicDependency \/ Validated
           \/ initializeTypeRegistry \/ extendRegistryWithCustomDescriptors \/ RegisterNext
           \/ compileSession \/ Compiled \/ ReceiveConfig \/ ValidateCompiled \/ InferNext
           \/ SetDescriptors
  <2>1. stage' \notin {"harvest", "prune", "shaken"}
    BY <1>1
       DEF Receive, RegistryExtended, RegistryFails, parseTriggers, parseDeprecatedSources,
           parseDataSources, parseAggregators, parseReportConfigs, Parsing, FinishSession,
           CyclicDependency, Validated, Answer, initializeTypeRegistry,
           extendRegistryWithCustomDescriptors, RegisterNext, compileSession, Compiled,
           ReceiveConfig, ValidateCompiled, InferNext, SetDescriptors
  <2> QED
    BY <2>1 DEF PruningInv
<1>2. CASE UNCHANGED vars \/ Done
  <2>1. UNCHANGED <<files, shaken, unpruned, stage>>
    BY <1>2 DEF Done, vars, registryVars, shakerVars
  <2>2. \A p : IsPruned(p)' = IsPruned(p)
    BY <2>1 DEF IsPruned
  <2>3. MergedPaths' <=> MergedPaths
    BY <2>1, KnownNext
  <2> SUFFICES ASSUME stage \in {"harvest", "prune", "shaken"}, ~MergedPaths PROVE PruningSound'
    BY <2>1, <2>3 DEF PruningInv
  <2>4. PruningSound
    BY DEF PruningInv
  <2> QED
    BY <2>1, <2>2, <2>4, PruningStays
<1>3. CASE InferTriggers
  <2>1. stage' = "answered" \/ shaken' = <<>>
    BY <1>3 DEF InferTriggers, Answer
  <2>2. CASE shaken' = <<>>
    <3>1. DOMAIN shaken' = {}
      BY <2>2, EmptyFacts
    <3> QED
      BY <3>1 DEF PruningInv, PruningSound
  <2>3. CASE stage' = "answered"
    BY <2>3 DEF PruningInv
  <2> QED
    BY <2>1, <2>2, <2>3
<1>4. CASE HarvestNext \/ HarvestEnds \/ PruneNext \/ PruneEnds
  <2>1. UNCHANGED registryVars /\ stage \in {"harvest", "prune"}
    BY <1>4 DEF HarvestNext, HarvestEnds, PruneNext, PruneEnds
  <2>2. CurrentRegistry /\ ShakenSound /\ files' = files
    BY <2>1 DEF RegistryInv, RegistryDone, registryVars
  <2>3. MergedPaths' <=> MergedPaths
    BY <2>2, KnownNext
  <2> SUFFICES ASSUME ~MergedPaths PROVE PruningSound'
    BY <2>3 DEF PruningInv
  <2>4. PruningSound
    BY <2>1 DEF PruningInv
  <2>5. CASE HarvestNext
    <3>1. /\ stage = "harvest" /\ stage' = "harvest"
          /\ \/ \E name \in ti.messages : HarvestType("message", name)
             \/ \E name \in ti.enums : HarvestType("enum", name)
      BY <2>5, Zenon DEF HarvestNext
    <3>2. TypesFound
      BY <3>1 DEF RegistryInv
    <3>3. PICK kind \in {"message", "enum"} : \E name : Finds(kind, name) /\ HarvestType(kind, name)
      BY <3>1, <3>2 DEF TypesFound
    <3>4. PICK name : Finds(kind, name) /\ HarvestType(kind, name)
      BY <3>3
    <3>5. PICK k \in DOMAIN files : \E messages, enums :
            /\ \A q \in messages \cup enums : PlaceIn(k, q)
            /\ Harvest(k, messages, enums)
      BY <2>2, <3>4, HarvestPlaced
    <3>6. PICK messages, enums :
            /\ \A q \in messages \cup enums : PlaceIn(k, q)
            /\ Harvest(k, messages, enums)
      BY <3>5
    <3> QED
      BY <2>2, <2>4, <3>1, <3>6, HarvestedImports
  <2>6. CASE HarvestEnds
    <3>1. stage = "harvest" /\ stage' = "prune" /\ shaken' = shaken /\ unpruned' = DOMAIN shaken
      BY <2>6 DEF HarvestEnds, StartPruning
    <3>2. \A p \in DOMAIN shaken' : IsPruned(p)' = IsPruned(p)
      BY <3>1 DEF IsPruned
    <3> QED
      BY <2>2, <2>4, <3>1, <3>2, PruningStays
  <2>7. CASE PruneNext
    <3>1. stage = "prune" /\ stage' = "prune" /\ \E path \in unpruned : PruneImports(path)
      BY <2>7 DEF PruneNext, PruneImports
    <3>2. unpruned \subseteq DOMAIN shaken
      BY <3>1 DEF RegistryInv
    <3> QED
      BY <2>2, <2>4, <3>1, <3>2, PruningGoesOn
  <2>8. CASE PruneEnds
    <3>1. /\ stage = "prune" /\ stage' = "shaken" /\ unpruned = {} /\ unpruned' = unpruned
          /\ \E D : D \subseteq DOMAIN shaken /\ shaken' = [p \in D |-> shaken[p]]
      BY <2>8 DEF PruneEnds, PruneFiles
    <3>2. DOMAIN shaken' \subseteq DOMAIN shaken /\ \A p \in DOMAIN shaken' : shaken'[p] = shaken[p]
      BY <3>1
    <3>3. \A p \in DOMAIN shaken' : IsPruned(p)' = IsPruned(p)
      BY <3>1 DEF IsPruned
    <3> QED
      BY <2>2, <2>4, <3>1, <3>2, <3>3, PruningStays
  <2> QED
    BY <1>4, <2>5, <2>6, <2>7, <2>8
<1> QED
  BY <1>1, <1>2, <1>3, <1>4, Zenon DEF Next

(* Which imports of a file are kept depends on the types that its messages use,  *)
(* and on what its imports export in the files as they were: not on the files    *)
(* whose imports are pruned before or after it (pruneUnusedImports).             *)
THEOREM PruningOrder == Spec => []ImportsIndependentOfOrder
<1>1. Init => PruningInv
  BY DEF Init, PruningInv
<1>2. SessionInv /\ InferenceInv /\ RegistryInv /\ PruningInv /\ [Next]_vars => PruningInv'
  BY NextPruning
<1>3. RegistryInv /\ PruningInv => ImportsIndependentOfOrder
  <2> SUFFICES ASSUME RegistryInv, PruningInv, stage \in {"prune", "shaken"}, ~MergedPaths,
                      NEW path \in DOMAIN shaken \ unpruned
               PROVE  LET k      == Max({j \in DOMAIN files : path \in DOMAIN FilesIn(j)})
                          before == FilesIn(k)[path]
                          needed == (UNION {getMessageDeps(path, m) : m \in DOMAIN shaken[path].messages})
                                      \cup PublicImports(before)
                      IN  Range(shaken[path].deps) =
                            {d \in Range(before.deps) : Reach({d}, Exports(FilesIn(k))) \cap needed # {}}
    BY Zenon DEF ImportsIndependentOfOrder
  <2> DEFINE with == {j \in DOMAIN files : path \in DOMAIN FilesIn(j)}
             k == Max(with)
             before == FilesIn(k)[path]
             needed == (UNION {getMessageDeps(path, m) : m \in DOMAIN shaken[path].messages})
                         \cup PublicImports(before)
  <2>1. KnownPath(path) /\ ImportsOf(path, shaken[path], Uses(path), IsPruned(path))
    BY DEF PruningInv, PruningSound
  <2>2. CurrentRegistry
    BY DEF RegistryInv, RegistryDone
  <2>3. PICK n : n = Len(files)
    OBVIOUS
  <2>4. IsSequence(files)
    BY <2>2 DEF CurrentRegistry, Registry, SoundSets
  <2>5. n \in Nat /\ DOMAIN files = 1 .. n
    BY <2>3, <2>4, SeqFacts
  <2>6. with \in SUBSET (1 .. n) /\ with # {}
    BY <2>1, <2>5 DEF KnownPath
  <2>7. k \in DOMAIN files /\ path \in DOMAIN FilesIn(k)
    <3>1. k \in with
      <4> HIDE DEF with
      <4> QED
        BY <2>5, <2>6, MaxOf
    <3> HIDE DEF k
    <3> QED
      BY <3>1
  <2>8. IsPruned(path) = TRUE
    BY DEF IsPruned
  <2> HIDE DEF k, with
  <2>9. Range(shaken[path].deps) = NeededImports(FilesIn(k), before, Uses(path))
    BY <2>1, <2>7, <2>8 DEF ImportsOf
  <2>10. Range(shaken[path].deps)
           = {d \in Range(before.deps) : Reach({d}, Exports(FilesIn(k))) \cap needed # {}}
    BY <2>9, Zenon DEF NeededImports, Uses
  <2> QED
    BY <2>10, Zenon DEF k, with
<1> QED
  BY <1>1, <1>2, <1>3, Registries, PTL DEF Spec
=============================================================================
