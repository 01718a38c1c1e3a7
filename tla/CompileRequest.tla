--------------------------- MODULE CompileRequest ---------------------------
(***************************************************************************)
(* A request to /compile or /validate, from its arrival to the answer: the *)
(* checks on the request, the registry of types, the session, the nodes of *)
(* the expressions, inference, tree shaking and validation.  The steps     *)
(* whose order the program leaves to a Go map or to names are actions of   *)
(* their own.                                                              *)
(*                                                                         *)
(* An expression is the sequence of nodes ExpressionParser makes of it,    *)
(* children first, the last one its root; Blank is a text that is not      *)
(* given, and one that does not parse has a node of type "malformed", as   *)
(* has the empty text of a conditional trigger, which is stashed like any. *)
(***************************************************************************)
EXTENDS Validators, TextprotoNames

CONSTANT Requests

Blank == <<>>

\* A node has the children that its kind has.
HasShape(n) ==
  /\ IsSequence(n.names)
  /\ n.type = "combination" => Len(n.args) = (IF IsUnaryOperator(n.name[1]) THEN 1 ELSE 2)
  /\ n.type = "builder"     => Len(n.args) = Len(n.names)

\* The nodes of an expression refer to nodes before them (ExpressionParser).
IsExpression(e) ==
  /\ IsSequence(e)
  /\ \A i \in DOMAIN e :
       /\ DOMAIN e[i] = {"type", "name", "names", "args", "value"}
       /\ e[i].args \in Seq(1 .. i - 1)
       /\ HasShape(e[i])

HasExpressions(builder) ==
  IsSequence(builder.fields) /\ \A f \in Range(builder.fields) : IsExpression(f.expression)

\* The sets of a request that parse, as one.
ParsedSet(protos) ==
  FlattenSeq([i \in DOMAIN protos |-> IF protos[i].parses THEN protos[i].set ELSE <<>>])

\* A request as the JSON of the two APIs can have it.  Only a data trigger has a
\* source or a publisher, and only a conditional one an expression.
IsRequest(r) ==
  /\ DOMAIN r = {"endpoint", "version", "binds", "format", "signals", "descriptor_protos",
                 "triggers", "publishers", "data_sources", "aggregators", "report_configs",
                 "start", "end", "stop", "finish", "deactivate", "service_type_hints",
                 "data_source_message_types", "parameters", "config", "text"}
  /\ r.version \in {"v1", "v2"}
  /\ IsSequence(r.triggers) /\ IsSequence(r.publishers) /\ IsSequence(r.data_sources)
  /\ IsSequence(r.aggregators) /\ IsSequence(r.report_configs)
  /\ \A t \in Range(r.triggers) :
       /\ t.type # "data" => t.source = "" /\ t.publisher = ""
       /\ IsExpression(t.selector) /\ IsExpression(t.initialize)
       /\ (t.selector # Blank) = (t.type = "conditional")
       /\ t.initialize # Blank => t.type = "conditional"
  /\ \A p \in Range(r.publishers) :
       /\ IsSequence(p.service) /\ IsSequence(p.aggregation)
       /\ \A a \in Range(p.aggregation) : HasExpressions(a.builder)
  /\ \A a \in Range(r.aggregators) : HasExpressions(a.builder)
  /\ \A a \in Range(r.report_configs) : HasExpressions(a.builder)

\* The sets of files it has.
FileSetsOf(r) == {r.signals.set, ParsedSet(r.descriptor_protos), r.config.descriptors}

ASSUME RequestsAssumption ==
  \A r \in Requests : IsRequest(r) /\ \A set \in FileSetsOf(r) : IsFileSet(set)

VARIABLES
  req,      \* the request
  stage,    \* what is done next
  sess,     \* Session
  errs,     \* the items of the request that were refused
  answer    \* "none", "ok", "bad_request" or "panic"

vars == <<registryVars, shakerVars, mc, ti, req, stage, sess, errs, answer>>

NoConfig ==
  [uuid |-> "", nodes |-> <<>>, triggers |-> <<>>, sources |-> <<>>, reports |-> <<>>,
   start |-> "", stop |-> "", deactivate |-> "", descriptors |-> <<>>]

\* getQueryParamBoolValue: what a parameter says, if it does not say anything
\* the default.  A value that is not a boolean is an error.
ParameterOf(name, default) ==
  IF req.parameters[name] = "absent" THEN default ELSE req.parameters[name] = "true"
Malformed(names) == \E name \in names : req.parameters[name] = "malformed"
\* What two of them change in the nodes is ExpressionParser's options.
CompileParameters ==
  {"ignore_validation", "no_inference", "disallow_comparison_operator_chaining",
   "enable_right_associative_exponentiation", "message_builder_node_supported"}

Answer(a) == answer' = a /\ stage' = "answered"

-----------------------------------------------------------------------------
(* The checks before the session. *)

\* Names of the two formats in one request.
CanonicalFields ==
  \/ req.data_sources # <<>> \/ req.aggregators # <<>>
  \/ req.stop # "" \/ req.deactivate # "" \/ req.data_source_message_types # <<>>
  \/ \E p \in Range(req.publishers) : \E s \in Range(p.service) : s.connection = "ON_DEMAND"
  \/ \E t \in Range(req.triggers) : t.type = "data" /\ t.source # ""

DeprecatedFields ==
  \/ req.publishers # <<>>
  \/ req.end # "" \/ req.finish # "" \/ req.service_type_hints # <<>>
  \/ \E s \in Range(req.data_sources) : s.connection = "GETTER"
  \/ \E t \in Range(req.triggers) : t.type = "data" /\ t.publisher # ""

ValidateCanonicalDataSource(source) == source.identifier # NoType
ValidateCanonicalAggregator(agg)    == agg.triggers # <<>>
ValidateDeprecated(p)               == Len(p.service) + Len(p.aggregation) = 1

\* Mutant: deprecated fields pass the check of the v2 API.
ValidateSchemaConsistencyOfV1 ==
  /\ \A s \in Range(req.data_sources) : ValidateCanonicalDataSource(s)
  /\ \A a \in Range(req.aggregators)  : ValidateCanonicalAggregator(a)
  /\ \A p \in Range(req.publishers)   : ValidateDeprecated(p)
  /\ req.version = "v1" => ~CanonicalFields

ValidateSchemaConsistency ==
  /\ \A s \in Range(req.data_sources) : ValidateCanonicalDataSource(s)
  /\ \A a \in Range(req.aggregators)  : ValidateCanonicalAggregator(a)
  /\ \A p \in Range(req.publishers)   : ValidateDeprecated(p)
  /\ req.version = "v1" => ~CanonicalFields
  /\ req.version = "v2" => ~DeprecatedFields

\* The body must bind, and an answer in a known format be asked for.
Receive ==
  /\ stage = "received" /\ req.endpoint = "compile"
  /\ IF req.binds /\ req.format # "other" /\ ValidateSchemaConsistency
     THEN stage' = "signals" /\ UNCHANGED answer
     ELSE Answer("bad_request")
  /\ UNCHANGED <<registryVars, shakerVars, mc, ti, req, sess, errs>>

-----------------------------------------------------------------------------
(* The registry of types: the catalog, in the request or in the cache, and   *)
(* the descriptors of the request.                                           *)

initializeTypeRegistry ==
  /\ stage = "signals" /\ result = "none"
  /\ IF req.signals.from \in {"inline", "cache"}
     THEN NewEnrichedTypeResolver(req.signals.set) /\ UNCHANGED <<stage, answer>>
     ELSE Answer("bad_request") /\ UNCHANGED registryVars
  /\ UNCHANGED <<shakerVars, mc, ti, req, sess, errs>>

Parsed == ParsedSet(req.descriptor_protos)

\* Sets that do not parse are left out, and reported in the end.
extendRegistryWithCustomDescriptors ==
  /\ stage = "signals" /\ result = "ok"
  /\ StartCollecting(Parsed, files)
  /\ errs'  = {[list |-> "descriptor_protos", item |-> i] :
                 i \in {i \in DOMAIN req.descriptor_protos : ~req.descriptor_protos[i].parses}}
  /\ stage' = "descriptors"
  /\ UNCHANGED <<types, shakerVars, mc, ti, req, sess, answer>>

RegistryExtended ==
  /\ stage = "descriptors" /\ result = "ok"
  /\ IF errs = {}
     THEN /\ sess'  = [sess EXCEPT !.descriptors = Parsed]
          /\ stage' = "triggers"
          /\ UNCHANGED answer
     ELSE Answer("bad_request") /\ UNCHANGED sess
  /\ UNCHANGED <<registryVars, shakerVars, mc, ti, req, errs>>

RegisterNext ==
  /\ stage \in {"signals", "descriptors", "validate"}
  /\ RegistryStep
  /\ UNCHANGED <<shakerVars, mc, ti, req, stage, sess, errs, answer>>

\* main.go recovers from the panic with an internal error.
RegistryFails ==
  /\ stage \in {"signals", "descriptors"}
  /\ \/ result = "error" /\ Answer("bad_request")
     \/ result = "panic" /\ Answer("panic")
  /\ UNCHANGED <<registryVars, shakerVars, mc, ti, req, sess, errs>>

-----------------------------------------------------------------------------
(* ToSession: the lists of the request, each item made into its proto.  An   *)
(* item that is refused is reported and left out; so is one whose name is    *)
(* taken.  Expressions are stashed on the way, whatever becomes of the item. *)

Made(s, ok, value) == [sess |-> s, ok |-> ok, value |-> value]

\* ExprStash: the position in the list is the session's id of the expression.
ExprStash(s, e) == [s EXCEPT !.expressions = Append(@, e)]
NextExpressionID(s) == Len(s.expressions) + 1

Aggregations == {"avg", "count", "delta", "max", "min", "none", "stddev", "sum", "vector"}

validateField(f) ==
  /\ f.maxLength => f.aggregation = "vector"
  /\ f.aggregation # ""
  /\ (f.aggregation = "count") = (f.expression = Blank)

\* A field assignment, unless one before it failed.
FieldAssignment(made, f) ==
  LET stashed == f.expression # Blank
      field   == [name |-> f.name, aggregation |-> f.aggregation,
                  node |-> IF stashed THEN NextExpressionID(made.sess) ELSE 0]
  IN  IF ~made.ok \/ ~validateField(f) THEN [made EXCEPT !.ok = FALSE]
      ELSE Made(IF stashed THEN ExprStash(made.sess, f.expression) ELSE made.sess,
                f.aggregation \in Aggregations,
                [made.value EXCEPT !.fields = Append(@, field)])

MessageBuilder(s, b) ==
  FoldLeft(FieldAssignment,
           Made(s, TRUE, [given |-> TRUE, type |-> b.type, dotted |-> b.dotted, fields |-> <<>>]),
           b.fields)

\* The names of a data trigger's source are two, of which it has one.
Trigger(s, t) ==
  LET begun  == IF t.initialize # Blank THEN ExprStash(s, t.initialize) ELSE s
      done   == IF t.selector # Blank THEN ExprStash(begun, t.selector) ELSE begun
  IN  Made(done, t.sound /\ (t.type = "data" => (t.source = "") # (t.publisher = "")),
           [name |-> t.name, type |-> t.type, parents |-> t.parents,
            source |-> IF t.source # "" THEN t.source ELSE t.publisher,
            condition |-> t.condition, options |-> t.options, sound |-> t.sound,
            initialize |-> IF t.initialize # Blank THEN NextExpressionID(s) ELSE 0,
            selector   |-> IF t.selector # Blank THEN NextExpressionID(begun) ELSE 0])

getConnectionType(c) ==
  CASE c = ""       -> "SUBSCRIPTION"
    [] c = "GETTER" -> "ON_DEMAND"
    [] OTHER        -> c
ConnectionTypes == {"SUBSCRIPTION", "ON_DEMAND"}

\* One form only; what is not given as bytes must parse as the type it names.
ConfigurationToProto(c) ==
  /\ Cardinality(c.forms) = 1
  /\ c.forms # {"value"} => Finds("message", c.type) /\ c.fits

DataSource(s, d) ==
  Made(s, /\ getConnectionType(d.connection) \in ConnectionTypes
          /\ d.interval \in {"none", "valid"}
          /\ \A c \in Range(d.configuration) : ConfigurationToProto(c),
       [name |-> d.name, type |-> "data_source", identifier |-> d.identifier,
        connection |-> getConnectionType(d.connection), triggers |-> <<>>,
        builder |-> [given |-> FALSE, type |-> NoType, dotted |-> FALSE, fields |-> <<>>]])

Aggregator(s, a) ==
  LET built == MessageBuilder(s, a.builder)
  IN  [built EXCEPT !.value = [name |-> a.name, type |-> "aggregator", identifier |-> NoType,
                               connection |-> "", triggers |-> a.triggers, builder |-> @]]

\* A publisher is one or the other, by the canonical name of each.
DeprecatedSource(s, p) ==
  IF p.aggregation # <<>>
  THEN Aggregator(s, [name |-> p.name, triggers |-> p.aggregation[1].triggers,
                      builder |-> p.aggregation[1].builder])
  ELSE DataSource(s, [p.service[1] EXCEPT !.name = p.name])

Report(s, r) ==
  LET built == MessageBuilder(s, r.builder)
  IN  [built EXCEPT !.value = [name |-> r.name, triggers |-> r.triggers,
                               incomplete |-> r.incomplete, builder |-> @]]

\* An item and what was made of it: into the session, or refused.
ParseItem(done, list, into, i, made, accepted) ==
  IF made.ok /\ accepted /\ made.value.name \notin NamesOf(made.sess[into])
  THEN [sess |-> [made.sess EXCEPT ![into] = Append(@, made.value)], errs |-> done.errs]
  ELSE [sess |-> made.sess, errs |-> done.errs \cup {[list |-> list, item |-> i]}]

\* One list after the other.
ParseList(list, into, toProto(_, _), shallow(_)) ==
  LET step(done, i) ==
        LET made == toProto(done.sess, req[list][i])
        IN  ParseItem(done, list, into, i, made, shallow(made.value))
      parsed == FoldLeft(step, [sess |-> sess, errs |-> errs], [i \in DOMAIN req[list] |-> i])
  IN  sess' = parsed.sess /\ errs' = parsed.errs

Parsing(list, next) ==
  /\ stage = list /\ stage' = next
  /\ UNCHANGED <<registryVars, shakerVars, mc, ti, req, answer>>

\* (ShallowValidateTrigger is in sound.)
parseTriggers ==
  /\ Parsing("triggers", "publishers")
  /\ ParseList("triggers", "triggers", Trigger, LAMBDA t : TRUE)

parseDeprecatedSources ==
  /\ Parsing("publishers", "data_sources")
  /\ ParseList("publishers", "sources", DeprecatedSource, ShallowValidateSource)

parseDataSources ==
  /\ Parsing("data_sources", "aggregators")
  /\ ParseList("data_sources", "sources", DataSource, ShallowValidateDataSource)

parseAggregators ==
  /\ Parsing("aggregators", "report_configs")
  /\ ParseList("aggregators", "sources", Aggregator, ShallowValidateAggregator)

parseReportConfigs ==
  /\ Parsing("report_configs", "session")
  /\ ParseList("report_configs", "reports", Report, ShallowValidateMetricsReportConfig)

\* The rest of ToSession, and the parameters of the request.
FinishSession ==
  /\ stage = "session"
  /\ IF errs # {} \/ Malformed(CompileParameters)
     THEN Answer("bad_request") /\ UNCHANGED sess
     ELSE /\ sess'  = [sess EXCEPT
               !.start      = req.start,
               !.stop       = IF req.stop # "" THEN req.stop ELSE req.end,
               !.deactivate = IF req.deactivate # "" THEN req.deactivate ELSE req.finish,
               !.hints      = IF req.service_type_hints # <<>> THEN req.service_type_hints
                              ELSE req.data_source_message_types]
          /\ stage' = "compile"
          /\ UNCHANGED answer
  /\ UNCHANGED <<registryVars, shakerVars, mc, ti, req, errs>>

-----------------------------------------------------------------------------
(* compileSession. *)

\* pushNode, for a node of an expression whose nodes so far are at the
\* positions at.
PushNode(done, n) ==
  LET node  == [n EXCEPT !.args = [a \in DOMAIN n.args |-> done.at[n.args[a]]]]
      known == {i \in DOMAIN done.nodes : done.nodes[i] = node}
  IN  IF known = {}
      THEN [nodes |-> Append(done.nodes, node), at |-> Append(done.at, Len(done.nodes) + 1)]
      ELSE [done EXCEPT !.at = Append(@, Min(known))]

\* Mutant: the expression is at the last node of the list.
compileOneAtTheEnd(done, e) ==
  LET pushed == FoldLeft(PushNode, [nodes |-> done.nodes, at |-> <<>>], e)
  IN  [nodes |-> pushed.nodes, mapping |-> Append(done.mapping, Len(pushed.nodes))]

compileOne(done, e) ==
  LET pushed == FoldLeft(PushNode, [nodes |-> done.nodes, at |-> <<>>], e)
  IN  [nodes |-> pushed.nodes, mapping |-> Append(done.mapping, Last(pushed.at))]

CompileAll(expressions) == FoldLeft(compileOne, [nodes |-> <<>>, mapping |-> <<>>], expressions)

Parses(e) == \A n \in Range(e) : n.type # "malformed"

\* Mutant: the ids of the session stay.
ReplacedInNone(mapping, builder) == builder

translateMessageBuilderExpressionNodes(mapping, builder) ==
  LET replaced(f) == IF f.node = 0 THEN f ELSE [f EXCEPT !.node = mapping[f.node]]
  IN  [builder EXCEPT !.fields = [i \in DOMAIN builder.fields |-> replaced(builder.fields[i])]]

\* The triggers, sources and reports in the order of their names, which the
\* model takes to be the order of the lists.
WithReplacedIndices(mapping, item) ==
  [item EXCEPT !.builder = translateMessageBuilderExpressionNodes(mapping, @)]

getTriggersWithReplacedIndices(mapping, t) ==
  LET replaced(id) == IF id = 0 THEN 0 ELSE mapping[id]
  IN  [t EXCEPT !.selector = replaced(@), !.initialize = replaced(@)]

Assembled(compiled) ==
  [uuid |-> "valid", nodes |-> compiled.nodes,
   triggers |-> [i \in DOMAIN sess.triggers |->
                   getTriggersWithReplacedIndices(compiled.mapping, sess.triggers[i])],
   sources  |-> [i \in DOMAIN sess.sources |->
                   WithReplacedIndices(compiled.mapping, sess.sources[i])],
   reports  |-> [i \in DOMAIN sess.reports |->
                   WithReplacedIndices(compiled.mapping, sess.reports[i])],
   start |-> sess.start, stop |-> sess.stop, deactivate |-> sess.deactivate,
   descriptors |-> IF ParameterOf("no_inference", FALSE) THEN sess.descriptors ELSE <<>>]

compileSession ==
  LET compiled == CompileAll(sess.expressions)
  IN  /\ stage = "compile"
      /\ IF ~(\A e \in Range(sess.expressions) : Parses(e))
         THEN Answer("bad_request") /\ UNCHANGED <<mc, ti>>
         ELSE IF /\ ~ParameterOf("message_builder_node_supported", TRUE)
                 /\ ~validateMessageBuilderNodesSupported(compiled.nodes)
         THEN Answer("bad_request") /\ UNCHANGED <<mc, ti>>
         ELSE /\ mc'    = Assembled(compiled)
              /\ ti'    = NewTypeInference(sess.hints)
              /\ stage' = IF ParameterOf("no_inference", FALSE) THEN "compiled" ELSE "infer"
              /\ UNCHANGED answer
      /\ UNCHANGED <<registryVars, shakerVars, req, sess, errs>>

-----------------------------------------------------------------------------
(* Inference and tree shaking. *)

CyclicDependency ==
  /\ stage = "infer" /\ CyclicInference
  /\ Answer("bad_request")
  /\ UNCHANGED <<registryVars, shakerVars, mc, ti, req, sess, errs>>

InferNext ==
  /\ stage = "infer" /\ ~CyclicInference
  /\ \/ \E n \in InferenceNodes : InferNode(n)
     \/ \E r \in DOMAIN mc.reports : InferReport(r)
  /\ UNCHANGED <<registryVars, shakerVars, req, stage, sess, errs, answer>>

\* After an error the tree shaking can only add another.
InferTriggers ==
  /\ stage = "infer" /\ ~CyclicInference
  /\ InferenceNodes \subseteq ti.inferred /\ DOMAIN mc.reports = ti.reports
  /\ IF ti.errs = {} /\ validateTriggerTypes
     THEN stage' = "harvest" /\ shaken' = <<>> /\ UNCHANGED <<unpruned, answer>>
     ELSE Answer("bad_request") /\ UNCHANGED shakerVars
  /\ UNCHANGED <<registryVars, mc, ti, req, sess, errs>>

\* Messages, then enums.
HarvestNext ==
  /\ stage = "harvest"
  /\ \/ \E name \in ti.messages :
          HarvestType("message", name) /\ ti' = [ti EXCEPT !.messages = @ \ {name}]
     \/ /\ ti.messages = {}
        /\ \E name \in ti.enums :
             HarvestType("enum", name) /\ ti' = [ti EXCEPT !.enums = @ \ {name}]
  /\ UNCHANGED <<registryVars, mc, req, stage, sess, errs, answer>>

HarvestEnds ==
  /\ stage = "harvest" /\ ti.messages \cup ti.enums = {}
  /\ StartPruning
  /\ stage' = "prune"
  /\ UNCHANGED <<registryVars, mc, ti, req, sess, errs, answer>>

PruneNext ==
  /\ stage = "prune"
  /\ \E path \in unpruned : PruneImports(path)
  /\ UNCHANGED <<registryVars, mc, ti, req, stage, sess, errs, answer>>

PruneEnds ==
  /\ stage = "prune" /\ PruneFiles
  /\ stage' = "shaken"
  /\ UNCHANGED <<registryVars, mc, ti, req, sess, errs, answer>>

SetDescriptors ==
  /\ stage = "shaken"
  /\ IF ShakenInCircles THEN Answer("bad_request") /\ UNCHANGED mc
     ELSE /\ mc'    = [mc EXCEPT !.descriptors = OutputDescriptors]
          /\ stage' = "compiled"
          /\ UNCHANGED answer
  /\ UNCHANGED <<registryVars, shakerVars, ti, req, sess, errs>>

Compiled ==
  /\ stage = "compiled"
  /\ IF ParameterOf("ignore_validation", FALSE)
     THEN Answer("ok") /\ UNCHANGED registryVars
     ELSE /\ NewEnrichedTypeResolver(mc.descriptors)
          /\ stage' = "validate"
          /\ UNCHANGED answer
  /\ UNCHANGED <<shakerVars, mc, ti, req, sess, errs>>

-----------------------------------------------------------------------------
(* Validation, at the end of /compile and as the whole of /validate, and     *)
(* /file_descriptors, which only takes the descriptors out.                  *)

TextNode(path, value) == [path |-> path, value |-> value]

\* The nodes of a text with canonical names that the renames are about.
TextOf(config) ==
  (UNION {{TextNode(<<"sources">>, ""), TextNode(<<"sources", s.type>>, "")}
            \cup IF s.type = "data_source"
                 THEN {TextNode(<<"sources", "data_source", "source_identifier">>, ""),
                       TextNode(<<"sources", "data_source", "connection_type">>, s.connection)}
                 ELSE {}
            : s \in Range(config.sources)})
    \cup {TextNode(<<"triggers", "data_trigger", "source_name">>, "") :
            t \in {t \in Range(config.triggers) : t.type = "data"}}
    \cup {TextNode(<<"expression_nodes", "field_leaf_node", "source_name">>, "") :
            n \in {n \in Range(config.nodes) : n.type = "field" /\ n.args = <<>>}}
    \cup {TextNode(<<"stop_trigger_name">>, "") : x \in {config.stop} \ {""}}
    \cup {TextNode(<<"deactivate_trigger_name">>, "") : x \in {config.deactivate} \ {""}}

\* A text whose names are not those of the message is an error of the parser.
ParsesAsConfig ==
  \/ req.format = "binary"
  \/ /\ req.format = "text"
     /\ validateFormat(req.text, req.version)
     /\ CanonicalText(req.text, req.version) = TextOf(req.config)

ReceiveConfig ==
  /\ stage = "received" /\ req.endpoint # "compile"
  /\ IF ~ParsesAsConfig THEN Answer("bad_request") /\ UNCHANGED <<mc, registryVars>>
     ELSE IF req.endpoint = "file_descriptors"
     THEN mc' = req.config /\ Answer("ok") /\ UNCHANGED registryVars
     ELSE IF \/ Malformed({"message_builder_node_supported"})
             \/ /\ ~ParameterOf("message_builder_node_supported", TRUE)
                /\ ~validateMessageBuilderNodesSupported(req.config.nodes)
     THEN Answer("bad_request") /\ UNCHANGED <<mc, registryVars>>
     ELSE /\ mc'    = req.config
          /\ stage' = "validate"
          /\ NewEnrichedTypeResolver(req.config.descriptors)
          /\ UNCHANGED answer
  /\ UNCHANGED <<shakerVars, ti, req, sess, errs>>

\* return_config is read after the validation.
Validated ==
  /\ stage = "validate"
  /\ \/ result = "panic" /\ Answer("panic")
     \/ result \in {"ok", "error"} /\ ExtractNodeIndexPanics /\ Answer("panic")
     \/ /\ result \in {"ok", "error"} /\ ~ExtractNodeIndexPanics
        /\ Answer(IF /\ validate(req.endpoint = "validate")
                     /\ req.endpoint = "validate" => ~Malformed({"return_config"})
                  THEN "ok" ELSE "bad_request")
  /\ UNCHANGED <<registryVars, shakerVars, mc, ti, req, sess, errs>>

\* A client sends what it was given to /validate, with the same parameters.
ValidateCompiled ==
  /\ stage = "answered" /\ answer = "ok" /\ req.endpoint = "compile"
  /\ req' = [req EXCEPT !.endpoint = "validate", !.config = mc,
                        !.text = textprotoMarshal(TextOf(mc), req.version)]
  /\ stage' = "received" /\ answer' = "none"
  /\ UNCHANGED <<registryVars, shakerVars, mc, ti, sess, errs>>

-----------------------------------------------------------------------------

Init ==
  /\ req \in Requests
  /\ stage = "received" /\ answer = "none" /\ errs = {}
  /\ sess = [triggers |-> <<>>, sources |-> <<>>, reports |-> <<>>, expressions |-> <<>>,
             start |-> "", stop |-> "", deactivate |-> "", hints |-> <<>>, descriptors |-> <<>>]
  /\ mc = NoConfig /\ ti = NewTypeInference(<<>>)
  /\ shaken = <<>> /\ unpruned = {}
  /\ fdSet = <<>> /\ pending = {} /\ files = <<>> /\ localFiles = {}
  /\ collected = [messages |-> <<>>, enums |-> <<>>] /\ types = <<>> /\ result = "none"

\* The request is answered.
Done == stage = "answered" /\ ~(answer = "ok" /\ req.endpoint = "compile") /\ UNCHANGED vars

Next ==
  \/ Receive \/ initializeTypeRegistry \/ extendRegistryWithCustomDescriptors
  \/ RegistryExtended \/ RegisterNext \/ RegistryFails
  \/ parseTriggers \/ parseDeprecatedSources \/ parseDataSources \/ parseAggregators
  \/ parseReportConfigs \/ FinishSession \/ compileSession
  \/ CyclicDependency \/ InferNext \/ InferTriggers
  \/ HarvestNext \/ HarvestEnds \/ PruneNext \/ PruneEnds \/ SetDescriptors \/ Compiled
  \/ ReceiveConfig \/ Validated \/ ValidateCompiled \/ Done

Spec == Init /\ [][Next]_vars
=============================================================================
