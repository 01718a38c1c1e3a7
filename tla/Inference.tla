------------------------------ MODULE Inference ------------------------------
(***************************************************************************)
(* Type inference (mcg/inference): the types of expressions, the schemas   *)
(* of message builders without a message type, and the types from the      *)
(* registry that the configuration needs.                                  *)
(*                                                                         *)
(* The nodes of expressions are those of ExpressionParser.  A builder has  *)
(* a type, whether it is written with its leading dot, and fields: each a  *)
(* name, an aggregation and a node, 0 if none.                             *)
(***************************************************************************)
EXTENDS TreeShaker

CONSTANT MsgBuilderNames   \* MsgBuilderNode<i>, the name made of each node index

VARIABLES
  mc,      \* the MetricsConfig
  ti       \* typeInference

AdhocPackage == "aaos.sdv.telemetry.adhoc"
Google       == "google.protobuf"
\* AdhocPackage and the packages around it, as names.
AdhocPackages ==
  {<<"", "aaos">>, <<"aaos", "sdv">>, <<"aaos.sdv", "telemetry">>, <<"aaos.sdv.telemetry", "adhoc">>}
AnyType      == <<Google, "Any">>
AnyPath      == "google/protobuf/any.proto"

ASSUME AnyPathAssumption == AnyPath \in GooglePaths

\* What getDescriptorProto and the sets of referenced types start from.
NewTypeInference(dataSourceMessageTypes) ==
  [dataSourceMessageTypes |-> dataSourceMessageTypes,
   adhoc    |-> <<>>,   \* the messages of adhocDescriptor
   deps     |-> {},     \* its dependencies
   messages |-> {},     \* referencedMessages
   enums    |-> {},     \* referencedEnums
   inferred |-> {},     \* the nodes of the inference graph that are done
   reports  |-> {},     \* the reports that are done
   errs     |-> {}]

-----------------------------------------------------------------------------
(* The inference graph: sources and builder nodes, and what they refer to.   *)

SourceName(name)          == [source |-> name, node |-> 0]
MessageBuilderNode(index) == [source |-> "", node |-> index]

IsBuilder(i) == i \in DOMAIN mc.nodes /\ mc.nodes[i].type = "builder"

\* The search through an expression stops at a builder.
findDeps(root) ==
  LET next  == [i \in DOMAIN mc.nodes |-> IF IsBuilder(i) THEN {} ELSE Range(mc.nodes[i].args)]
      found == Reach({root}, next) \cap DOMAIN mc.nodes
  IN  {MessageBuilderNode(i) : i \in {i \in found : IsBuilder(i)}}
        \cup {SourceName(mc.nodes[i].name[1]) :
                i \in {i \in found : mc.nodes[i].type = "field" /\ mc.nodes[i].args = <<>>}}

NodesOf(builder) == {f.node : f \in Range(builder.fields)} \ {0}

InferenceDeps(n) ==
  UNION {findDeps(i) : i \in
           IF n.node # 0 THEN Range(mc.nodes[n.node].args)
           ELSE UNION {NodesOf(s.builder) : s \in {s \in Range(mc.sources) : s.name = n.source}}}

InferenceNodes ==
  LET declared == {SourceName(s.name) : s \in Range(mc.sources)}
                    \cup {MessageBuilderNode(i) : i \in {i \in DOMAIN mc.nodes : IsBuilder(i)}}
  IN  declared \cup UNION {InferenceDeps(n) : n \in declared}

CyclicInference == HasCycle([n \in InferenceNodes |-> InferenceDeps(n)])

-----------------------------------------------------------------------------
(* Types in the output. *)

findAdhocMessage(name) == {m \in Range(ti.adhoc) : name = <<AdhocPackage, m.name>>}

IsTypeInOutputDescriptors(name) ==
  \/ name[1] = Google
  \/ findAdhocMessage(name) # {}
  \/ name \in ti.messages

\* getDescriptorProto: the fields of a message, if it is known.
FieldsOf(name) ==
  IF findAdhocMessage(name) # {} THEN (CHOOSE m \in findAdhocMessage(name) : TRUE).fields
  ELSE IF Finds("message", name) THEN EntryOf("message", name).def.fields
  ELSE <<>>

-----------------------------------------------------------------------------
(* ExpressionResolver.  A type that is not resolved says which sources and   *)
(* builder nodes were not inferred yet.                                      *)

Resolved(type, name, repeated) ==
  [ok |-> TRUE, type |-> type, typeName |-> name, repeated |-> repeated, missing |-> {}]
Scalar(type) == Resolved(type, NoType, FALSE)
Unresolved(missing) ==
  [ok |-> FALSE, type |-> "none", typeName |-> NoType, repeated |-> FALSE, missing |-> missing]

isInt(t)     == t.type \in {"int32", "int64", "enum"}
isNumeric(t) == isInt(t) \/ t.type \in {"float", "double"}

getSourceMessageName(name) ==
  LET found == {s \in Range(mc.sources) : s.name = name}
      s     == CHOOSE s \in found : TRUE
      hints == ti.dataSourceMessageTypes
  IN  IF found = {} THEN Unresolved({})
      ELSE IF s.type = "data_source"
           THEN Resolved("message", IF s.identifier \in DOMAIN hints THEN hints[s.identifier]
                                    ELSE s.identifier, FALSE)
      ELSE IF s.builder.type = NoType THEN Unresolved({SourceName(name)})
      ELSE Resolved("message", s.builder.type, FALSE)

\* A field of a message, which must not be repeated.
resolveField(t, name) ==
  LET found == {f \in Range(FieldsOf(t.typeName)) : f.name = name}
      f     == CHOOSE f \in found : TRUE
  IN  IF ~t.ok THEN t
      ELSE IF t.type # "message" \/ t.repeated THEN Unresolved({})
      ELSE IF found = {} THEN Unresolved({})
      ELSE Resolved(f.type, f.typeName, f.repeated)

resolveFieldLeafNode(n, of) ==
  LET base == IF n.args = <<>> THEN getSourceMessageName(n.name[1]) ELSE of[1]
  IN  FoldLeft(resolveField, base, n.names)

Failing(of) == {i \in DOMAIN of : ~of[i].ok}

resolveArithExpressions(op, of) ==
  CASE op = "/" -> Scalar("double")
    [] op = "%" -> Scalar("int64")
    [] OTHER    ->
         IF Failing(of) # {} THEN of[Min(Failing(of))]
         ELSE IF \E i \in DOMAIN of : ~isNumeric(of[i]) THEN Unresolved({})
         ELSE IF op # "**" /\ \A i \in DOMAIN of : isInt(of[i]) THEN Scalar("int64")
         ELSE Scalar("double")

resolveListExpressions(op, of) ==
  IF ~of[1].ok THEN of[1]
  ELSE IF ~of[1].repeated THEN Unresolved({})
  ELSE IF op = "length" THEN Scalar("int64")
  ELSE IF ~of[2].ok THEN of[2]
  ELSE IF ~isInt(of[2]) THEN Unresolved({})
  ELSE [of[1] EXCEPT !.repeated = FALSE]

resolveCombinationNode(op, of) ==
  CASE op \in {"floor", "ceil", "round"}                    -> Scalar("int64")
    [] op \in {"+", "-", "*", "**", "/", "%", "abs", "neg"} -> resolveArithExpressions(op, of)
    [] op \in {"length", "subscript"}                       -> resolveListExpressions(op, of)
    [] OTHER                                                -> Scalar("bool")

\* The type of an expression, from those of the nodes before it.
Resolve(index) ==
  LET type[i \in DOMAIN mc.nodes] ==
        LET n  == mc.nodes[i]
            of == [a \in DOMAIN n.args |-> type[n.args[a]]]
        IN  CASE n.type = "field"       -> resolveFieldLeafNode(n, of)
              [] n.type = "combination" -> resolveCombinationNode(n.name[1], of)
              [] n.type = "timestamp"   -> Scalar("int64")
              [] n.type = "builder"     -> IF n.name = NoType THEN Unresolved({MessageBuilderNode(i)})
                                           ELSE Resolved("message", n.name, FALSE)
              [] OTHER                  -> Scalar(n.type)
  IN  type[index]

-----------------------------------------------------------------------------
(* The field of a schema. *)

\* A message that is not in the output becomes an Any.
normalized(t) ==
  IF t.type = "message" /\ ~IsTypeInOutputDescriptors(t.typeName)
  THEN [t EXCEPT !.typeName = AnyType]
  ELSE IF t.type = "enum" /\ ~Finds("enum", t.typeName) THEN Unresolved({})
  ELSE t

\* The files the schema then needs, by the type as it was resolved, and the enums.
trackedDeps(t) ==
  IF t.type = "message" /\ ~IsTypeInOutputDescriptors(t.typeName) THEN {AnyPath}
  ELSE IF t.type \in {"message", "enum"} /\ Finds(t.type, t.typeName)
  THEN {EntryOf(t.type, t.typeName).path} ELSE {}

trackedEnums(t) == IF t.type = "enum" THEN {t.typeName} ELSE {}

\* What the aggregation makes of a type.
Aggregated(aggregation, t) ==
  CASE aggregation = "count"             -> Scalar("int32")
    [] aggregation \in {"avg", "stddev"} -> Scalar("double")
    [] aggregation = "vector"            ->
         IF t.ok /\ t.repeated THEN Unresolved({}) ELSE [t EXCEPT !.repeated = t.ok]
    [] OTHER -> t

\* getFieldDescriptorFromAssignment.
FieldType(fa) == Aggregated(fa.aggregation, normalized(Resolve(fa.node)))
AssignmentDeps(fa) ==
  IF fa.aggregation \in {"count", "avg", "stddev"} THEN {} ELSE trackedDeps(Resolve(fa.node))

\* Tracking comes before the refusal of a repeated vector, whose error ends
\* the inference anyway.
SchemaOf(fields, t) ==
  [ok      |-> \A i \in DOMAIN t : t[i].ok,
   fields  |-> [i \in DOMAIN t |-> [name |-> fields[i].name, type |-> t[i].type,
                                    typeName |-> t[i].typeName, repeated |-> t[i].repeated]],
   deps    |-> UNION {AssignmentDeps(fields[i]) : i \in DOMAIN t},
   enums   |-> UNION {trackedEnums(t[i]) : i \in DOMAIN t},
   missing |-> UNION {t[i].missing : i \in DOMAIN t}]

Schema(fields) == SchemaOf(fields, [i \in DOMAIN fields |-> FieldType(fields[i])])

-----------------------------------------------------------------------------
(* Message builders.  What becomes of ti, and the type the builder gets.     *)

Erroneous(of, missing) == [ti EXCEPT !.errs = @ \cup {[of |-> of, missing |-> missing]}]

\* Mutant: messages whose fields have the same names are taken for equal.
AddOrDeduplicateByNames(name, schema) ==
  LET names(fields) == [i \in DOMAIN fields |-> fields[i].name]
      identical == {m \in Range(ti.adhoc) : names(m.fields) = names(schema.fields)}
  IN  IF identical = {} THEN <<[name |-> name, fields |-> schema.fields], TRUE>>
      ELSE <<CHOOSE m \in identical : TRUE, FALSE>>

\* The message of the schema: an equal one, whatever its name, or a new one.
AddOrDeduplicateAdhocMessage(name, schema) ==
  LET identical == {m \in Range(ti.adhoc) : m.fields = schema.fields}
  IN  IF identical = {} THEN <<[name |-> name, fields |-> schema.fields], TRUE>>
      ELSE <<CHOOSE m \in identical : TRUE, FALSE>>

registerSchema(of, name, schema) ==
  LET message == AddOrDeduplicateAdhocMessage(name, schema)
  IN  IF schema.ok
      THEN [ti   |-> [ti EXCEPT !.adhoc = IF message[2] THEN Append(@, message[1]) ELSE @,
                                !.deps  = @ \cup schema.deps,
                                !.enums = @ \cup schema.enums],
            type |-> <<AdhocPackage, message[1].name>>]
      ELSE [ti |-> Erroneous(of, schema.missing), type |-> NoType]

validatePredefinedMessageType(of, type) ==
  [ti   |-> IF ~Finds("message", type) THEN Erroneous(of, {})
            ELSE IF IsTypeInOutputDescriptors(type) THEN ti
            ELSE [ti EXCEPT !.messages = @ \cup {type}],
   type |-> type]

generateSchema(of, name, fields) == registerSchema(of, name, Schema(fields))

\* Of an aggregator or a report.  If there is a message with its name already,
\* generateAndRegisterAdhocSchema returns before it sets the type.
processMessageBuilder(of, name, builder) ==
  IF builder.type # NoType THEN validatePredefinedMessageType(of, builder.type)
  ELSE IF IsTypeInOutputDescriptors(<<AdhocPackage, name>>)
       THEN [ti |-> ti, type |-> NoType]
  ELSE generateSchema(of, name, builder.fields)

\* Of an expression node: here the type is set first.
processExpressionNodeMessageBuilder(i) ==
  LET n    == mc.nodes[i]
      name == MsgBuilderNames[i]
      fas  == [f \in DOMAIN n.names |->
                 [name |-> n.names[f], aggregation |-> "none", node |-> n.args[f]]]
      of   == MessageBuilderNode(i)
  IN  IF n.name # NoType THEN validatePredefinedMessageType(of, n.name)
      ELSE IF IsTypeInOutputDescriptors(<<AdhocPackage, name>>)
           THEN [ti |-> ti, type |-> <<AdhocPackage, name>>]
      ELSE generateSchema(of, name, fas)

-----------------------------------------------------------------------------
(* infer: in the order of the dependencies, then the reports.                *)

\* Mutant: dependencies are not waited for.
ReadyInAnyOrder(n) == n \in InferenceNodes \ ti.inferred

Ready(n) == n \in InferenceNodes \ ti.inferred /\ InferenceDeps(n) \subseteq ti.inferred

\* The type of a builder is written with its leading dot.
Typing(builder, type) ==
  [builder EXCEPT !.type = type, !.dotted = @ \/ builder.type = NoType]

Aggregators(name) ==
  {k \in DOMAIN mc.sources : mc.sources[k].name = name /\ mc.sources[k].type = "aggregator"}

InferNode(n) ==
  /\ Ready(n)
  /\ \/ /\ n.node # 0
        /\ \E built \in {processExpressionNodeMessageBuilder(n.node)} :
             /\ ti' = [built.ti EXCEPT !.inferred = @ \cup {n}]
             /\ mc' = [mc EXCEPT !.nodes[n.node].name = built.type]
     \/ /\ n.node = 0 /\ Aggregators(n.source) = {}
        /\ ti' = [ti EXCEPT !.inferred = @ \cup {n}]
        /\ UNCHANGED mc
     \/ /\ n.node = 0
        /\ \E k \in Aggregators(n.source) :
             \E built \in {processMessageBuilder(n, n.source, mc.sources[k].builder)} :
               /\ ti' = [built.ti EXCEPT !.inferred = @ \cup {n}]
               /\ mc' = [mc EXCEPT !.sources[k].builder = Typing(@, built.type)]

InferReport(r) ==
  /\ InferenceNodes \subseteq ti.inferred
  /\ r \in DOMAIN mc.reports \ ti.reports
  /\ \E built \in {processMessageBuilder([source |-> mc.reports[r].name, node |-> -1],
                                          mc.reports[r].name, mc.reports[r].builder)} :
       /\ ti' = [built.ti EXCEPT !.reports = @ \cup {r}]
       /\ mc' = [mc EXCEPT !.reports[r].builder = Typing(@, built.type)]

\* validateTriggerTypes: what a trigger is initialized with fits its selector.
CompatibleTypes(t, selector, initialize) ==
  /\ selector.ok /\ initialize.ok
  /\ \/ isNumeric(selector) /\ isNumeric(initialize)
     \/ selector.type = "bool" /\ initialize.type = "bool"
     \/ /\ t.condition = "all_changes" /\ ~t.options
        /\ selector.type = initialize.type
        /\ selector.type = "message" => selector.typeName = initialize.typeName

validateTriggerTypes ==
  \A t \in Range(mc.triggers) :
    t.type = "conditional" /\ t.selector # 0 /\ t.initialize # 0 =>
      CompatibleTypes(t, Resolve(t.selector), Resolve(t.initialize))

\* The descriptors of the configuration: what is kept, and the schemas.
adhocFile ==
  [path |-> "adhoc.proto", deps |-> SetToSeq(ti.deps), public |-> {}, enums |-> <<>>,
   packages |-> AdhocPackages, names |-> {},
   messages |-> [i \in DOMAIN ti.adhoc |->
                   [name |-> <<AdhocPackage, ti.adhoc[i].name>>,
                    root |-> <<AdhocPackage, ti.adhoc[i].name>>,
                    fields |-> ti.adhoc[i].fields]]]

OutputDescriptors ==
  SetToSeq({ShakenFile(p) : p \in DOMAIN shaken})
    \o (IF ti.adhoc = <<>> /\ ti.deps = {} THEN <<>> ELSE <<adhocFile>>)
=============================================================================
