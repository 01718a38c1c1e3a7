----------------------------- MODULE Validators -----------------------------
(***************************************************************************)
(* McValidator (mcg/validators): the checks on a whole MetricsConfig, one  *)
(* operator for each, and the shallow checks of its parts.  The validator  *)
(* reports every error; the model keeps whether there is one.              *)
(*                                                                         *)
(* Checks read mc and the registry made of its own descriptors.  Optional  *)
(* names are "" and optional types NoType; an index that is not set is 0,  *)
(* an index of a node starts at 1.  Whether ShallowValidateTrigger accepts *)
(* a trigger (TriggerParsing) is its component sound.                      *)
(***************************************************************************)
EXTENDS Inference

NamesOf(seq) == {x.name : x \in Range(seq)}
Unique(seq)  == Cardinality(NamesOf(seq)) = Len(seq)
Optional(name, names) == name = "" \/ name \in names

InRange(index) == index <= Len(mc.nodes)
Known(type)    == type = NoType \/ Finds("message", type)

unary == {"abs", "neg", "length", "!", "ceil", "floor", "round"}
IsUnaryOperator(op) == op \in unary

-----------------------------------------------------------------------------
(* Shallow checks. *)

shallowValidateProtoMessageBuilder(builder) ==
  /\ builder.type # NoType => builder.dotted
  /\ \A f \in Range(builder.fields) : f.name # "" /\ f.aggregation # ""

ShallowValidateMetricsReportConfig(report) ==
  /\ report.name # ""
  /\ report.triggers # <<>> \/ report.incomplete
  /\ shallowValidateProtoMessageBuilder(report.builder)

ShallowValidateAggregator(source) ==
  /\ source.triggers # <<>>
  /\ source.builder.given
  /\ shallowValidateProtoMessageBuilder(source.builder)

ShallowValidateDataSource(source) == source.identifier # NoType

ShallowValidateSource(source) ==
  /\ source.name # ""
  /\ \/ source.type = "aggregator" /\ ShallowValidateAggregator(source)
     \/ source.type = "data_source" /\ ShallowValidateDataSource(source)

-----------------------------------------------------------------------------
(* McValidator. *)

newMcValidator == Unique(mc.triggers) /\ Unique(mc.sources) /\ result = "ok"

validateUuid == mc.uuid = "valid"

validateLifecycle ==
  /\ mc.stop # "" => mc.start # ""
  /\ \A name \in {mc.start, mc.stop, mc.deactivate} : Optional(name, NamesOf(mc.triggers))

\* Parents are those of periodic and of conditional triggers.  The nodes of a
\* conditional trigger are not looked at.
validateTriggers(shallow) ==
  \A t \in Range(mc.triggers) :
    /\ shallow => t.sound
    /\ t.type \in {"periodic", "conditional"} => Range(t.parents) \subseteq NamesOf(mc.triggers)
    /\ t.type = "data" =>
         /\ Optional(t.source, NamesOf(mc.sources))
         /\ \A s \in Range(mc.sources) :
              s.name = t.source /\ s.type = "data_source" => s.connection # "ON_DEMAND"

fieldAssExpressionNodeReferenceIsValid(builder) ==
  \A index \in NodesOf(builder) : InRange(index)

validateSources(shallow) ==
  \A s \in Range(mc.sources) :
    /\ shallow => ShallowValidateSource(s)
    /\ s.name \notin NamesOf(mc.triggers)
    /\ s.type = "aggregator" =>
         /\ Range(s.triggers) \subseteq NamesOf(mc.triggers)
         /\ Known(s.builder.type)
         /\ fieldAssExpressionNodeReferenceIsValid(s.builder)

\* Triggers and sources are nodes of one graph, by their names.
Triggering(name) ==
  (UNION {IF t.type = "data" THEN {t.source} ELSE Range(t.parents) :
            t \in {t \in Range(mc.triggers) : t.name = name}})
    \cup UNION {Range(s.triggers) :
                  s \in {s \in Range(mc.sources) : s.type = "aggregator" /\ s.name = name}}

validateNoSourceTriggerCycles ==
  ~HasCycle([name \in NamesOf(mc.triggers) \cup NamesOf(mc.sources) |-> Triggering(name)])

validateMetricsReportConfigs(shallow) ==
  /\ Unique(mc.reports)
  /\ \A r \in Range(mc.reports) :
       /\ shallow => ShallowValidateMetricsReportConfig(r)
       /\ Range(r.triggers) \subseteq NamesOf(mc.triggers)
       /\ Known(r.builder.type)
       /\ fieldAssExpressionNodeReferenceIsValid(r.builder)

validateRightAndLeftChildReferences(n) ==
  /\ Len(n.args) = (IF IsUnaryOperator(n.name[1]) THEN 1 ELSE 2)
  /\ \A a \in Range(n.args) : InRange(a)

validateFieldLeafNode(n) ==
  /\ (n.name[1] = "") # (n.args = <<>>)
  /\ \A a \in Range(n.args) : InRange(a)
  /\ n.args = <<>> => n.name[1] \in NamesOf(mc.sources)

validateMessageBuilderNode(n) ==
  /\ "" \notin Range(n.names)
  /\ Cardinality(Range(n.names)) = Len(n.names)
  /\ \A a \in Range(n.args) : a # 0 /\ InRange(a)
  /\ Known(n.name)

validateExpressionNodes ==
  /\ \A n \in Range(mc.nodes) :
       /\ n.type = "combination" => validateRightAndLeftChildReferences(n)
       /\ n.type = "field"       => validateFieldLeafNode(n)
       /\ n.type = "builder"     => validateMessageBuilderNode(n)
  /\ ~HasCycle([i \in DOMAIN mc.nodes |-> Range(mc.nodes[i].args) \ {0}])

\* ExtractNodeIndex panics on a field assignment without an aggregation.
ExtractNodeIndexPanics ==
  LET builders == {s.builder : s \in {s \in Range(mc.sources) : s.type = "aggregator"}}
                    \cup {r.builder : r \in Range(mc.reports)}
  IN  \E b \in builders : \E f \in Range(b.fields) : f.aggregation = ""

validate(shallow) ==
  /\ newMcValidator
  /\ validateUuid
  /\ validateLifecycle
  /\ validateTriggers(shallow)
  /\ validateSources(shallow)
  /\ validateNoSourceTriggerCycles
  /\ validateExpressionNodes
  /\ validateMetricsReportConfigs(shallow)

validateMessageBuilderNodesSupported(nodes) == \A n \in Range(nodes) : n.type # "builder"
=============================================================================
