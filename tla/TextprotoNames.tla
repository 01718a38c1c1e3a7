--------------------------- MODULE TextprotoNames ---------------------------
(***************************************************************************)
(* The names of the fields of a configuration as text (api_helpers.go).    *)
(* The v1 API reads and writes legacy names, the v2 API canonical ones.    *)
(* A text is the set of its nodes: each has the names from the root to it, *)
(* and a value, "" where the value does not matter.                        *)
(***************************************************************************)
EXTENDS Integers, Sequences, SequencesExt

pair(legacy, canonical) == [legacy |-> legacy, canonical |-> canonical]

\* Children come before their parents.
fieldRenames ==
  << pair(<<"publishers", "service_publisher", "service_name">>,
          <<"sources", "data_source", "source_identifier">>),
     pair(<<"expression_nodes", "field_leaf_node", "publisher_name">>,
          <<"expression_nodes", "field_leaf_node", "source_name">>),
     pair(<<"triggers", "data_trigger", "publisher_name">>,
          <<"triggers", "data_trigger", "source_name">>),
     pair(<<"metrics_report_configs", "publisher_name">>,
          <<"metrics_report_configs", "source_name">>),
     pair(<<"publishers", "service_publisher">>, <<"sources", "data_source">>),
     pair(<<"publishers", "aggregation_publisher">>, <<"sources", "aggregator">>),
     pair(<<"metrics_report_configs", "publishers">>, <<"metrics_report_configs", "sources">>),
     pair(<<"end_trigger_name">>, <<"stop_trigger_name">>),
     pair(<<"finish_trigger_name">>, <<"deactivate_trigger_name">>),
     pair(<<"publishers">>, <<"sources">>) >>

connectionType == pair(<<"publishers", "service_publisher", "connection_type">>,
                       <<"sources", "data_source", "connection_type">>)

RenameValue(nodes, path, from, to) ==
  {IF n.path = path /\ n.value = from THEN [n EXCEPT !.value = to] ELSE n : n \in nodes}

\* The node at the path gets the name, in its own path and in those below it.
RenameNode(nodes, path, name) ==
  {IF IsPrefix(path, n.path) THEN [n EXCEPT !.path[Len(path)] = name] ELSE n : n \in nodes}

\* Mutant: parents are renamed before their children.
applyParentsFirst(nodes) ==
  LET rename(ns, r) == RenameNode(ns, r.canonical, Last(r.legacy))
  IN  FoldLeft(rename, RenameValue(nodes, connectionType.canonical, "ON_DEMAND", "GETTER"),
               Reverse(fieldRenames))

applyCanonicalToLegacyRenames(nodes) ==
  LET rename(ns, r) == RenameNode(ns, r.canonical, Last(r.legacy))
  IN  FoldLeft(rename, RenameValue(nodes, connectionType.canonical, "ON_DEMAND", "GETTER"),
               fieldRenames)

\* Mutant: values keep their legacy names.
applyNamesOnly(nodes) ==
  LET rename(ns, r) == RenameNode(ns, r.legacy, Last(r.canonical))
  IN  FoldLeft(rename, nodes, fieldRenames)

applyLegacyToCanonicalRenames(nodes) ==
  LET rename(ns, r) == RenameNode(ns, r.legacy, Last(r.canonical))
  IN  FoldLeft(rename, RenameValue(nodes, connectionType.legacy, "GETTER", "ON_DEMAND"),
               fieldRenames)

\* No node is at a path of the other format.
validateFormat(nodes, version) ==
  \A r \in Range(fieldRenames), n \in nodes :
    n.path # (IF version = "v1" THEN r.canonical ELSE r.legacy)

\* The text of the v1 API has legacy names only.
textprotoMarshal(nodes, version) ==
  IF version = "v1" THEN applyCanonicalToLegacyRenames(nodes) ELSE nodes

\* What parseMetricsConfig hands on to the parser of the text.
CanonicalText(nodes, version) ==
  IF version = "v1" THEN applyLegacyToCanonicalRenames(nodes) ELSE nodes
=============================================================================
