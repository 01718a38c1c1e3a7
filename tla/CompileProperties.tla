------------------------- MODULE CompileProperties -------------------------
(* What holds of a request to /compile and of the configuration it gets.     *)
EXTENDS CompileRequest

-----------------------------------------------------------------------------
(* Types. *)

Stages ==
  {"received", "signals", "descriptors", "triggers", "publishers", "data_sources", "aggregators",
   "report_configs", "session", "compile", "infer", "harvest", "prune", "shaken", "compiled",
   "validate", "answered"}

\* The request is compiled, and the configuration is under way.
UnderWay ==
  req.endpoint = "compile"
    /\ stage \in {"infer", "harvest", "prune", "shaken", "compiled", "validate"}

BuildersOf(config) ==
  {s.builder : s \in Range(config.sources)} \cup {r.builder : r \in Range(config.reports)}

\* The state has its types; while a configuration is under way, a node refers to
\* nodes before it and a builder or trigger to a node of the list (compileSession,
\* translateMessageBuilderExpressionNodes).
TypeOK ==
  /\ stage \in Stages
  /\ answer \in {"none", "ok", "bad_request", "panic"}
  /\ (stage = "answered") = (answer # "none")
  /\ result \in {"none", "collecting", "ok", "error", "panic"}
  /\ \A e \in errs : e.list \in DOMAIN req /\ e.item \in DOMAIN req[e.list]
  /\ pending \subseteq GraphNodes(fdSet)
  /\ localFiles \subseteq DOMAIN GlobalFiles \cup PathsOf(fdSet)
  /\ \A name \in DOMAIN types : types[name].path \in DOMAIN files[types[name].set]
  /\ unpruned \subseteq DOMAIN shaken
  /\ UnderWay =>
       /\ ti.reports \subseteq DOMAIN mc.reports
       /\ \A i \in DOMAIN mc.nodes : Range(mc.nodes[i].args) \subseteq 1 .. (i - 1)
       /\ \A b \in BuildersOf(mc) : NodesOf(b) \subseteq DOMAIN mc.nodes
       /\ \A t \in Range(mc.triggers) : {t.selector, t.initialize} \subseteq 0 .. Len(mc.nodes)

-----------------------------------------------------------------------------
(* The registry. *)

\* What a definition is in the file that declares it.
DefinitionIn(file, name) == {d \in Definitions(file) : name \in {d.name, d.root}}

FilesOf(set) == {FileOf(set, p) : p \in PathsOf(set)}
ByPath(set)  == [p \in PathsOf(set) |-> FileOf(set, p)]
EarlierFiles == UNION {Range(files[k]) : k \in 1 .. (Len(files) - 1)}

Conflict(f, g) ==
  \E name \in DeclaredNames(f) \cap DeclaredNames(g) : DefinitionIn(f, name) # DefinitionIn(g, name)

\* What a set is refused for, in whichever order its files are taken.
Faulty(set, earlier) ==
  \/ Circular(set)
  \/ MissingImports(set) # {}
  \/ \E f \in FilesOf(set) :
       \/ ~(Range(f.deps) \subseteq DOMAIN GlobalFiles \cup (PathsOf(set) \ {NoPath}))
       \/ ~NothingTwice(f)
       \/ DanglingReference(Merge(GlobalFiles, ByPath(set)), f)
       \/ \E g \in FilesOf(set) \cup earlier : Conflict(f, g)

\* One name in two files of the set: RegisterFile refuses the one that comes
\* second, and a file that imports it is refused for that.
Clash(set) ==
  \E f \in FilesOf(set) : \E g \in FilesOf(set) \cup Range(GlobalFiles) :
    f # g /\ NamesClash(f, g)

\* Whether a descriptor set is accepted does not depend on the random order in
\* which SortFileDescriptorSet puts independent files: it is refused for a fault
\* of the set or, by chance, for a clash of names, and the resolver panics only on
\* an import that is not there.
RefusedForCause ==
  /\ result = "ok"    => ~Faulty(fdSet, EarlierFiles)
  /\ result = "error" => Faulty(fdSet, EarlierFiles) \/ Clash(fdSet)
  /\ result = "panic" => MissingImports(fdSet) # {}

\* A resolver that was made, or extended, without an error finds every type of the
\* set, with the definition of its own file, and all that the type refers to
\* (ExtendLocalTypes).
RegistryComplete ==
  result = "ok" /\ stage \in {"signals", "descriptors", "validate"} =>
    \A f \in FilesOf(fdSet) : \A d \in Definitions(f) :
      /\ d.name \in DOMAIN types
      /\ Definition(types[d.name]) = DefinitionIn(f, d.name)
      /\ d \in Range(f.messages) => \A r \in References(d) : Finds(r.type, r.typeName)

\* A file of the request has a type in a package the program keeps to itself: it
\* takes every type of google.protobuf for one of google's own files, and no file
\* for one with the schemas it makes (IsTypeInOutputDescriptors).
DeclaresReserved ==
  \E set \in {req.signals.set, Parsed} : \E f \in Range(set) \cup Range(GlobalFiles) :
    /\ ~IgnoreDependency(f.path)
    /\ \E d \in Definitions(f) : d.name[1] \in {Google, AdhocPackage}

\* The program panics, and answers with an internal error, only on an import that
\* is in no set of the request or, in a configuration not made by /compile, on a
\* field assignment without an aggregation (ExtractNodeIndex).  What /compile makes
\* lacks an import only if the request has a type in a reserved package, whose file
\* the schemas import and the tree shaker leaves out.
PanicsOnlyAsKnown ==
  answer = "panic" =>
    \/ /\ req.endpoint = "compile"
       /\ \E set \in {req.signals.set, Parsed} : MissingImports(set) # {}
    \/ /\ req.endpoint = "validate" /\ sess.triggers = <<>>
       /\ MissingImports(req.config.descriptors) # {} \/ ExtractNodeIndexPanics
    \/ DeclaresReserved /\ MissingImports(mc.descriptors) # {}

-----------------------------------------------------------------------------
(* From the request to the configuration. *)

\* The tree of an expression, from a list of nodes.  The type of a builder comes
\* with inference.
Tree(nodes, root) ==
  LET tree[i \in DOMAIN nodes] ==
        [nodes[i] EXCEPT !.args = [a \in DOMAIN @ |-> tree[@[a]]],
                         !.name = IF nodes[i].type = "builder" THEN NoType ELSE @]
  IN  tree[root]

Denotes(index, expression) ==
  IF expression = Blank THEN index = 0
  ELSE index # 0 /\ Tree(mc.nodes, index) = Tree(expression, Len(expression))

RequestedBuilders ==
  [i \in DOMAIN req.publishers |->
     IF req.publishers[i].aggregation = <<>> THEN <<>> ELSE <<req.publishers[i].aggregation[1].builder>>]
    \o [i \in DOMAIN req.data_sources |-> <<>>]
    \o [i \in DOMAIN req.aggregators |-> <<req.aggregators[i].builder>>]

FollowsBuilder(builder, requested) ==
  /\ DOMAIN builder.fields = DOMAIN requested.fields
  /\ \A i \in DOMAIN requested.fields :
       /\ builder.fields[i].name = requested.fields[i].name
       /\ Denotes(builder.fields[i].node, requested.fields[i].expression)

\* Every field assignment and trigger of the configuration refers to the nodes of
\* the expression the request has at this place, although all expressions share
\* one list of nodes and are numbered twice (ExprStash, CompileAll and
\* translateMessageBuilderExpressionNodes).
FollowsExpressions ==
  UnderWay =>
    /\ \A i \in DOMAIN RequestedBuilders : \A b \in Range(RequestedBuilders[i]) :
         FollowsBuilder(mc.sources[i].builder, b)
    /\ \A i \in DOMAIN req.report_configs :
         FollowsBuilder(mc.reports[i].builder, req.report_configs[i].builder)
    /\ \A i \in DOMAIN req.triggers :
         /\ Denotes(mc.triggers[i].selector, req.triggers[i].selector)
         /\ Denotes(mc.triggers[i].initialize, req.triggers[i].initialize)

\* No trigger, source or type hint of an accepted request is dropped because the
\* request has a value under the other name too: ToSession takes the first of two
\* names, and relies on ValidateSchemaConsistency.
NothingDropped ==
  UnderWay =>
    /\ {req.stop, req.end} \subseteq {"", mc.stop}
    /\ {req.deactivate, req.finish} \subseteq {"", mc.deactivate}
    /\ \A h \in {req.service_type_hints, req.data_source_message_types} \ {<<>>} : sess.hints = h
    /\ \A i \in DOMAIN req.triggers :
         {req.triggers[i].source, req.triggers[i].publisher} \subseteq {"", mc.triggers[i].source}

-----------------------------------------------------------------------------
(* Inference. *)

\* Two sources, reports or builder nodes make a message of one name.
Collides(name) ==
  1 < Cardinality({i \in DOMAIN mc.sources : mc.sources[i].name = name})
        + Cardinality({i \in DOMAIN mc.reports : mc.reports[i].name = name})
        + Cardinality({i \in DOMAIN mc.nodes : IsBuilder(i) /\ MsgBuilderNames[i] = name})

\* The name of a builder is taken: by another, or by a type that the request
\* declares in the package of the schemas.
Taken(name) == Collides(name) \/ <<AdhocPackage, name>> \in ti.messages

\* "not inferred yet. This is a bug": an expression refers to a builder without a
\* type only when the inference of this very builder has failed before, or its
\* name is taken.
InferredBeforeUse ==
  \A e \in ti.errs : \A m \in e.missing :
    /\ m \in ti.inferred
    /\ (\E cause \in ti.errs : cause.of = m) \/ Taken(m.source)

\* The field a schema must have for an assignment of an expression of type t.
Fits(field, fa, t) ==
  /\ field.name = fa.name
  /\ CASE fa.aggregation = "count"             -> field.type = "int32"
       [] fa.aggregation \in {"avg", "stddev"} -> field.type = "double"
       [] OTHER -> /\ t.ok /\ field.type = t.type
                   /\ field.typeName \in {t.typeName, AnyType}
                   /\ field.repeated = (t.repeated \/ fa.aggregation = "vector")

\* The type of a builder has a field for each assignment, in their order, of the
\* type of the assigned expression.
Typed(type, fas) ==
  /\ type # NoType
  /\ LET fields == FieldsOf(type)
     IN  DOMAIN fields = DOMAIN fas /\ \A i \in DOMAIN fas : Fits(fields[i], fas[i], Resolve(fas[i].node))

\* The builder had no type in the request.
WithoutType(type) == type = NoType \/ type[1] = AdhocPackage

\* After an inference without errors every builder of the request without a type
\* has one, and it is the type its assignments need, whether it was made for the
\* builder or shared (AddOrDeduplicateAdhocMessage).  A builder whose name is
\* taken by another may be left without a type, or with that of the other.
BuildersTyped ==
  UnderWay /\ stage = "harvest" =>
    /\ \A b \in {s \in Range(mc.sources) : s.type = "aggregator"} \cup Range(mc.reports) :
         WithoutType(b.builder.type) =>
           Collides(b.name) \/ Typed(b.builder.type, b.builder.fields)
    /\ \A i \in DOMAIN mc.nodes :
         IsBuilder(i) /\ WithoutType(mc.nodes[i].name) =>
           \/ Collides(MsgBuilderNames[i])
           \/ Typed(mc.nodes[i].name,
                    [f \in DOMAIN mc.nodes[i].names |->
                       [name |-> mc.nodes[i].names[f], aggregation |-> "none",
                        node |-> mc.nodes[i].args[f]]])

-----------------------------------------------------------------------------
(* Tree shaking. *)

\* One path in two sets, with other contents: the files are merged by path.
MergedPaths ==
  \E j, k \in DOMAIN files : \E p \in DOMAIN files[j] \cap DOMAIN files[k] :
    files[j][p] # files[k][p]

Referenced(config) ==
  ({b.type : b \in BuildersOf(config)}
     \cup {n.name : n \in {n \in Range(config.nodes) : n.type = "builder"}}) \ {NoType}

\* The descriptors of a compiled configuration are complete: each imports only
\* files that are there or well known, sees all the types it uses, and the types of
\* the configuration are there (TreeShake and OutputDescriptors).
ShakenIsClosed ==
  stage = "compiled" /\ ~ParameterOf("no_inference", FALSE) /\ ~MergedPaths /\ ~DeclaresReserved =>
    LET set  == mc.descriptors
        there == {f.path : f \in Range(set)} \cup WellKnownPaths
        at    == [p \in there |-> IF p \in DOMAIN GlobalFiles THEN GlobalFiles[p] ELSE FileOf(set, p)]
    IN  /\ \A f \in Range(set) : Range(f.deps) \subseteq there /\ ~DanglingReference(at, f)
        /\ \A type \in Referenced(mc) :
             \E f \in Range(set) \cup Range(GlobalFiles) : Declares(f, "message", type)

\* Which imports are kept does not depend on the random order in which files are
\* pruned: an import is kept if a file with a type that a kept message uses, or
\* one imported publicly, is visible through it in the files as they were.
ImportsIndependentOfOrder ==
  stage \in {"prune", "shaken"} /\ ~MergedPaths =>
    \A path \in DOMAIN shaken \ unpruned :
      LET k      == Max({j \in DOMAIN files : path \in DOMAIN FilesIn(j)})
          before == FilesIn(k)[path]
          needed == (UNION {getMessageDeps(path, m) : m \in DOMAIN shaken[path].messages})
                      \cup PublicImports(before)
      IN  Range(shaken[path].deps) =
            {d \in Range(before.deps) : Reach({d}, Exports(FilesIn(k))) \cap needed # {}}

-----------------------------------------------------------------------------
(* The answer. *)

\* The client has sent the compiled configuration to /validate.
SentBack == req.endpoint = "validate" /\ sess.triggers # <<>>

\* /validate accepts what /compile has validated and answered, in the format of
\* either version; but the sources of the canonical lists are not asked for a
\* name before the session is compiled (parseDataSources, parseAggregators), and
\* with one name in two files it is for chance to decide, both times.
CompiledValidates ==
  SentBack /\ stage = "answered" /\ ~ParameterOf("ignore_validation", FALSE) =>
    answer = "ok" \/ "" \in NamesOf(mc.sources) \/ Clash(mc.descriptors)

\* The text of the v1 API has no name and no value that only the canonical format
\* has, also where a field and the ones around it are renamed
\* (applyCanonicalToLegacyRenames).
RenderedLegacy ==
  SentBack /\ req.version = "v1" =>
    LET canonical == {Last(r.canonical) : r \in Range(fieldRenames)}
    IN  \A n \in req.text : Range(n.path) \cap canonical = {} /\ n.value # "ON_DEMAND"
=============================================================================
