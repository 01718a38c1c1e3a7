-------------------------- MODULE MCCompileRequest --------------------------
(* Requests for TLC: descriptor sets, expressions, faults and configurations. *)
EXTENDS CompileProperties

MCGlobalFiles ==
  AnyPath :> [path |-> AnyPath, deps |-> <<>>, public |-> {}, enums |-> <<>>, names |-> {},
              packages |-> {<<"", "google">>, <<"google", "protobuf">>},
              messages |-> <<[name |-> AnyType, root |-> AnyType, fields |-> <<>>]>>]
MCGooglePaths     == {AnyPath}
MCMsgBuilderNames == [i \in 1 .. 9 |->
  <<"MsgBuilderNode0", "MsgBuilderNode1", "MsgBuilderNode2", "MsgBuilderNode3", "MsgBuilderNode4",
    "MsgBuilderNode5", "MsgBuilderNode6", "MsgBuilderNode7", "MsgBuilderNode8">>[i]]

-----------------------------------------------------------------------------
(* Files. *)

ScalarField(name, type) == [name |-> name, type |-> type, typeName |-> NoType, repeated |-> FALSE]
TypedField(name, kind, type) == [name |-> name, type |-> kind, typeName |-> type, repeated |-> FALSE]
Message(name, fields) == [name |-> name, root |-> name, fields |-> fields]
Enum(name, root, value) == [name |-> name, root |-> root, values |-> {<<name[1], value>>}]
File(path, deps, public, messages, enums) ==
  [path |-> path, deps |-> deps, public |-> public, messages |-> messages, enums |-> enums,
   names |-> {}, packages |-> {<<"", d.name[1]>> : d \in Range(messages) \cup Range(enums)}]

tA == <<"p", "A">>
tB == <<"p", "B">>
tC == <<"q", "C">>
tD == <<"p", "D">>
tE == <<"q", "E">>

\* Three files that import each other, or not, privately or publicly.
Kinds == {"no", "private", "public"}
Imports(kinds, paths) ==
  LET used == SelectSeq([i \in DOMAIN paths |-> i], LAMBDA i : kinds[i] # "no")
  IN  [deps   |-> [n \in DOMAIN used |-> paths[used[n]]],
       public |-> {n \in DOMAIN used : kinds[used[n]] = "public"}]

UsesOf(uses) ==
  SelectSeq(<<TypedField("b", "message", tB), TypedField("c", "message", tC),
              TypedField("e", "enum", tE)>>, LAMBDA f : f.name \in uses)

FileA(ab, ac, uses) ==
  LET i == Imports(<<ab, ac>>, <<"b.proto", "c.proto">>)
  IN  File("a.proto", i.deps, i.public, <<Message(tA, UsesOf(uses))>>, <<>>)
FileB(bc, uses) ==
  LET i == Imports(<<bc>>, <<"c.proto">>)
  IN  File("b.proto", i.deps, i.public, <<Message(tB, UsesOf(uses))>>, <<>>)
FileC(ca) ==
  LET i == Imports(<<ca>>, <<"a.proto">>)
  IN  File("c.proto", i.deps, i.public, <<Message(tC, <<>>)>>, <<Enum(tE, NoType, "NONE")>>)

FileSets ==
  {<<FileA(ab, ac, u), FileB(bc, v), FileC(ca)>> :
     ab \in Kinds, ac \in Kinds, bc \in Kinds, ca \in {"no", "private"},
     u \in {{}, {"b"}, {"c"}, {"b", "e"}}, v \in {{}, {"c"}, {"e"}}}
  \cup {<<FileB(bc, {}), FileA(ab, "private", {"b"})>> : ab \in Kinds, bc \in Kinds}
  \cup {<<[FileA("private", "no", {"b"}) EXCEPT !.deps = @ \o @], FileB("no", {})>>}

-----------------------------------------------------------------------------
(* Requests. *)

Builder(type, fields) == [type |-> type, dotted |-> type # NoType, fields |-> fields]
Assign(name, aggregation, expression) ==
  [name |-> name, aggregation |-> aggregation, expression |-> expression, maxLength |-> FALSE]
Inline(set) == [from |-> "inline", set |-> set]
Set(set)    == [parses |-> TRUE, set |-> set]

Periodic(name, parents) ==
  [name |-> name, type |-> "periodic", parents |-> parents, source |-> "", publisher |-> "",
   condition |-> "none", options |-> FALSE, sound |-> TRUE,
   selector |-> Blank, initialize |-> Blank]
Data(name, source)  == [Periodic(name, <<>>) EXCEPT !.type = "data", !.source = source]
Conditional(name, condition, selector, initialize) ==
  [Periodic(name, <<"t">>) EXCEPT !.type = "conditional", !.condition = condition,
                                  !.selector = selector, !.initialize = initialize]

Source(name, identifier) ==
  [name |-> name, identifier |-> identifier, connection |-> "", interval |-> "none",
   configuration |-> <<>>]
Agg(name, builder)  == [name |-> name, triggers |-> <<"t">>, builder |-> builder]
Rep(name, builder)  ==
  [name |-> name, triggers |-> <<"t">>, incomplete |-> FALSE, builder |-> builder]

Empty ==
  [endpoint |-> "compile", version |-> "v2", binds |-> TRUE, format |-> "text",
   signals |-> Inline(<<>>), descriptor_protos |-> <<>>, triggers |-> <<Periodic("t", <<>>)>>,
   publishers |-> <<>>, data_sources |-> <<>>, aggregators |-> <<>>, report_configs |-> <<>>,
   start |-> "", end |-> "", stop |-> "", finish |-> "", deactivate |-> "",
   service_type_hints |-> <<>>, data_source_message_types |-> <<>>,
   parameters |-> [p \in CompileParameters \cup {"return_config"} |-> "absent"],
   config |-> NoConfig, text |-> {}]

\* A report of the type of the first file.
OfTypeA == [Empty EXCEPT !.report_configs = <<Rep("r", Builder(tA, <<>>))>>]

DescriptorRequests ==
  {[OfTypeA EXCEPT !.signals = Inline(set)] : set \in FileSets}

\* One type in two sets, in two files, or without a file's name.
other == File("d.proto", <<>>, {}, <<Message(tB, <<>>)>>, <<>>)
using == File("e.proto", <<"b.proto">>, {}, <<Message(tA, UsesOf({"b"}))>>, <<>>)
alias == File("b.proto", <<>>, {}, <<Message(<<"q", "B">>, <<>>)>>, <<>>)
merged == File("b.proto", <<>>, {}, <<Message(tD, <<>>)>>, <<>>)
SetRequests ==
  {[OfTypeA EXCEPT !.report_configs = @ \o <<Rep("d", Builder(tD, <<>>))>>,
                   !.signals = Inline(<<FileA("private", "no", {"b"}), FileB("private", {"c"}), FileC("no")>>),
                   !.descriptor_protos = <<Set(<<merged>>)>>]}
  \cup {[OfTypeA EXCEPT !.signals = Inline(one), !.descriptor_protos = two] :
     one \in {<<>>, <<FileB("no", {})>>, <<other, FileB("no", {}), using>>,
              <<FileA("private", "private", {"b", "e"}), FileB("private", {"c"}), FileC("no")>>},
     two \in {<<>>, <<Set(<<FileB("no", {}), FileA("private", "no", {"b"})>>)>>,
              <<Set(<<FileB("no", {}), using>>)>>,
              <<Set(<<alias>>), Set(<<[using EXCEPT !.deps = <<"d.proto">>], other>>)>>,
              <<Set(<<File("b.proto", <<>>, {}, <<Message(tB, <<ScalarField("x", "int32")>>)>>, <<>>)>>)>>,
              <<Set(<<File("f.proto", <<>>, {}, <<>>, <<Enum(tB, NoType, "NONE")>>)>>)>>,
              <<Set(<<[FileB("no", {}) EXCEPT !.path = NoPath]>>),
                [parses |-> FALSE, set |-> <<>>]>>,
              <<Set(<<File(NoPath, <<>>, {}, <<Message(tA, <<>>)>>, <<>>)>>)>>}}

\* One name in two files, of one set or of two: of a type, of a value, of a service
\* or of a package.  The types of both are used.
tP == <<"p", "P">>
tG == <<"p", "G">>
tH == <<"p.P", "G">>
enumP == File("p.proto", <<>>, {}, <<>>, <<Enum(tP, NoType, "NONE")>>)
usesP == File("a.proto", <<"p.proto">>, {}, <<Message(tA, <<TypedField("p", "enum", tP)>>)>>, <<>>)
SameName ==
  LET fileG == File("g.proto", <<>>, {}, <<Message(tG, <<>>)>>, <<>>)
  IN  {[fileG EXCEPT !.enums = <<e>>, !.messages[1].fields = <<TypedField("p", "enum", e.name)>>] :
         e \in {Enum(tP, NoType, "NONE"), Enum(<<"p", "R">>, NoType, "OTHER"), Enum(<<"p", "Q">>, NoType, "NONE")}}
        \cup {[fileG EXCEPT !.names = {tP}],
              [fileG EXCEPT !.messages[1] = Message(tH, <<>>), !.packages = {<<"", "p">>, tP}]}
NameRequests ==
  {[OfTypeA EXCEPT !.report_configs = @ \o <<Rep("g", Builder(g.messages[1].name, <<>>))>>,
                   !.signals = Inline(<<enumP, usesP>> \o SelectSeq(<<g>>, LAMBDA f : one)),
                   !.descriptor_protos = <<Set(SelectSeq(<<g>>, LAMBDA f : ~one))>>] :
     g \in SameName, one \in BOOLEAN}
  \cup {[OfTypeA EXCEPT !.signals = Inline(<<[enumP EXCEPT !.names = {tP}], usesP>>)]}

-----------------------------------------------------------------------------
(* Expressions. *)

ExprNode(type, name, names, args, value) ==
  [type |-> type, name |-> name, names |-> names, args |-> args, value |-> value]
FieldNode(source, names)  == ExprNode("field", <<source>>, names, <<>>, 0)
Op(op, args)              == ExprNode("combination", <<op>>, <<>>, args, 0)
BuilderNode(type, names, args) == ExprNode("builder", type, names, args, 0)
One                       == ExprNode("int32", <<>>, <<>>, <<>>, 1)

count   == <<FieldNode("s", <<"count">>)>>
plusOne == <<FieldNode("s", <<"count">>), One, Op("+", <<1, 2>>)>>
Unparsable == <<ExprNode("malformed", <<>>, <<>>, <<>>, 0)>>
Field(name) == <<FieldNode("s", <<name>>)>>
built   == <<FieldNode("s", <<"count">>), BuilderNode(NoType, <<"x">>, <<1>>)>>

tSpeed == <<"v", "Speed">>
tItem  == <<"v", "Item">>
tGear  == <<"v", "Gear">>
Signals ==
  << File("speed.proto", <<"item.proto">>, {},
          << Message(tSpeed, << ScalarField("count", "int32"), ScalarField("ratio", "float"),
                                TypedField("item", "message", tItem),
                                [TypedField("items", "message", tItem) EXCEPT !.repeated = TRUE],
                                TypedField("gear", "enum", tGear) >>) >>,
          << Enum(tGear, tSpeed, "FIRST") >>),
     File("item.proto", <<>>, {}, <<Message(tItem, <<ScalarField("x", "int32")>>)>>, <<>>) >>

Expressions ==
  { plusOne, Field("item"), Field("gear"), built,
    <<FieldNode("s", <<"items">>), One, Op("subscript", <<1, 2>>),
      ExprNode("field", <<"">>, <<"x">>, <<3>>, 0)>>,
    built \o <<ExprNode("field", <<"">>, <<"x">>, <<2>>, 0), One, Op("**", <<3, 4>>)>>,
    built \o <<BuilderNode(NoType, <<"inner">>, <<2>>)>>,
    <<FieldNode("s", <<"count">>), BuilderNode(tItem, <<"x">>, <<1>>)>>,
    <<FieldNode("a", <<"y">>)>> }

OtherExpressions ==
  { <<FieldNode("s", <<>>)>>, <<FieldNode("s", <<"missing">>)>>, <<FieldNode("s", <<"item", "x">>)>>,
    <<FieldNode("s", <<"items", "x">>)>>, <<FieldNode("s", <<"items">>), Op("length", <<1>>)>>,
    <<FieldNode("s", <<"ratio">>), Op("neg", <<1>>), One, Op("/", <<2, 3>>), One, Op("<", <<4, 5>>)>>,
    <<FieldNode("nobody", <<"x">>)>>, <<FieldNode("a", <<>>)>>, <<FieldNode("b", <<"y">>)>>,
    <<FieldNode("s", <<"item">>), One, Op("+", <<1, 2>>)>>,
    <<FieldNode("s", <<"ratio">>), One, Op("*", <<1, 2>>), Op("floor", <<3>>)>>,
    <<BuilderNode(<<"no", "Type">>, <<>>, <<>>)>>,
    <<ExprNode("timestamp", <<"REALTIME_CLOCK">>, <<>>, <<>>, 0)>>,
    Unparsable }

Config(a, b, r) ==
  [Empty EXCEPT !.signals        = Inline(Signals),
                !.data_sources   = <<Source("s", tSpeed)>>,
                !.aggregators    = <<Agg("a", Builder(NoType, <<Assign("y", "none", a)>>)),
                                     Agg("b", Builder(NoType, <<Assign("y", "vector", b),
                                                                Assign("n", "count", Blank)>>))>>,
                !.report_configs = <<Rep("r", Builder(NoType, <<Assign("z", "none", r)>>))>>]

Small == Config(count, plusOne, count)
Large == Config(built, <<FieldNode("a", <<"y">>)>>, <<FieldNode("b", <<"y">>)>>)

ExpressionRequests ==
  {Config(a, b, r) : a \in Expressions, b \in Expressions, r \in Expressions}
    \cup {Config(e, count, <<FieldNode("b", <<"n">>)>>) : e \in OtherExpressions}
    \cup {Config(count, e, e) : e \in OtherExpressions}
    \cup {[Config(a, count, r) EXCEPT !.report_configs[1].builder.fields[1].name = "y"] :
             a \in {count, built, Field("ratio")}, r \in {count, built, Field("ratio")}}

-----------------------------------------------------------------------------
(* Faults, names that collide, the other API and parameters. *)

Faults ==
  {[Small EXCEPT !.aggregators[1].builder.fields[1] = f] :
     f \in {Assign("y", "", Blank), Assign("y", "none", Blank), Assign("y", "count", count),
            Assign("", "avg", count), Assign("y", "median", count),
            [Assign("y", "sum", count) EXCEPT !.maxLength = TRUE],
            Assign("y", "vector", Field("items"))}}
  \cup {[Small EXCEPT !.data_sources[1] = d] :
     d \in {[Source("s", tSpeed) EXCEPT !.connection = c] : c \in {"ON_DEMAND", "GETTER", "PUSH"}}
        \cup {[Source("s", tSpeed) EXCEPT !.interval = i] : i \in {"valid", "negative", "too_long"}}
        \cup {[Source("s", tSpeed) EXCEPT !.configuration = <<[forms |-> f, type |-> t, fits |-> TRUE]>>] :
                f \in {{}, {"value"}, {"textproto"}, {"value", "json"}}, t \in {tItem, tA}}
        \cup {Source("", tSpeed), Source("s", NoType), Source("t", tSpeed), Source("s", tA)}}
  \cup {[Small EXCEPT !.aggregators[2] = Agg(n, Builder(t, <<Assign("y", "none", count)>>))] :
     n \in {"", "a", "s", "b", "MsgBuilderNode0"}, t \in {NoType, tItem, tA}}
  \cup {[Small EXCEPT !.aggregators[1].triggers = ts] : ts \in {<<>>, <<"u">>}}
  \cup {[Large EXCEPT !.report_configs[1].name = n, !.aggregators[2].name = m] :
     n \in {"r", "a", "MsgBuilderNode1", ""}, m \in {"b", "MsgBuilderNode1"}}
  \cup {[Config(count, built, e) EXCEPT !.aggregators[1].name = "MsgBuilderNode1"] :
     e \in {count, <<FieldNode("MsgBuilderNode1", <<"y">>)>>}}
  \cup {[Small EXCEPT !.report_configs[1].triggers = ts, !.report_configs[1].incomplete = i] :
     ts \in {<<>>, <<"u">>}, i \in BOOLEAN}
  \cup {[Small EXCEPT !.report_configs = @ \o @]}
  \cup {[Small EXCEPT !.aggregators[1].builder = [Builder(tItem, <<>>) EXCEPT !.dotted = FALSE]]}

Triggered ==
  {[Small EXCEPT !.triggers = <<Periodic("t", <<>>)>> \o ts] :
     ts \in {<<Periodic("t", <<>>)>>, <<[Periodic("u", <<>>) EXCEPT !.sound = FALSE]>>,
             <<Periodic("u", <<"w">>)>>, <<Data("u", "s")>>, <<Data("u", "nobody")>>,
             <<[Data("u", "") EXCEPT !.publisher = "s"]>>,
             <<Data("u", "a"), Periodic("w", <<"u">>)>>, <<Periodic("u", <<"w">>), Periodic("w", <<"u">>)>>,
             <<Data("u", "")>>, <<Conditional("u", "is_true", Unparsable, Blank)>>,
             <<Conditional("u", "is_true", plusOne, Blank)>>}
        \cup {<<Conditional("u", c, e, i)>> :
                c \in {"rising_edge", "all_changes"}, e \in {count, Field("item"), Field("gear")},
                i \in {<<One>>, Field("item"), <<FieldNode("s", <<"item">>), One, Op("<", <<1, 2>>)>>}}}
  \cup {[Small EXCEPT !.triggers = <<Periodic("t", <<>>), Data("u", "s")>>,
                      !.data_sources[1].connection = "ON_DEMAND"],
        [Small EXCEPT !.triggers = <<Periodic("t", <<>>), Data("u", "a")>>,
                      !.aggregators[1].triggers = <<"u">>]}
  \cup {[Small EXCEPT !.start = s, !.stop = e, !.deactivate = d] :
     s \in {"", "t"}, e \in {"", "t", "w"}, d \in {"", "t", "w"}}

Publisher(name, service, aggregation) ==
  [name |-> name, service |-> service, aggregation |-> aggregation]
Legacy ==
  [Small EXCEPT !.version = "v1", !.data_sources = <<>>, !.aggregators = <<>>,
                !.publishers = <<Publisher("s", <<Source("", tSpeed)>>, <<>>),
                                 Publisher("a", <<>>, <<Small.aggregators[1]>>)>>]
Deprecated ==
  {[Legacy EXCEPT !.version = v, !.end = e, !.start = s, !.finish = f] :
     v \in {"v1", "v2"}, e \in {"", "t"}, s \in {"", "t"}, f \in {"", "t"}}
  \cup {[Legacy EXCEPT !.publishers[1].service[1].connection = c, !.format = f] :
     c \in {"GETTER", "ON_DEMAND"}, f \in {"text", "binary", "other"}}
  \cup {[Legacy EXCEPT !.publishers[1] = p] :
     p \in {Publisher("", <<Source("", tSpeed)>>, <<>>), Publisher("s", <<>>, <<>>),
            Publisher("s", <<Source("", tSpeed)>>, <<Small.aggregators[1]>>)}}
  \cup {[request EXCEPT !.start = "t", !.stop = "t", !.end = e, !.deactivate = d, !.finish = f] :
     request \in {Small, Legacy}, e \in {"", "u"}, d \in {"", "t"}, f \in {"", "u"}}
  \cup {[request EXCEPT !.triggers = @ \o <<[Data("u", "a") EXCEPT !.publisher = "s"]>>] :
     request \in {Small, Legacy}}
  \cup {[Legacy EXCEPT !.triggers = @ \o <<[Data("u", "") EXCEPT !.publisher = "s"]>>],
        [Legacy EXCEPT !.service_type_hints = tA :> tSpeed, !.publishers[1].service[1].identifier = tA],
        [Small EXCEPT !.data_source_message_types = tA :> tSpeed, !.data_sources[1].identifier = tA],
        [Small EXCEPT !.binds = FALSE], [Small EXCEPT !.version = "v1"],
        [Small EXCEPT !.signals.from = "cache"], [Small EXCEPT !.signals.from = "unknown"]}

\* A type of google.protobuf in a file of the request.
reserved == <<"google.protobuf", "Own">>
Reserved ==
  {[Config(Field("own"), count, count) EXCEPT
      !.signals = Inline(<<File("speed.proto", <<"own.proto">>, {},
                                <<Message(tSpeed, <<ScalarField("count", "int32"),
                                                    TypedField("own", "message", reserved)>>)>>, <<>>),
                           [File("own.proto", <<>>, {}, <<Message(reserved, <<>>)>>, <<>>)
                              EXCEPT !.packages = {<<"", "google">>, <<"google", "protobuf">>}]>>),
      !.data_sources[1].identifier = t,
      !.parameters.ignore_validation = v] : v \in {"absent", "true"}, t \in {tSpeed}}

Parameters ==
  {[request EXCEPT !.parameters[p] = v, !.descriptor_protos = <<Set(<<FileB("no", {})>>)>>] :
     request \in {Small, Large}, p \in CompileParameters, v \in {"true", "false", "malformed"}}

-----------------------------------------------------------------------------
(* Configurations sent to /validate and /file_descriptors. *)

FieldOf(aggregation, node) == [name |-> "x", aggregation |-> aggregation, node |-> node]
BuilderOf(type, dotted, fields) ==
  [given |-> TRUE, type |-> type, dotted |-> dotted, fields |-> fields]
SourceOf(name, type, builder) ==
  [name |-> name, type |-> type, identifier |-> tSpeed, connection |-> "SUBSCRIPTION",
   triggers |-> <<"t">>, builder |-> builder]
TriggerOf(name, type, parents, source) ==
  [name |-> name, type |-> type, parents |-> parents, source |-> source, condition |-> "none",
   options |-> FALSE, sound |-> TRUE, selector |-> 0, initialize |-> 0]
ValidConfig ==
  [uuid |-> "valid", nodes |-> plusOne, triggers |-> <<TriggerOf("t", "periodic", <<>>, "")>>,
   sources |-> <<SourceOf("s", "data_source", BuilderOf(NoType, FALSE, <<>>)),
                 SourceOf("a", "aggregator", BuilderOf(tItem, TRUE, <<FieldOf("none", 3)>>))>>,
   reports |-> <<[name |-> "r", triggers |-> <<"t">>, incomplete |-> FALSE,
                  builder |-> BuilderOf(tItem, TRUE, <<FieldOf("max", 1)>>)]>>,
   start |-> "", stop |-> "", deactivate |-> "", descriptors |-> Signals]

RawConfigs ==
  {ValidConfig}
  \cup {[ValidConfig EXCEPT !.uuid = u] : u \in {"", "malformed"}}
  \cup {[ValidConfig EXCEPT !.sources[2].builder = b] :
     b \in {[ValidConfig.sources[2].builder EXCEPT !.given = FALSE, !.fields = <<>>],
            BuilderOf(tItem, FALSE, <<>>), BuilderOf(tA, TRUE, <<>>),
            BuilderOf(tItem, TRUE, <<FieldOf("sum", 4)>>), BuilderOf(tItem, TRUE, <<FieldOf("", 0)>>)}}
  \cup {[ValidConfig EXCEPT !.sources[1] = s] :
     s \in {SourceOf("", "data_source", BuilderOf(NoType, FALSE, <<>>)),
            SourceOf("s", "none", BuilderOf(NoType, FALSE, <<>>)),
            [ValidConfig.sources[1] EXCEPT !.identifier = NoType],
            [ValidConfig.sources[1] EXCEPT !.connection = "ON_DEMAND"]}}
  \cup {[ValidConfig EXCEPT !.nodes = n] :
     n \in {<<One, One, Op("+", <<1>>)>>, <<One, One, Op("+", <<1, 3>>)>>, <<One, One, Op("!", <<1, 2>>)>>,
            <<One, One, Op("-", <<1, 4>>)>>, <<One, One, ExprNode("field", <<"">>, <<"x">>, <<>>, 0)>>,
            <<One, One, ExprNode("field", <<"s">>, <<"x">>, <<1>>, 0)>>,
            <<One, One, ExprNode("field", <<"">>, <<"x">>, <<5>>, 0)>>,
            <<One, One, BuilderNode(tItem, <<"x", "x">>, <<1, 2>>)>>,
            <<One, One, BuilderNode(tItem, <<"">>, <<1>>)>>, <<One, One, BuilderNode(tA, <<"x">>, <<1>>)>>,
            <<One, One, BuilderNode(tItem, <<"x">>, <<0>>)>>, <<One, One, BuilderNode(tItem, <<"x">>, <<1>>)>>}}
  \cup {[ValidConfig EXCEPT !.descriptors = d] :
     d \in {<<>>, <<Signals[1]>>, <<Signals[2]>>, Signals \o <<FileC("private"), FileA("no", "private", {})>>}}
  \cup {[ValidConfig EXCEPT !.triggers = @ \o <<t>>] :
     t \in {TriggerOf("t", "periodic", <<>>, ""), TriggerOf("u", "data", <<>>, "s"),
            [TriggerOf("u", "none", <<>>, "") EXCEPT !.sound = FALSE]}}
  \cup {[ValidConfig EXCEPT !.sources = @ \o @], [ValidConfig EXCEPT !.reports = @ \o @],
        [ValidConfig EXCEPT !.stop = "t", !.deactivate = "t"],
        [ValidConfig EXCEPT !.start = "t", !.stop = "t"]}

RawRequests ==
  {[Empty EXCEPT !.endpoint = "validate", !.config = c, !.format = "binary"] : c \in RawConfigs}
  \cup {[Empty EXCEPT !.endpoint = e, !.config = ValidConfig, !.version = v, !.format = f,
                      !.text = t, !.parameters[p] = x] :
     e \in {"validate", "file_descriptors"}, v \in {"v1", "v2"}, f \in {"text", "other"},
     t \in {TextOf(ValidConfig), applyCanonicalToLegacyRenames(TextOf(ValidConfig))},
     p \in {"return_config"}, x \in {"true", "malformed"}}
  \cup {[Empty EXCEPT !.endpoint = "validate", !.format = "binary",
                      !.config = [ValidConfig EXCEPT !.nodes = built \o <<One>>],
                      !.parameters.message_builder_node_supported = x] :
     x \in {"true", "false", "malformed"}}

MCRequests ==
  DescriptorRequests \cup SetRequests \cup NameRequests \cup ExpressionRequests \cup Faults \cup Triggered
    \cup Deprecated \cup Parameters \cup Reserved \cup RawRequests
=============================================================================
