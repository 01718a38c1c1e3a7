# A TLA+ verification project for MCG

MCG (the Metrics Config Generator) is an HTTP service that turns a JSON
description of sources, triggers and reports into a validated protobuf
`MetricsConfig` for the vehicle telemetry service. This directory models the
parts of it whose correctness depends on the order of events or on algorithms
that unit tests only sample, checks the models with TLC on small instances, and
proves the most important properties with TLAPS for every value of the
constants.

All paths below are relative to the repository.

## 1. The system

| Component | State | Operations | Interacts with |
|---|---|---|---|
| Local catalog cache, `mcg/vs_cache/vs_cache_local.go` | a map and a list of entries ordered by last access, behind a mutex | `Get`, `Set`, `Delete`, `List`, `evict` | the cache below |
| Catalog cache, `mcg/vs_cache/vs_cache.go`, `vs_cache_redis.go` | the local cache of each replica, the shared Redis keys (catalog and last writer), the replica's client id, its subscription | `Get`, `Set`, `Delete`, `List`, `SetupNotifications` | Redis; other replicas, through keyspace notifications; the endpoints and the compile handlers |
| Catalog endpoints, `mcg/signal_versions` | none | `POST /vs`, `DELETE /vs/{version}`, `GET /vs` | catalog cache |
| Compile and validate handlers, `mcg/api*.go` | per request | `handleCompile`, `handleValidate`, `handleFileDescriptors`, `compileSession`, the renaming of fields in v1 texts | everything below |
| Request to session, `mcg/requests`, `mcg/session` | the session: sources, triggers, reports, stashed expressions and their ids | `ToSession` and the `parse...` functions | catalog cache (`initializeTypeRegistry`), shallow validators, errors |
| Errors, `mcg/errors` | package-level error objects | `WithFieldViolation`, `FlattenErrorList`, the rendering middleware | all handlers share the package-level objects |
| Graph, `mcg/graph` | per graph | `AddNode`, `AddEdge`, four orderings | validators, inference, type resolvers, expressions |
| Expression parser, `mcg/expressions` | per expression: operator and operand stacks, the deduplicated node list | lexing, parsing, node construction | compile pipeline |
| Inference and tree shaker, `mcg/inference` | per session | infer message types, prune unused types and imports | graph, type resolvers |
| Validators, `mcg/validators` | none | shallow and deep validation, dependency graph of a config | graph |
| Type resolvers, `mcg/type_resolvers` | registered file descriptors | registration in import order, lookup | graph |
| Start-up, `main.go` | configuration | read the environment, create the cache, serve, shut down | catalog cache |

What is hard in it:

* **The two-level cache.** Replicas share Redis and each keeps copies that only
  keyspace notifications take away. A POST is a WATCH, a transaction and a local
  store; a DELETE is a Redis command and a local deletion that is sometimes
  skipped; a notification is a read of the writer key, a comparison and a
  local deletion. All of these interleave, any of them can fail, notifications
  get lost, and replicas crash. Correct means: nothing is served that was never
  stored, stale copies are on their way out, and with only one of the two
  levels the cache is an atomic store.
* **The local cache** follows pointers from a map into a list and back. Correct
  means: the two agree, the capacity holds, the right entry is evicted.
* **The graph search** runs in the random order of Go maps; four components
  trust its result. Correct means: every order it returns is topological and
  complete, every cycle it reports exists, and it ends.
* **Requests share package-level error objects**, one of which a parser
  modifies. Correct means: a request is told about its own faults, all of them
  and only those.
* **The expression parser** keeps one operator stack for prefix and infix
  operators, functions, subscripts and field accesses, and one list of nodes for
  all expressions of a request. Correct means: what is accepted means what the
  documented precedences say, and the list is ordered, without duplicates and
  without left-overs.
* **The compile pipeline** numbers expressions twice, infers types along a
  dependency graph, shares schemas, and prunes types and imports, in part in
  the random order of Go maps. Correct means: the configuration has the
  expressions of the request at their places, every builder has the type its
  fields need, the descriptors are closed under what they refer to whatever the
  order, `/validate` accepts what `/compile` answered, and a refusal or a panic
  has a cause in the request.

The hazards, each at its line, are listed in `PROJECT.json`.

## 2. The modules

**`LocalCacheOps`** holds the data structure of `LocalCache` and what each method
does to it, as operators on a cache value. `versionsMap` is the set of keys of
the Go map (the element a key points to is the one that carries the key),
`OrderedVsList` is the list from front to back. The methods hold the mutex from
first to last, so each is one step.

**`LocalCache`** is one cache used in any order, with a history variable for the
time of the last access to each version. `MCLocalCache` instantiates it.

**`CatalogCache`** is the service: replicas, Redis, requests and notifications.
A step is one Redis command, one MULTI/EXEC block or one local cache method.

| Action | Code |
|---|---|
| `NewCache` | `NewCache`, `SetupNotifications` up to the goroutine |
| `Invoke`, `Return` | a client's request reaches `HandleSignalAdd`, `HandleSignalDelete` or a handler that calls `Cache.Get`, and is answered |
| `CheckBytes`, `RedisWatch`, `RedisExec`, `RedisExecConflict`, `RedisExecReplyLost`, `LocalSet` | `Cache.Set` with `RedisCache.Set` |
| `RedisDel`, `RedisDelNothing`, `RedisDelReplyLost`, `LocalDelete` | `Cache.Delete` with `RedisCache.Delete` |
| `LocalGet`, `RedisGet` | `Cache.Get` |
| `ReadWriterId`, `ReadWriterIdError`, `Invalidate` | the loop of the notification goroutine |
| `RedisError` | a Redis command fails before it has an effect |
| `Disconnect`, `Resubscribe`, `Crash` | the connection of the subscription breaks and is restored; the process ends |

The constants `EnableLocalCache`, `EnableRedCache` and `IsRedisCluster` are the
switches of `CacheConfig`. What Redis and go-redis do is modelled from how the
code uses them: WATCH makes EXEC fail when the key has changed, keyspace
events go to those subscribed at that moment, a DEL whose reply was lost is sent
again. On a cluster the client id comes from any node, so two replicas may get
the same one. The history variable `committed` holds every catalog Redis ever
had under a version. A cluster has one notification goroutine per master; all
events of one version come from one master, so the single queue per replica
keeps the order the code sees for a version.

**`CatalogStore`** is the abstract specification: one catalog per version, each
request takes effect at one instant between call and answer, an error says
nothing about the effect. **`CatalogRefinement`** maps `CatalogCache` to it:
`catalog` is what the only store holds, a request past its Redis command counts
as done. `MCCatalogCache` and `MCCatalogRefinement` instantiate the two.

**`TopologicalOrdering`** is package `graph`: building a graph, then the
depth-first search with an explicit call stack. The random iteration order is
a choice among what is left; the stable entry points take the least.

**`TriggerParsing`** is the first part of `ToSession`: `parseTriggers` with
`TriggerRequest.ToProto`, `ShallowValidateTrigger`, the stashing of expressions
and the error list, for several requests at a time. Everything in it belongs to
one request except `mcgerrors.MultipleTriggers`: adding a violation to it is a
read and a later write, and when two additions went to the same place of the
same array either may be the one that stays. The rest of the request is taken
to be well-formed. `MCTriggerParsing` lists the triggers that the code tells
apart.

**`ExpressionParser`** is `ParserShunt`, from the tokens of the lexer to the list
of nodes. One action reads one token, or the few a construct starts with:
`ReadLiteral`, `ReadMinus`, `ReadIdentifier`, `parseTimestampFunction` and
`ReadOperator` are the cases of `tokenizeStream`; `OpenBuilder`, `ReadField`,
`EndField` and `CloseBuilder` are `parseMessageBuilder`, with a stack of frames
for nested builders; `EndField` and `EndExpression` run `compileTokens`, whose
operator and operand stacks are folded over the tokens. The widths of int32,
int64 and float64 are constants. The code collects the tokens of a builder's
field before it tokenizes them; the model reads them in place, which yields
the same tokens in the same order. **`ExpressionGrammar`** is the reference: trees,
and how one is written with as few parentheses as the precedences in
`mcg/docs/openapi.template.yaml` allow. It is written from the documentation and
shares no definition with the parser. `MCExpressionParser` lists the
expressions and states what relates the two.

**The compile pipeline** is one request at a time, as requests share nothing here
(what they do share is in `TriggerParsing` and `CatalogCache`). Each module
extends the one before it:

| Module | Code | State |
|---|---|---|
| `TypeRegistry` | `SortFileDescriptorSet`, `collectTypesFromFileDescriptorSet`, `ExtendLocalTypes`, look-up | the set at hand, the files of each set, the collected and the registered types |
| `TreeShaker` | `harvestMessage`, `harvestEnum`, `pruneUnusedImports`, `pruneUnusedAndWellKnownFileDescriptors` | `treeShaker.files`; the files whose imports are still to be pruned |
| `Inference` | the inference graph, `ExpressionResolver`, ad hoc schemas, `validateTriggerTypes` | the `MetricsConfig`; `typeInference` |
| `Validators` | every check of `McValidator`, the shallow ones | none |
| `TextprotoNames` | the renames between legacy and canonical field names | none |
| `CompileRequest` | `handleCompile`, `ToSession` with all item types, `compileSession`, `handleValidate`, `handleFileDescriptors` | the request, its session, its errors, the answer |
| `CompileProperties` | the properties | none |

A step is one function of the pipeline, or one element where the order of the
elements is random or depends on names: a file that is collected
(`CollectFile`), a source or builder node that is inferred (`InferNode`), a type
that is harvested (`HarvestNext`), a file whose imports are pruned
(`PruneNext`). Graph orderings are modelled by what `TopologicalOrdering` is shown
to return, any order of the dependencies. Orders that follow names, as those of
sources and of harvested types, are left open too, so that every naming is
covered; the lists of the configuration stay in the order of the request. After
a successful `/compile` a client sends the answer to `/validate`
(`ValidateCompiled`). Which of several errors is reported is not told apart.
protodesc and protoregistry are external; what a file may refer to and when
`NewFile` and `RegisterFile` refuse one are taken from how the code depends on
them: a file is its imports, its types with the values of its enums, its other
names (services and extensions) and its package with the ones around it. An
expression is given by its nodes, children first (what `ExpressionParser` makes of
it). `MCCompileRequest` lists the requests.

**The proofs** are in `LocalCacheLemmas` and `LocalCacheProofs`; in
`CatalogCacheProofs`, with a section each on the safety of what is served, on
notifications and on the refinement of `CatalogStore`; in
`TopologicalOrderingProofs`, `TriggerParsingProofs` and `ExpressionParserProofs`;
and in `CompileRequestProofs`, which rests on the lemmas of `Induction` about
folds and recursive functions.

Definitions named after another one with a suffix and introduced by the comment
"Mutant:" are deliberate bugs. No specification uses them; replacing the
definition by the mutant must make TLC report the property named in
`PROJECT.json`, which shows that the property depends on that code.

## 3. What is model-checked

| Run | Configuration | Bounds | Properties |
|---|---|---|---|
| `local_cache` | `MCLocalCache.cfg` | 3 versions, 2 catalogs, capacity 2, 6 accesses | map and list agree; capacity; order by last use; least recently used is evicted |
| `topological_ordering` | `MCTopologicalOrdering.cfg` | all graphs over 3 nodes, 4 entry points | the search invariant; order is topological; cycle is real; the search ends |
| `catalog_notifications` | `CatalogNotifications.cfg` | 2 replicas, 2 requests at a time, 3 in all, no faults, both caches | stale copies only in transit; requests end; copies converge |
| `catalog_faults` | `CatalogFaults.cfg` | the same on a cluster, with lookups, overlapping POSTs and 1 fault | only stored catalogs are kept and served |
| `refine_redis` | `RefineRedis.cfg` | 2 replicas, Redis only, 3 requests, 1 fault | implements `CatalogStore` |
| `trigger_parsing` | `TriggerParsing.cfg` | 2 requests of 2 triggers out of 13, and ones with a two-format trigger | exactly the faulty triggers are reported; a refusal over several formats shows a violation; expression ids resolve |
| `expression_parser` | `ExpressionParser.cfg` | trees of up to 3 operators under all four option settings, all strings of up to 3 of 18 tokens, the same after 6 beginnings of builders and functions, literals up to one beyond the largest type, pairs of expressions | nodes are in order, unique and used; literals have the narrowest type; an expression means its tree |
| `compile` | `CompileRequest.cfg` | up to 3 files with imports, public imports, nested types and enums, in 1 or 2 sets; one name of each kind in two files; types in reserved packages; 2 aggregators and up to 2 reports over a source, with expressions of up to 6 nodes; every kind of faulty item, parameter and configuration | the 12 properties below |

Why the bounds are enough to be interesting: three versions and a capacity of
two make evictions, re-insertions and deletions meet; three nodes have
self-loops, cycles behind a tail and nodes reached in two ways; two replicas
and three requests let a POST, a competing POST or DELETE and a third request
overlap with the notifications of all of them, and one fault may hit any of
their steps; two requests of two triggers have a first and a second trigger
of every kind, duplicates among them, and race for the shared error; three
operators put one of each kind before, between and after others, and the types
of numbers are shrunk so that every boundary is met on both sides; three files
make a type visible directly, through a public import and through a chain of
them, and a builder refer to a builder that refers to a source. For the
safety properties that are proved (next section) no bound is left. Symmetry
is used in the safety runs `catalog_faults` (replicas, request slots,
catalogs) and `trigger_parsing` (request slots), whose specifications do not
tell these apart.

The properties of `compile`:

* `RefusedForCause`, `RegistryComplete`, `PanicsOnlyAsKnown`: descriptor sets are
  accepted or refused for what they contain and not for the order Go's maps put
  their files in, and the resolver that results knows all of their types.
* `FollowsExpressions`, `NothingDropped`: the configuration says what the request
  said, through two numberings of expressions and two names for some values.
* `InferredBeforeUse`, `BuildersTyped`: no expression meets a type that is not
  inferred yet, and every builder ends up with fields of the types it assigns.
* `ShakenIsClosed`, `ImportsIndependentOfOrder`: what is left after pruning is
  complete, and the same for every order.
* `CompiledValidates`, `RenderedLegacy`: what `/compile` answers, in either
  version's format, `/validate` accepts, and v1 texts have legacy names only.

Their exceptions are behaviours of the code. Each was found when the property
failed without it:

* One name in two files of a set (`Clash`): a type, the value of an enum, a
  service, or a package that is a type elsewhere. `RegisterFile`'s error is
  ignored, so the set is accepted or refused by chance when one of the two files
  is imported; types of one name that differ are refused in every order. The
  clash may be between the set of the signals and the one of the request: then
  `/compile` answers with a configuration that has both files, and `/validate`
  accepts or refuses it by chance.
* An import that is in no file of a set panics, where the text at
  `mcg/type_resolvers/fdset_sort.go:54` speaks of a "Missing or circular
  dependency"; a field without an aggregation sent to `/validate` panics in
  `ExtractNodeIndex`. Both are answered with an internal error.
* A file of the request with a type in the package of the schemas or in
  `google.protobuf` (`DeclaresReserved`): the schemas import it, the tree shaker
  takes it for a file of the binary or for the one it makes
  (`IsTypeInOutputDescriptors`), and `/compile` panics on its own output. A type
  of that package also takes the place of the schema of its name, so that an
  expression meets a builder without a type (`Taken`).
* A report with the name of an aggregator (`Collides`) gets no type, or the
  other's; so does a builder node whose generated name is a source's.
* Different files with one path in two sets (`MergedPaths`) are merged by the tree
  shaker.
* Canonical sources without a name pass `/compile` and fail `/validate`.
* Indexing before a right-associative `**` (the run `expression_subscripts`), and
  `x ** (y[i].f)`, whose parentheses are rejected as redundant while without them
  it means `(x ** y)[i].f`.

Other behaviours met on the way, which the models have and no property is about:
ill-formed texts such as `x !` and `x y +` are accepted; `-2 ** 2` is `(-2) ** 2`,
since the sign belongs to the literal; `a ** b[0]` is `(a ** b)[0]`; a second file
without a name in a set is dropped as a duplicate; a field of a message type is
that type or an `Any` depending on whether a predefined use of the type was met
before, hence on names; the node indices of conditional triggers are not checked
by `/validate`.

Four runs are expected to end in a violation. They state what the documentation
says and TLC's trace shows what the code does:

* `catalog_delete` (`DeletedIsGone`): A stores v; a DELETE of v succeeds. `Cache.Delete`
  skips the local cache when Redis had the key, and A ignores the notification
  because the writer key still names A. A serves the deleted catalog for good.
* `catalog_update` (`UpdatedEverywhere`): A's transaction commits, then B's; A handles B's
  notification; only then A stores its own, by now overwritten, catalog
  locally and keeps it.
* `trigger_reports` (`ReportsOnlyOwnViolations`): the answer to one request
  contains the field violations of another.
* `expression_subscripts` (`IndexEndsAtBracket`): with
  `enable_right_associative_exponentiation=true`, `a[0] ** c` is compiled into
  `a[(0 ** c)]`. `]` leaves the subscript on the operator stack, and `**` pops only
  what binds more strongly than itself.

Two more instances of `CatalogCache` are worth running by hand. With
`IsRedisCluster = TRUE` and `SerialSets = TRUE`, `UpdatedEverywhere` fails although no
POSTs overlap, as two replicas may have one client id. With
`EnableRedCache = FALSE`, one replica and a capacity of 1, the local cache alone
implements a `CatalogStore` that may forget.

`StaleOnlyInTransit` and `Convergence` are stated so as to hold: they are
checked without overlapping POSTs of a version and without a cluster, and they
except the copies that `catalog_delete` is about.

**Fairness.** `CatalogCache!Fairness` is weak fairness of each request's steps,
of each notification goroutine and of resubscription: the Go scheduler runs
every runnable goroutine, Redis commands return or fail, and go-redis keeps
trying to reconnect. Nothing obliges clients to send requests, replicas to
start, or faults to happen. `TopologicalOrdering!FairSpec` says that a running
search goes on.

Deadlock checking is off where the bounded environment stops asking, which is
how these systems may rest: `CatalogCache` and `TriggerParsing` after the
last request, `TopologicalOrdering` after its answer. It is on for
`ExpressionParser` and `CompileRequest`, whose only step after the answer is to
stay: that no request gets stuck on the way is part of these runs.

## 4. What is proved

`LocalCacheProofs`, for every set of versions and catalogs and every integer
capacity: `TypeOK`, `Consistent`, `Bounded`, `OrderedByLastUse` and the action
property `EvictsLeastRecentlyUsed`. The inductive invariant `IInv` is the
conjunction of these and "no version was accessed later than now". The parts
need each other: a method follows a pointer to the right element only when the
map matches the list, and eviction takes the oldest entry only when the list
is in order. The lemmas on `MoveToFront`, `PushFront`, `Remove`, `ElementOf` and
on each method are in `LocalCacheLemmas`.

`CatalogCacheProofs`, for any number of replicas, request slots, versions and
faults, all cache configurations, and with or without a cluster: `TypeOK` and
`ServedWasCommitted`. The inductive invariant adds that every local cache is
consistent and holds only committed catalogs (`GoodCache`), and that a request
about to store locally carries a catalog that is committed under its version,
while one that is past validation carries a parsable one (`GoodRequest`).
`StepInv`, proved with it, says at which step of its operation, and in which
configuration, a request can be; the next two sections start from both.

Its section on notifications, for the configuration `WorkingNotifications` (both
caches, one Redis server, no failures, no two POSTs of one version at a time) and
any number of replicas, requests, versions and events in flight:
`StaleOnlyInTransit`, and from it that only a deletion leaves a wrong copy behind
once everything has come to rest (`SettledAgree`), so that without deletions every
update reaches every replica (`UpdatesReachEveryReplica`). The hypotheses are what
the runs `catalog_update` and `catalog_delete` show to be needed. By itself
`StaleOnlyInTransit` is not inductive: `TransitInv` adds that the running replicas
are subscribed under ids that differ (`OwnIds`), that one POST at most is open per
version (`OneOpenSet`), and that a POST about to store locally still finds its own
id and its catalog in Redis, unless the version was deleted (`SetInHand`). The
argument follows the writer key: of all replicas only one can find its own id
there, so the others drop their copies, and that one has its own store to come.

Its section on the refinement: with one store only (`SingleStore`: Redis behind any
number of replicas, or the local cache of a single process) `CatalogCache`
implements `CatalogStore`, under conflicts, lost replies, lost connections and
crashes. The initial states are mapped, then each action is matched with the
abstract step it appears to be: `RedisExec`, `RedisDel` and `RedisGet` with the
instant the request takes effect, errors and lost replies with an answer that
says nothing about the effect, an eviction or a crash of a process that has only
its memory with forgetting, everything else with a stutter.

`TopologicalOrderingProofs`, for every set of integer nodes: `TypeOK`,
`SearchInv`, `OrderIsTopological` and `CycleIsReal`. The inductive invariant is `SearchInv`:
the path is the chain of calls, every call was made along an edge, what a call
has finished is visited, and the result is closed under successors, which all
come later in it. That last part is the topological order; the chain of calls
is the cycle.

`TriggerParsingProofs`, for any number of handlers and trigger lists of any
length: `TypeOK`, `EachFaultReported`, `ExpressionsResolve` and
`RefusalShowsViolation`. The inductive
invariant is the loop invariant of `parseTriggers`: when the loop comes to trigger
number `at`, the error list has exactly the faulty triggers before it, in order,
the session the others, and the ids of the session's triggers are those of their
own expressions (`Accounted`, `ResolvesAll`); while a violation is being added to the
shared error, the trigger at hand has several formats (`InLoop`). That the
duplicate check, which looks at accepted triggers only, refuses the triggers
whose name a well-formed trigger had before is a lemma (`DuplicateMeans`).
`RefusalShowsViolation` needs `SharedInv`: the shared error has a violation before
the trigger that caused it is refused, and an append that overwrites others, or
cuts them off, leaves at least its own.

`ExpressionParserProofs`, for every session of token sequences, well formed or
not, of any length and nesting, all options and all bounds of the numeric types:
`TypeOK`, `NodesInOrder`, `NoOrphans` and `LiteralsNarrowest`. The heart is
`CompileTokensGood`: `compileTokens` leaves a list of nodes that are in order and
distinct, and whatever was referred to before still is. It is proved along the two
recursions of the code, over the tokens (`Compiles`) and over the operators that
one of them pops (`Pops`), from what each handler preserves (`PSGood`): operands
are indices of the list, and each node is an operand, an argument of another node
or held elsewhere (`Covered`). "Elsewhere" is what makes `NoOrphans` inductive: a
node may be held by idxMap, by a field of an open builder, or by a builder among
the tokens that still wait in a frame (`Held`). `IInv` joins this with what the
frames are like: only the last one may be between two fields, and the first is the
expression itself.

`CompileRequestProofs`, for every set of requests, every set of files of the
binary and every order that Go's maps may choose:

| Theorem | Property | Rests on |
|---|---|---|
| `Sessions` | `SessionInv` | |
| `KeepsBothNames` | `NothingDropped` | `SessionInv` |
| `CompiledExpressions` | `FollowsExpressions` | `SessionInv` |
| `InferenceOrder` | `InferredBeforeUse` | `InferenceInv` |
| `LegacyAnswers` | `RenderedLegacy` | `TextInv` |
| `Registries` | the invariant of the registry | `RegistryInv` |
| `RefusalsExplained`, `TypesRegistered` | `RefusedForCause`, `RegistryComplete` | `RegistryInv` |
| `WellTyped` | `TypeOK` | all of these, and `FlowOK` |
| `PruningOrder` | `ImportsIndependentOfOrder` | `PruningInv` |

The invariants follow the request and build on each other.

* `SessionInv` is the loop invariant of the `parse...` functions: after so many
  triggers, sources and reports, the expressions stashed under the ids of the
  session are those of the request at the same places, or the error list says
  which item failed. After `compileSession` it becomes "what the node denotes is
  the expression" (`ConfigDenotes`). Neither theorem would be inductive by itself,
  since the ids they speak of are given out in one stage and translated, twice,
  in later ones.
* `InferenceInv` says that a builder that was inferred has a type, unless its
  inference failed or its name is taken, and that every ad hoc message has a maker
  among the sources, reports and builders. The exception `Taken` of
  `InferredBeforeUse`, a declared type with the name of a schema, was met in this
  proof.
* `RegistryInv` says of a registry under construction (`CurrentRegistry`) which
  files of the set were gathered, that each was accepted and can be imported unless
  names clash, that every collected type is that of its file and no type of a
  gathered file is missing, and that the types of all earlier sets are still
  registered with their definitions; of the tree shaker (`ShakenSound`), that what
  it keeps comes from files of the sets. `RefusedForCause` and `RegistryComplete`
  are what this says at the end of a set.
* `PruningInv` says which imports a kept file has, before and after its turn, in
  terms of the files as they were: visibility is read through public imports,
  and no file loses one of these. That is why the order does not matter.
* `FlowOK` is the order of the stages, and `TextInv` that a v1 client is only
  given texts in the legacy format.

Assumptions, all named in the modules and evaluated by TLC: `Capacity` is an
integer; nodes of a graph are integers (any totally ordered set would do); the
catalogs, the marker values and the answers are distinct; the bounds on requests
and faults are natural numbers, of any size; the bounds of int32, int64 and
float64 are ascending; a session is a non-empty sequence of expressions, each a
sequence of lexer tokens. For the compile pipeline: requests are well-formed JSON
(`RequestsAssumption`: lists are lists, an expression refers to its own nodes,
children first, and no set has both a file without a name and one with the path
the resolver makes up for it); the files of the binary import, and refer to, only
each other (`GlobalFilesAssumption`); the file of `Any` and the
well-known ones are among them (`AnyPathAssumption`, `WellKnownAssumption`).

Recursion: the prover cannot instantiate an induction rule with a predicate, but
it can with a set. `InductionUpTo` (from the least element of a set of natural
numbers) is how the recursive functions of `ExpressionParser` are reasoned about.
`CompileRequestProofs` goes one step further. In `Induction` the step of a fold or
function and the property to show are constants, and induction for sets of
numbers is a hypothesis that `CompileRequestProofs` proves; each loop of the
program is an `INSTANCE` of it with its own step and property. What is reached
over imports (`Reach`) is a recursive function, and is reasoned about in the same
way.

Model-checked and not proved:

* everything about liveness (`RequestsEnd`, `Convergence`, `SearchEnds`), which is
  beyond the prover;
* `MeansItsTree`, which compares the parser with trees of any depth and whose
  reference, in `ExpressionGrammar`, has `RECURSIVE` operators (as has
  `MCExpressionParser`; no other module reaches one);
* `BuildersTyped`, which the run shows for requests that declare no type in the
  package of the schemas under the name of one, and which such a type can break;
* `ShakenIsClosed`, `PanicsOnlyAsKnown` and `CompiledValidates`. The second follows
  from the first, as what `/compile` validates is the shaken set, and the third from
  both. The invariants above have what they need of the files that are kept and of
  their imports. Missing is that all a kept message refers to was harvested.

## 5. What is not modelled

* The lexer (`mcg/expressions/lexer.go`): characters to tokens. Its only state is a
  position in a text, and what matters downstream, the kinds of tokens and the
  parts of identifiers, is the input of `ExpressionParser`.
* The contents of source configurations, durations and UUIDs: formatting and
  parsing by libraries. The models have whether they are valid.
* Rendering: error messages, the layout of the text format, response headers.
* What extensions, services and options of files contain, and look-up by type URL,
  which the code only passes on to protobuf. The names of extensions and services
  are modelled, since `RegisterFile` refuses a name that is taken.
* Shutting down: `main.go` waits two seconds for open requests and ends the process
  either way, which is `Crash` for those that are still open.
* The listing of catalog versions, which only reads; the binding of JSON beyond
  whether it succeeds.
* The OpenAPI and Swagger pages, Terraform and build files: no program logic.
* Requests to `/compile` at the same time: apart from the catalog cache and the
  shared errors, which have models of their own, they share no state.

## 6. Plan

1. Done: local cache, catalog cache and its abstract specification, graph,
   triggers; expression parser; the compile pipeline from the request to the
   answer.
2. Done: theorems on the caches and their notifications, the refinement of
   `CatalogStore`, the graph search, triggers, the expression parser, and on the
   compile pipeline all but the properties listed above.
3. Left, in this order: that harvesting ends with all that the kept messages refer
   to, and from it `ShakenIsClosed`, `PanicsOnlyAsKnown` and `CompiledValidates`;
   `BuildersTyped` with the exception it needs.
