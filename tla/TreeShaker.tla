----------------------------- MODULE TreeShaker -----------------------------
(***************************************************************************)
(* TreeShake (mcg/inference/tree_shaker.go): of the files behind the types *)
(* a configuration refers to, only these types, what they need and the     *)
(* imports that make it visible are kept.                                  *)
(*                                                                         *)
(* Types are harvested in the order of their names, which the model leaves *)
(* open; imports are pruned in the order of a Go map, which is random.     *)
(* A nested type counts as its top-level message, whose harvest covers it. *)
(***************************************************************************)
EXTENDS TypeRegistry

CONSTANT WellKnownPaths   \* wellKnownTypesPaths

ASSUME WellKnownAssumption == WellKnownPaths \subseteq GooglePaths

VARIABLES
  shaken,     \* treeShaker.files, by path
  unpruned    \* the paths whose imports are still to be pruned

shakerVars == <<shaken, unpruned>>

\* The file of set k that a reference of file refers to, and the definition.
Target(k, file, f) ==
  CHOOSE g \in Visible(FilesIn(k), file) : Declares(g, f.type, f.typeName)

Referred(k, file, f) ==
  CHOOSE d \in Definitions(Target(k, file, f)) : d.name = f.typeName

\* getRootMessage, as a place: the path and the name of the top-level message.
Place(path, name) == [path |-> path, name |-> name]

\* The references in a top-level message and all that is nested in it.
ReferencesIn(file, root) ==
  UNION {References(m) : m \in {m \in Range(file.messages) : m.root = root}}

\* harvestMessageDeps: the messages the fields of a message need; the message
\* around it for a nested enum.
NeededMessages(k, place) ==
  LET file == FilesIn(k)[place.path]
  IN  {Place(Path(Target(k, file, f)), Referred(k, file, f).root) :
         f \in {f \in ReferencesIn(file, place.name) : Referred(k, file, f).root # NoType}}

NeededEnums(k, place) ==
  LET file == FilesIn(k)[place.path]
  IN  {Place(Path(Target(k, file, f)), f.typeName) :
         f \in {f \in ReferencesIn(file, place.name) : Referred(k, file, f).root = NoType}}

\* The file of the path declares a type of the name already.  Names are compared
\* without their package.
InProto(path, kind, name) ==
  /\ path \in DOMAIN shaken
  /\ \E d \in shaken[path].proto : d.kind = kind /\ d.name[2] = name[2]

\* harvestMessage: a message and, recursively, all it needs, up to the messages
\* that are there already.
HarvestedMessages(k, place) ==
  LET places == UNION {{Place(p, m.name) : m \in Range(FilesIn(k)[p].messages)} : p \in DOMAIN FilesIn(k)}
      needed == [p \in places |->
                   IF InProto(p.path, "message", p.name) THEN {} ELSE NeededMessages(k, p)]
  IN  Reach({place}, needed)

\* getOrInit: the files at the paths, and the ones they import, unless a file
\* with the path is there already.
getOrInit(k, paths) ==
  LET at      == FilesIn(k)
      imports == [p \in DOMAIN at \ DOMAIN shaken |-> Range(at[p].deps)]
      all     == Reach(paths, imports)
  IN  Merge(shaken, [p \in all |-> [deps |-> at[p].deps, public |-> at[p].public,
                                    packages |-> at[p].packages,
                                    messages |-> <<>>, enums |-> {}, proto |-> {}]])

\* A message replaces one of its name in messages, which says what the file
\* must import; what the file declares is the one that came first.
Harvest(k, messages, enums) ==
  LET touched == getOrInit(k, {p.path : p \in messages \cup enums})
      at(S, p) == {e.name : e \in {e \in S : e.path = p}}
      new(S, p, kind) == {[kind |-> kind, set |-> k, name |-> n] :
                            n \in {n \in at(S, p) : ~InProto(p, kind, n)}}
  IN  shaken' = [p \in DOMAIN touched |->
                   [touched[p] EXCEPT
                      !.messages = Merge([n \in at(messages, p) |-> k], @),
                      !.enums    = @ \cup at(enums, p),
                      !.proto    = @ \cup new(messages, p, "message") \cup new(enums, p, "enum")]]

\* One of the types a configuration refers to.
HarvestType(kind, name) ==
  LET entry == EntryOf(kind, name)
      k     == entry.set
      roots == IF entry.def.root = NoType THEN {}
               ELSE HarvestedMessages(k, Place(entry.path, entry.def.root))
      new   == {p \in roots : ~InProto(p.path, "message", p.name)}
  IN  /\ Harvest(k, roots,
                 (UNION {NeededEnums(k, p) : p \in new})
                   \cup {p \in {Place(entry.path, name)} : entry.def.root = NoType})
      /\ UNCHANGED unpruned

StartPruning == unpruned' = DOMAIN shaken /\ UNCHANGED shaken

-----------------------------------------------------------------------------
(* pruneUnusedImports. *)

\* getMessageDeps: the paths of the files with the types a message uses.
getMessageDeps(path, name) ==
  LET k    == shaken[path].messages[name]
      file == FilesIn(k)[path]
  IN  {path} \cup {Path(Target(k, file, f)) : f \in ReferencesIn(file, name)}

grantsVisibilityTo(path, target) ==
  target \in Reach({path}, Exports(shaken))

\* Mutant: a public import no type of the file itself needs is pruned too.
RequiredByTypes(path) ==
  UNION {getMessageDeps(path, m) : m \in DOMAIN shaken[path].messages}

RequiredDeps(path) ==
  (UNION {getMessageDeps(path, m) : m \in DOMAIN shaken[path].messages})
    \cup PublicImports(shaken[path])

\* Mutant: only a file that is itself required is imported.
KeepsDirectly(path, dep) == dep \in RequiredDeps(path)

Keeps(path, dep) == \E target \in RequiredDeps(path) : grantsVisibilityTo(dep, target)

PruneImports(path) ==
  LET file == shaken[path]
      kept == {i \in DOMAIN file.deps : Keeps(path, file.deps[i])}
      new(i) == Cardinality({j \in kept : j <= i})
  IN  /\ path \in unpruned
      /\ unpruned' = unpruned \ {path}
      /\ shaken'   = [shaken EXCEPT
           ![path].deps   = [n \in 1 .. Cardinality(kept) |->
                               file.deps[CHOOSE i \in kept : new(i) = n]],
           ![path].public = {new(i) : i \in kept \cap file.public}]

\* Mutant: files without a type that is kept go, imported or not.
PruneAllUnused ==
  LET used == {p \in DOMAIN shaken : DOMAIN shaken[p].messages \cup shaken[p].enums # {}}
  IN  /\ unpruned = {}
      /\ shaken'  = [p \in used \ WellKnownPaths |-> shaken[p]]
      /\ UNCHANGED unpruned

\* pruneUnusedAndWellKnownFileDescriptors.
PruneFiles ==
  LET used    == {p \in DOMAIN shaken : DOMAIN shaken[p].messages \cup shaken[p].enums # {}}
      imports == [p \in DOMAIN shaken |-> Range(shaken[p].deps)]
      kept    == Reach(used, imports) \ WellKnownPaths
  IN  /\ unpruned = {}
      /\ shaken'  = [p \in DOMAIN shaken \cap kept |-> shaken[p]]
      /\ UNCHANGED unpruned

\* sortedFileDescriptors fails on a cycle.  There is none, as a file comes with
\* all it imports, and these are there already or come from the same set.
ShakenInCircles ==
  HasCycle([p \in DOMAIN shaken |-> Range(shaken[p].deps) \cap DOMAIN shaken])

\* The definitions of a kept file: its messages with all that is nested in them,
\* and its enums.  Its services and extensions are not taken over.
Kept(path, defs(_)) ==
  UNION {{d \in Range(defs(FilesIn(e.set)[path])) :
            d.root = e.name \/ (e.kind = "enum" /\ d.name = e.name)} :
           e \in shaken[path].proto}

ShakenFile(path) ==
  [path |-> path, deps |-> shaken[path].deps, public |-> shaken[path].public,
   packages |-> shaken[path].packages, names |-> {},
   messages |-> SetToSeq(Kept(path, LAMBDA file : file.messages)),
   enums |-> SetToSeq(Kept(path, LAMBDA file : file.enums))]
=============================================================================
