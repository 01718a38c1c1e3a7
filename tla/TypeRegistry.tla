---------------------------- MODULE TypeRegistry ----------------------------
(***************************************************************************)
(* EnrichedTypeResolver (mcg/type_resolvers): the message and enum types   *)
(* of file descriptor sets, collected file by file and registered by name. *)
(*                                                                         *)
(* A file has a path, imports (deps, of which the positions in public are  *)
(* public), messages and enums.  Nested types follow the one they are in;  *)
(* root is the top-level message around a type, the type itself if it is   *)
(* a top-level message, NoType if it is a top-level enum.  A type's name   *)
(* is the pair of its package and the name in it.  Three more sets of such *)
(* names can clash: the values of an enum, the names of a file's services  *)
(* and extensions, and its packages: its own and the ones around it.       *)
(***************************************************************************)
EXTENDS Integers, Sequences, FiniteSets, SequencesExt

CONSTANTS
  GlobalFiles,   \* protoregistry.GlobalFiles: the files of the binary, by path
  GooglePaths    \* the paths that begin with google/protobuf

VARIABLES
  fdSet,         \* the set that is being collected, a sequence of files
  pending,       \* the paths SortFileDescriptorSet found that are still to come
  files,         \* the files made of each set so far, by path
  localFiles,    \* the paths that importing files can resolve
  collected,     \* msgTypes and enumTypes, one after the other
  types,         \* EnrichedTypeResolver.Local
  result         \* "none", "collecting", "ok", "error" or "panic"

registryVars == <<fdSet, pending, files, localFiles, collected, types, result>>

IsSequence(s) == s \in Seq(Range(s))

NoType == <<>>
NoPath == ""               \* a file without a name
temporaryPath == "tmp.proto"

Type(kind, name, repeated) == [type |-> kind, typeName |-> name, repeated |-> repeated]

\* f, and g where f has nothing; f with the value v at x.
Merge(f, g)   == [x \in DOMAIN f \cup DOMAIN g |-> IF x \in DOMAIN f THEN f[x] ELSE g[x]]
With(f, x, v) == Merge(f, [y \in {x} |-> v])

\* What the steps of next reach from S.  All is reached after as many steps as
\* there are elements to go on from.
Reach(S, next) ==
  LET within[i \in 0 .. Cardinality(DOMAIN next)] ==
        IF i = 0 THEN S
        ELSE LET near == within[i - 1]
             IN  near \cup UNION {next[x] : x \in near \cap DOMAIN next}
  IN  within[Cardinality(DOMAIN next)]

\* An element leads back to itself.
HasCycle(next) == \E x \in DOMAIN next : x \in Reach(next[x], next)

-----------------------------------------------------------------------------
(* Files. *)

\* Only a message has fields.
IsFile(f) ==
  /\ IsSequence(f.deps) /\ IsSequence(f.messages) /\ IsSequence(f.enums)
  /\ f.public \subseteq DOMAIN f.deps
  /\ \A m \in Range(f.messages) : "fields" \in DOMAIN m
  /\ \A e \in Range(f.enums) : "fields" \notin DOMAIN e

\* A set does not have a file of the name that its file without a name gets.
IsFileSet(set) ==
  /\ IsSequence(set)
  /\ \A f \in Range(set) : IsFile(f)
  /\ ~({NoPath, temporaryPath} \subseteq {f.path : f \in Range(set)})

-----------------------------------------------------------------------------
(* SortFileDescriptorSet: files by the order of their imports.               *)

IgnoreDependency(path) == path \in GooglePaths

\* Of two files with one path the second is ignored.
PathsOf(set) == {p \in {set[i].path : i \in DOMAIN set} : ~IgnoreDependency(p)}

FileOf(set, path) == set[Min({i \in DOMAIN set : set[i].path = path})]

Dependencies(set, path) ==
  IF path \in PathsOf(set)
  THEN {d \in Range(FileOf(set, path).deps) : ~IgnoreDependency(d)}
  ELSE {}

\* An import makes a node of the graph whether or not its file is in the set.
GraphNodes(set) == PathsOf(set) \cup UNION {Dependencies(set, p) : p \in PathsOf(set)}

MissingImports(set) == GraphNodes(set) \ PathsOf(set)

Circular(set) == HasCycle([p \in GraphNodes(set) |-> Dependencies(set, p)])

-----------------------------------------------------------------------------
(* protodesc.NewFile and protoregistry.Files.                                *)

\* The files that set number k and the binary have, by path.
FilesIn(k) == Merge(GlobalFiles, files[k])

PublicImports(file) == {file.deps[i] : i \in file.public}
Exports(at) == [p \in DOMAIN at |-> PublicImports(at[p])]

\* What a file may refer to, of the files at their paths: itself, its imports,
\* and what those import publicly.
Visible(at, file) ==
  {file} \cup {at[p] : p \in DOMAIN at \cap Reach(Range(file.deps), Exports(at))}

Definitions(file) == Range(file.messages) \cup Range(file.enums)
Declares(file, kind, name) ==
  \E d \in Range(IF kind = "message" THEN file.messages ELSE file.enums) : d.name = name
DeclaredNames(file) == {d.name : d \in Definitions(file)}
OtherNames(file)    == file.names \cup UNION {e.values : e \in Range(file.enums)}

\* A name of one file is a name, or a package, of the other.
NamesClash(f, g) ==
  LET all(file) == DeclaredNames(file) \cup OtherNames(file)
  IN  all(f) \cap (all(g) \cup g.packages) # {} \/ f.packages \cap all(g) # {}

\* The fields of a message that refer to a type.
References(message) == {f \in Range(message.fields) : f.type \in {"message", "enum"}}

DanglingReference(at, file) ==
  \E m \in Range(file.messages) : \E f \in References(m) :
    ~\E g \in Visible(at, file) : Declares(g, f.type, f.typeName)

\* The files of the binary import, and refer to, only each other.
ASSUME GlobalFilesAssumption ==
  /\ IsFiniteSet(DOMAIN GlobalFiles)
  /\ NoPath \notin DOMAIN GlobalFiles
  /\ \A p \in DOMAIN GlobalFiles :
       /\ IsFile(GlobalFiles[p])
       /\ GlobalFiles[p].path = p
       /\ Range(GlobalFiles[p].deps) \subseteq DOMAIN GlobalFiles
       /\ ~DanglingReference(GlobalFiles, GlobalFiles[p])

\* A file declares no name, and imports no path, twice.
NothingTwice(file) ==
  LET defs == file.messages \o file.enums
  IN  /\ \A i, j \in DOMAIN defs : defs[i].name = defs[j].name => i = j
      /\ \A i, j \in DOMAIN file.enums : i = j \/ file.enums[i].values \cap file.enums[j].values = {}
      /\ DeclaredNames(file) \cap OtherNames(file) = {}
      /\ \A i, j \in DOMAIN file.deps : file.deps[i] = file.deps[j] => i = j

NewFile(k, file) ==
  /\ Range(file.deps) \subseteq localFiles
  /\ NothingTwice(file)
  /\ ~DanglingReference(FilesIn(k), file)

\* RegisterFile refuses a file with a name that is taken; its error is ignored.
Registers(k, file) ==
  /\ file.path # NoPath
  /\ file.path \notin localFiles
  /\ \A p \in localFiles : ~NamesClash(file, FilesIn(k)[p])

-----------------------------------------------------------------------------
(* collectTypesFromFileDescriptorSet. *)

Path(file) == IF file.path = NoPath THEN temporaryPath ELSE file.path

Entries(k, file, kind, defs) ==
  [i \in DOMAIN defs |-> [kind |-> kind, def |-> defs[i], path |-> Path(file), set |-> k]]

\* earlier: the files of the sets before it.
StartCollecting(set, earlier) ==
  /\ fdSet'      = set
  /\ files'      = Append(earlier, <<>>)
  /\ localFiles' = DOMAIN GlobalFiles
  /\ collected'  = [messages |-> <<>>, enums |-> <<>>]
  /\ pending'    = GraphNodes(set)
  /\ result'     = IF Circular(set) THEN "error" ELSE "collecting"

\* A resolver without types is extended.
NewEnrichedTypeResolver(set) == StartCollecting(set, <<>>) /\ types' = <<>>

\* Mutant: the files are taken in any order.
NextInAnyOrder(path) == path \in pending

\* ReverseTopologicalOrdering takes the nodes of a Go map: the order is any that
\* puts imports first (TopologicalOrdering).
NextInOrder(path) == path \in pending /\ Dependencies(fdSet, path) \cap pending = {}

\* A node of the graph without a file is a nil pointer in the sorted list.
CollectFile(path) ==
  /\ result = "collecting"
  /\ NextInOrder(path)
  /\ IF path \notin PathsOf(fdSet)
     THEN /\ result' = "panic"
          /\ UNCHANGED <<fdSet, pending, files, localFiles, collected, types>>
     ELSE LET k    == Len(files)
              file == FileOf(fdSet, path)
          IN  IF NewFile(k, file)
              THEN /\ pending'    = pending \ {path}
                   /\ files'      = [files EXCEPT ![k] = With(@, Path(file), file)]
                   /\ localFiles' = localFiles \cup {p \in {path} : Registers(k, file)}
                   /\ collected'  =
                        [messages |-> collected.messages \o Entries(k, file, "message", file.messages),
                         enums    |-> collected.enums \o Entries(k, file, "enum", file.enums)]
                   /\ UNCHANGED <<fdSet, types, result>>
              ELSE /\ result' = "error"
                   /\ UNCHANGED <<fdSet, pending, files, localFiles, collected, types>>

-----------------------------------------------------------------------------
(* ExtendLocalTypes: messages first, then enums, up to the first conflict.   *)

\* A definition with the types nested in it.
Definition(entry) ==
  {d \in Definitions(files[entry.set][entry.path]) : entry.def.name \in {d.name, d.root}}

\* Mutant: a type with a name that is taken is dropped.
RegisterFirst(local, entry) ==
  IF entry.def.name \in DOMAIN local.types THEN local
  ELSE [local EXCEPT !.types = With(@, entry.def.name, entry)]

Register(local, entry) ==
  LET name  == entry.def.name
      taken == name \in DOMAIN local.types
      same  == /\ local.types[name].kind = entry.kind
               /\ Definition(local.types[name]) = Definition(entry)
  IN  IF ~local.ok \/ (taken /\ same) THEN local
      ELSE IF taken THEN [local EXCEPT !.ok = FALSE]
      ELSE [local EXCEPT !.types = With(@, name, entry)]

ExtendLocalTypes ==
  /\ result = "collecting"
  /\ pending = {}
  /\ LET extended == FoldLeft(Register, [types |-> types, ok |-> TRUE],
                              collected.messages \o collected.enums)
     IN  /\ types'  = extended.types
         /\ result' = IF extended.ok THEN "ok" ELSE "error"
  /\ UNCHANGED <<fdSet, pending, files, localFiles, collected>>

RegistryStep == (\E path \in pending : CollectFile(path)) \/ ExtendLocalTypes

-----------------------------------------------------------------------------
(* FindMessageByName and FindEnumByName: the local types, then the ones of   *)
(* the binary.                                                               *)

GlobalType(kind, name) ==
  \E p \in DOMAIN GlobalFiles : Declares(GlobalFiles[p], kind, name)

IsLocal(kind, name) == name \in DOMAIN types /\ types[name].kind = kind

Finds(kind, name) == IsLocal(kind, name) \/ GlobalType(kind, name)

\* The type found; one of the binary is in every set.
EntryOf(kind, name) ==
  IF IsLocal(kind, name) THEN types[name]
  ELSE LET path == CHOOSE p \in DOMAIN GlobalFiles : Declares(GlobalFiles[p], kind, name)
       IN  [kind |-> kind, path |-> path, set |-> 1,
            def  |-> CHOOSE d \in Definitions(GlobalFiles[path]) : d.name = name]
=============================================================================
