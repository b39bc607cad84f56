------------------------------- MODULE Profiles -------------------------------
(***************************************************************************)
(* Profiles and what they inherit: the chain of "extends" of a profile     *)
(* (src/app/profile-resolver.ts), the schemas that are merged along chains *)
(* of their own (src/schema/schema-loader.ts), the schema a session runs   *)
(* (selectSchema) and the checks its changed files are put to              *)
(* (src/app/invariants.ts, processScopeAndInvariants).                     *)
(*                                                                         *)
(* A schema is flat here: its stages by their paths, nested ones too, with *)
(* the root at <<>>; every value and edge says whose file it is from.      *)
(***************************************************************************)
EXTENDS Integers, Sequences, SequencesExt, FiniteSets

CONSTANTS
    Libraries,   \* [profile -> [json, extends, schemas, files, invariants, checks]]
    Wanted,      \* the schemas a session may name, "" for none
    ChangedFile  \* [supported, there, readable, breaks]

VARIABLES
    library,     \* what is on disk
    resolution,  \* what resolveEngine said
    moveChecks   \* what became of the move of a session under it

profileVars == <<library, resolution, moveChecks>>

\* There are finitely many profiles with finitely many files, and edges are listed.
ASSUME LibrariesAssumption ==
    \A l \in Libraries :
        /\ IsFiniteSet(DOMAIN l)
        /\ \A p \in DOMAIN l :
             /\ IsFiniteSet(DOMAIN l[p].files)
             /\ \A n \in DOMAIN l[p].files : \A path \in DOMAIN l[p].files[n].stages :
                  LET edges == l[p].files[n].stages[path].edges IN edges \in Seq(Range(edges))

NotGiven == {"not given"}
NoParent == <<"", "">>
NoResolution == [id |-> "", said |-> [kind |-> "none"]]
ProfileError == [kind |-> "error"]
NotRun == [passed |-> FALSE, files |-> {}]

-----------------------------------------------------------------------------
(* Merging. A list of edges that is left out is an empty one.              *)
Pair(edge) == <<edge.from, edge.to>>
EdgesOf(edges, pair) ==
    LET upTo[i \in 0..Len(edges)] ==
          IF i = 0 THEN <<>>
          ELSE IF Pair(edges[i]) = pair THEN Append(upTo[i - 1], edges[i]) ELSE upTo[i - 1]
    IN  upTo[Len(edges)]
PairsInOrder(edges) ==
    LET upTo[i \in 0..Len(edges)] ==
          IF i = 0 THEN <<>>
          ELSE IF Pair(edges[i]) \in Range(upTo[i - 1]) THEN upTo[i - 1]
          ELSE Append(upTo[i - 1], Pair(edges[i]))
    IN  upTo[Len(edges)]

\* Mutant: one edge per pair, the last.
LastOfPair(edges, pair) == <<Last(EdgesOf(edges, pair))>>
GroupOf(edges, pair) == EdgesOf(edges, pair)

\* A pair that the child declares is the child's as a whole.
mergeTransitions(base, extension) ==
    IF base = <<>> \/ extension = <<>> THEN base \o extension
    ELSE LET pairs == PairsInOrder(base \o extension)
         IN  FlattenSeq([i \in DOMAIN pairs |->
                GroupOf(IF EdgesOf(extension, pairs[i]) # <<>> THEN extension ELSE base, pairs[i])])

\* {...base, ...extension}
Spread(base, extension) ==
    [key \in DOMAIN base \union DOMAIN extension |->
        IF key \in DOMAIN extension THEN extension[key] ELSE base[key]]
mergeStage(base, extension) ==
    [fields |-> Spread(base.fields, extension.fields), edges |-> mergeTransitions(base.edges, extension.edges)]
mergeStages(base, extension) ==
    [path \in DOMAIN base \union DOMAIN extension |->
        IF path \notin DOMAIN extension THEN base[path]
        ELSE IF path \notin DOMAIN base THEN extension[path]
        ELSE mergeStage(base[path], extension[path])]

-----------------------------------------------------------------------------
(* resolve: nearest first, <<>> for an error; disk is what is on disk.     *)
KnownProfiles(disk) == {p \in DOMAIN disk : disk[p].json # "none"}

\* Mutant: a cycle ends the walk and nobody is told.
StopAtCycle(chain) == chain
CycleFails(chain) == <<>>

\* One step along "extends", and as many as there are profiles: no chain is longer.
ChainStep(disk, chain) ==
    LET next == disk[Last(chain)].extends
    IN  CASE chain = <<>> \/ next = "" -> chain
          [] chain # <<>> /\ next # "" /\ next \in Range(chain) -> CycleFails(chain)
          [] OTHER -> IF next \in KnownProfiles(disk) THEN Append(chain, next) ELSE <<>>
Follow(disk, chain) ==
    LET after[n \in 0..Cardinality(DOMAIN disk)] ==
          IF n = 0 THEN chain ELSE ChainStep(disk, after[n - 1])
    IN  after[Cardinality(DOMAIN disk)]

\* All are loaded before one is looked for.
profileChain(disk, id) ==
    IF id \in KnownProfiles(disk) /\ \A p \in KnownProfiles(disk) : disk[p].json = "ok"
    THEN Follow(disk, <<id>>) ELSE <<>>

\* The list of the nearest that declares one, an empty one too.
Declaring(disk, chain, list) == {i \in DOMAIN chain : disk[chain[i]][list] # NotGiven}
Nearest(disk, chain, list) ==
    IF Declaring(disk, chain, list) = {} THEN {} ELSE disk[chain[Min(Declaring(disk, chain, list))]][list]

\* resolveInheritedSchema: the files of the chain a schema extends, one step and
\* as many as there are files and one more; a parent of a profile outside the
\* chain is not looked for.
StoredFiles(disk) == UNION {{<<p, n>> : n \in DOMAIN disk[p].files} : p \in DOMAIN disk}
FileOf(disk, at) == disk[at[1]].files[at[2]]

\* Mutant: what a parent extends is not looked for.
FollowOnce(disk, chain, sofar) ==
    IF Len(sofar.files) = 2 \/ sofar.next \notin StoredFiles(disk) \/ sofar.next[1] \notin Range(chain) THEN sofar
    ELSE [sofar EXCEPT !.files = Append(@, sofar.next), !.next = FileOf(disk, sofar.next).extends]

FileStep(disk, chain, sofar) ==
    LET at == sofar.next
    IN  CASE ~ sofar.ok \/ at[1] \notin Range(chain) \/ at \notin StoredFiles(disk) -> sofar
          [] sofar.ok /\ at[1] \in Range(chain) /\ at \in Range(sofar.files) -> [sofar EXCEPT !.ok = FALSE]
          [] OTHER -> [sofar EXCEPT !.files = Append(@, at), !.next = disk[at[1]].files[at[2]].extends]
SchemaFiles(disk, chain, at) ==
    LET after[n \in 0..(Cardinality(StoredFiles(disk)) + 1)] ==
          IF n = 0 THEN [ok |-> TRUE, files |-> <<>>, next |-> at] ELSE FileStep(disk, chain, after[n - 1])
    IN  after[Cardinality(StoredFiles(disk)) + 1]

mergeSchemas(disk, base, at) == mergeStages(base, FileOf(disk, at).stages)

\* A file into what all those it extends were merged to.
MergedFiles(disk, files) ==
    LET last[n \in 0..Len(files)] ==
          IF n = 0 THEN <<>> ELSE mergeSchemas(disk, last[n - 1], files[Len(files) - n + 1])
    IN  last[Len(files)]

\* resolveSingleSchema: as the first of the chain that declares it has it.
ResolveSchema(disk, chain, name) ==
    LET owner == Min({i \in Declaring(disk, chain, "schemas") : name \in disk[chain[i]].schemas})
        found_ == SchemaFiles(disk, chain, <<chain[owner], name>>)
    IN  IF ~ found_.ok \/ found_.files = <<>> THEN ProfileError
        ELSE [kind |-> "schema", owners |-> found_.files, stages |-> MergedFiles(disk, found_.files)]

resolve(disk, id) ==
    LET chain == profileChain(disk, id)
        schemas == [n \in Nearest(disk, chain, "schemas") |-> ResolveSchema(disk, chain, n)]
    IN  IF chain = <<>> \/ \E n \in DOMAIN schemas : schemas[n] = ProfileError THEN ProfileError
        ELSE [kind |-> "profile", schemas |-> schemas, invariants |-> Nearest(disk, chain, "invariants")]

\* One that is named, or the only one.
selectSchema(schemas, wanted) ==
    LET chosen == IF wanted # "" THEN DOMAIN schemas \intersect {wanted} ELSE DOMAIN schemas
    IN  IF Cardinality(chosen) = 1 THEN schemas[CHOOSE n \in chosen : TRUE] ELSE ProfileError

-----------------------------------------------------------------------------
(* Invariants.                                                             *)
Unavailable == {"unavailable"}

\* Mutant: what cannot be loaded has no invariants.
NoneAvailable == {}
CannotLoad == Unavailable

\* importFirst: the first file of the chain that can be read.
getAllProfileInvariants(disk, id) ==
    LET said == resolve(disk, id)
        chain == profileChain(disk, id)
    IN  IF said = ProfileError THEN CannotLoad
        ELSE IF said.invariants = {} THEN {}
        ELSE IF Declaring(disk, chain, "checks") = {} THEN CannotLoad
        ELSE disk[chain[Min(Declaring(disk, chain, "checks"))]].checks \intersect said.invariants

\* validateFiles: deleted files and those of other kinds are passed over.
Violations(files, checks) ==
    {f \in files : f.supported /\ f.there /\ (~ f.readable \/ f.breaks \intersect checks # {})}

ChecksPass(disk, id, files) ==
    \/ \A f \in files : ~ f.supported
    \/ LET checks == getAllProfileInvariants(disk, id) IN checks # Unavailable /\ Violations(files, checks) = {}

-----------------------------------------------------------------------------
Unasked == resolution = NoResolution /\ moveChecks = NotRun

ResolveEngine(id, wanted) ==
    /\ Unasked
    /\ LET said == resolve(library, id)
       IN  resolution' = [id |-> id, said |-> IF said = ProfileError THEN said
                                             ELSE selectSchema(said.schemas, wanted)]
    /\ UNCHANGED <<library, moveChecks>>

ProcessInvariants(id, files) ==
    /\ Unasked
    /\ moveChecks' = [id |-> id, files |-> files, passed |-> ChecksPass(library, id, files)]
    /\ UNCHANGED <<library, resolution>>

ProfileInit == library \in Libraries /\ resolution = NoResolution /\ moveChecks = NotRun
ProfileNext ==
    \E id \in DOMAIN library :
       \/ \E wanted \in Wanted : ResolveEngine(id, wanted)
       \/ \E files \in SUBSET ChangedFile : ProcessInvariants(id, files)
ProfileSpec == ProfileInit /\ [][ProfileNext]_profileVars

-----------------------------------------------------------------------------
(* Properties.                                                             *)

\* What an id extends, directly or not: the least ids that hold what it and each
\* of them extends.
Extended(disk, p) == IF p \in KnownProfiles(disk) THEN {disk[p].extends} \ {""} ELSE {}
Above(disk, id) ==
    LET names == DOMAIN disk \union {disk[p].extends : p \in DOMAIN disk}
    IN  {a \in names : \A ids \in SUBSET names :
            (\A p \in ids \union {id} : Extended(disk, p) \subseteq ids) => a \in ids}
Whole(disk, id) == \A p \in Above(disk, id) \union {id} : p \in KnownProfiles(disk) /\ p \notin Above(disk, p)

\* A profile is refused when it, or what it extends, extends itself or what is
\* not there: a chain is never cut short and run ("a cycle is a configuration
\* error and reported as one", profile-resolver.ts).
ChainsAreWholeOrRefused ==
    resolution # NoResolution /\ resolution.said.kind # "error" => Whole(library, resolution.id)

\* A schema is read from a file and all those it extends in turn, up to one that
\* extends none that the profile's chain has.
FilesAreFollowed ==
    resolution.said.kind = "schema" =>
        LET files == resolution.said.owners
            lines_ == {resolution.id} \union Above(library, resolution.id)
        IN  /\ files # <<>>
            /\ \A i \in DOMAIN files :
                 LET parent == FileOf(library, files[i]).extends
                 IN  IF i = Len(files) THEN parent[1] \notin lines_ \/ parent \notin StoredFiles(library)
                     ELSE parent = files[i + 1]

\* A stage as a file writes it, and which of some files write a field of it, or an
\* edge between two of its stages.
NoStage == [fields |-> <<>>, edges |-> <<>>]
StageInFile(disk, at, path) ==
    IF path \in DOMAIN FileOf(disk, at).stages THEN FileOf(disk, at).stages[path] ELSE NoStage
WithField(disk, files, path, f) == {i \in DOMAIN files : f \in DOMAIN StageInFile(disk, files[i], path).fields}
WithEdge(disk, files, path, pair) == {i \in DOMAIN files : EdgesOf(StageInFile(disk, files[i], path).edges, pair) # <<>>}

\* Of a schema and those it extends, every field of every stage is that of the
\* nearest file that has it, and the edges between two stages are all of those
\* of the nearest file that has one ("a child's redeclaration replaces the
\* parent's group as a whole", schema-loader.ts).
EntriesAreOfTheNearest ==
    resolution.said.kind = "schema" =>
        LET files == resolution.said.owners
            stages == resolution.said.stages
            At(i, path) == StageInFile(library, files[i], path)
        IN  \A path \in UNION {DOMAIN FileOf(library, files[i]).stages : i \in DOMAIN files} :
              /\ path \in DOMAIN stages
              /\ \A f \in UNION {DOMAIN At(i, path).fields : i \in DOMAIN files} :
                   stages[path].fields[f] = At(Min(WithField(library, files, path, f)), path).fields[f]
              /\ \A pair \in {Pair(e) : e \in UNION {Range(At(i, path).edges) : i \in DOMAIN files}} :
                   EdgesOf(stages[path].edges, pair)
                     = EdgesOf(At(Min(WithEdge(library, files, path, pair)), path).edges, pair)

\* A move that changed a file that is checked passes only if its profile could
\* be loaded with all it extends, and declares no checks or has a file of them
\* ("a check that was not run is not one that was passed", invariants.ts).
UncheckedIsNotPassed ==
    moveChecks.passed /\ (\E f \in moveChecks.files : f.supported) =>
        /\ Whole(library, moveChecks.id) /\ \A p \in KnownProfiles(library) : library[p].json = "ok"
        /\ LET lines_ == {moveChecks.id} \union Above(library, moveChecks.id)
           IN  \/ \E p \in lines_ : library[p].checks # NotGiven
               \/ \E p \in lines_ : library[p].invariants = {}
               \/ \A p \in lines_ : library[p].invariants = NotGiven

(* A profile is read with all it inherits: chains of profiles and of files *)
(* whole or refused, the nearest value at every place, and no check passed *)
(* over in silence.                                                        *)
ProfilesAreReadWhole ==
    ChainsAreWholeOrRefused /\ FilesAreFollowed /\ EntriesAreOfTheNearest /\ UncheckedIsNotPassed
=============================================================================
