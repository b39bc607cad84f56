------------------------------ MODULE RuleCache ------------------------------
(***************************************************************************)
(* How rule files get from the disk into the snapshots of a session        *)
(* (src/rules/rule-discovery.ts): directories are listed, and each file is *)
(* then taken from a cache that all loads of the process share, or read,   *)
(* while the user writes the files.                                        *)
(***************************************************************************)
EXTENDS Integers, Sequences, SequencesExt, FiniteSets

CONSTANTS
    RuleFile,      \* files the user may write
    RuleDirs,      \* the rule directories in the order of discovery: sequence of sets of files
    Loader,        \* loads of rules under way in one process
    MaxFileSteps   \* bound: what the user does to the files

ASSUME RuleDirsAssumption == /\ IsFiniteSet(RuleFile)
                             /\ RuleDirs \in Seq(SUBSET RuleFile) /\ RuleDirs # <<>>
ASSUME FilesAssumption == \A f \in RuleFile : \E d \in DOMAIN RuleDirs : f \in RuleDirs[d]
ASSUME FileStepsAssumption == MaxFileSteps \in Nat

\* The global directory is not the project's, as it is when OPENCODE_CONFIG_DIR
\* names the project's .opencode.
DirectoriesAreApart ==
    \A d, e \in DOMAIN RuleDirs : RuleDirs[d] \intersect RuleDirs[e] # {} => d = e

VARIABLES
    onDisk,      \* file -> [there, mtime, text]
    ruleCache,   \* file -> the cached entry [mtime, text], or NotCached
    reading,     \* Loader -> [phase, dirs, queue, mtime, text, snapshots]
    had,         \* ghost: Loader -> file -> what the file was since the load began
    fileClock

ruleCacheVars == <<onDisk, ruleCache, reading, had, fileClock>>

NotCached == [mtime |-> 0, text |-> 0]
Absent == 0
NotLoading == [phase |-> "idle", dirs |-> <<>>, queue |-> <<>>, mtime |-> 0, text |-> 0, snapshots |-> <<>>]

-----------------------------------------------------------------------------
(* The user: every write gives the file a new mtime.                       *)
UserChanges(f, now) ==
    /\ fileClock < MaxFileSteps
    /\ fileClock' = fileClock + 1
    /\ onDisk' = [onDisk EXCEPT ![f] = now]
    /\ had' = [l \in Loader |-> [had[l] EXCEPT ![f] = @ \union {IF now.there THEN now.text ELSE Absent}]]
    /\ UNCHANGED <<ruleCache, reading>>

WriteRule(f) == UserChanges(f, [there |-> TRUE, mtime |-> fileClock + 1, text |-> fileClock + 1])
RemoveRule(f) == onDisk[f].there /\ UserChanges(f, [there |-> FALSE, mtime |-> 0, text |-> Absent])

-----------------------------------------------------------------------------
(* discoverRuleFiles: one directory after the other.                       *)
StartLoading(l) ==
    /\ reading[l].phase \in {"idle", "loaded"}
    /\ reading' = [reading EXCEPT ![l] = [NotLoading EXCEPT !.phase = "listing", !.dirs = RuleDirs]]
    /\ had' = [had EXCEPT ![l] = [f \in RuleFile |-> {IF onDisk[f].there THEN onDisk[f].text ELSE Absent}]]
    /\ UNCHANGED <<onDisk, ruleCache, fileClock>>

\* readdir gives the names in an order of its own.
Listings(dir) == SetToSeqs({f \in dir : onDisk[f].there})

Listed(r, listing) ==
    [r EXCEPT !.phase = IF Len(r.dirs) = 1 THEN "next" ELSE "listing",
              !.dirs = Tail(@), !.queue = @ \o listing]

ListDirectory(l) ==
    /\ reading[l].phase = "listing"
    /\ \E listing \in Listings(Head(reading[l].dirs)) :
         reading' = [reading EXCEPT ![l] = Listed(@, listing)]
    /\ UNCHANGED <<onDisk, ruleCache, had, fileClock>>

-----------------------------------------------------------------------------
(* getCachedRule, for the files of the list one after the other.           *)
\* Mutant: a rule that cannot be read ends the load.
StopAtUnreadable(queue, text) == IF text = Absent THEN <<>> ELSE Tail(queue)
LeftAfter(queue, text) == Tail(queue)

Answered(r, text) ==
    [r EXCEPT !.phase = "next", !.queue = LeftAfter(@, text), !.mtime = 0, !.text = 0,
              !.snapshots = IF text = Absent THEN @ ELSE Append(@, <<Head(r.queue), text>>)]

EndLoading(l) ==
    /\ reading[l].phase = "next" /\ reading[l].queue = <<>>
    /\ reading' = [reading EXCEPT ![l].phase = "loaded"]
    /\ UNCHANGED <<onDisk, ruleCache, had, fileClock>>

\* The file cannot be read: its entry goes, and the rule is skipped.
GiveUp(l, f) == /\ ruleCache' = [ruleCache EXCEPT ![f] = NotCached]
                /\ reading' = [reading EXCEPT ![l] = Answered(@, Absent)]

\* Mutant: the time is taken after the text.
TimeOfNow(l, f) == onDisk[f].mtime
TimeOfStat(l, f) == reading[l].mtime

StatRule(l) ==
    /\ reading[l].phase = "next" /\ reading[l].queue # <<>>
    /\ LET f == Head(reading[l].queue)
       IN  IF onDisk[f].there
           THEN /\ reading' = [reading EXCEPT ![l].phase = "statted", ![l].mtime = onDisk[f].mtime]
                /\ UNCHANGED ruleCache
           ELSE GiveUp(l, f)
    /\ UNCHANGED <<onDisk, had, fileClock>>

LookUpRule(l) ==
    /\ reading[l].phase = "statted"
    /\ LET cached == ruleCache[Head(reading[l].queue)]
       IN  reading' = [reading EXCEPT ![l] =
             IF cached # NotCached /\ cached.mtime = @.mtime THEN Answered(@, cached.text)
             ELSE [@ EXCEPT !.phase = "missed"]]
    /\ UNCHANGED <<onDisk, ruleCache, had, fileClock>>

ReadRule(l) ==
    /\ reading[l].phase = "missed"
    /\ LET f == Head(reading[l].queue)
       IN  IF onDisk[f].there
           THEN /\ reading' = [reading EXCEPT ![l].phase = "read", ![l].text = onDisk[f].text]
                /\ UNCHANGED ruleCache
           ELSE GiveUp(l, f)
    /\ UNCHANGED <<onDisk, had, fileClock>>

PutRule(l) ==
    /\ reading[l].phase = "read"
    /\ LET f == Head(reading[l].queue)
       IN  /\ ruleCache' = [ruleCache EXCEPT ![f] = [mtime |-> TimeOfStat(l, f), text |-> reading[l].text]]
           /\ reading' = [reading EXCEPT ![l] = Answered(@, @.text)]
    /\ UNCHANGED <<onDisk, had, fileClock>>

-----------------------------------------------------------------------------
RuleCacheInit ==
    /\ onDisk = [f \in RuleFile |-> [there |-> TRUE, mtime |-> 1, text |-> 1]]
    /\ ruleCache = [f \in RuleFile |-> NotCached]
    /\ reading = [l \in Loader |-> NotLoading]
    /\ had = [l \in Loader |-> [f \in RuleFile |-> {}]]
    /\ fileClock = 1

RuleCacheNext ==
    \/ \E f \in RuleFile : WriteRule(f) \/ RemoveRule(f)
    \/ \E l \in Loader :
         \/ StartLoading(l) \/ ListDirectory(l) \/ EndLoading(l)
         \/ StatRule(l) \/ LookUpRule(l) \/ ReadRule(l) \/ PutRule(l)

RuleCacheSpec == RuleCacheInit /\ [][RuleCacheNext]_ruleCacheVars

-----------------------------------------------------------------------------
(* A snapshot holds what its file held at some time during the load,       *)
(* however the loads and the edits fall, and whatever an earlier load left *)
(* in the cache.                                                           *)
SnapshotsAreOfTheLoad ==
    \A l \in Loader : \A i \in DOMAIN reading[l].snapshots :
        LET s == reading[l].snapshots[i] IN s[2] \in had[l][s[1]]

(* A finished load has no rule twice, has those of an earlier directory    *)
(* first, and a rule is missing from it only if its file was not there for *)
(* some of the time.                                                       *)
NoRuleIsSkipped ==
    \A l \in Loader : reading[l].phase = "loaded" =>
        LET n == Len(reading[l].snapshots)
            NameAt(i) == reading[l].snapshots[i][1]
        IN  /\ \A i, j \in 1 .. n : i < j =>
                 \E d, e \in DOMAIN RuleDirs :
                    d <= e /\ NameAt(i) \in RuleDirs[d] /\ NameAt(j) \in RuleDirs[e] /\ NameAt(i) # NameAt(j)
            /\ \A f \in RuleFile : Absent \in had[l][f] \/ \E i \in 1 .. n : NameAt(i) = f
=============================================================================
