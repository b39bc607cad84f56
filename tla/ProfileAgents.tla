----------------------------- MODULE ProfileAgents -----------------------------
(***************************************************************************)
(* The agents of the profiles, copied into the directory the host reads    *)
(* its agents from and which the user keeps his own in                     *)
(* (src/app/profile-agent-sync.ts), their entries in the catalogue of the  *)
(* V2 host (v2-profile-agent-sync.ts) and the names they are called by     *)
(* (agent-names.ts).  One disk operation is one step; the user works in    *)
(* between, any operation may fail, and the process may die.               *)
(*                                                                         *)
(* An id and a name are sequences of parts, which "_" joins: "base_x" with *)
(* "code.md" and "base" with "x_code.md" are one file.                     *)
(***************************************************************************)
EXTENDS Integers, Sequences, SequencesExt, FiniteSets

CONSTANTS
    ProfileId, AgentName,   \* sequences of parts
    FirstProfiles,          \* the profiles there may be at first
    FirstTargets,           \* what the user may keep in the directory at first
    MaxSyncs,               \* bound: runs of the sync
    MaxTrouble              \* bound: steps of the user, failures and crashes

\* Neither an id nor the name of a file is empty.
ASSUME AgentNamesAssumption == ProfileId \union AgentName \subseteq Seq(STRING) \ {<<>>}
ASSUME FirstProfilesAssumption ==
    \A p \in FirstProfiles :
      /\ DOMAIN p = ProfileId
      /\ \A id \in ProfileId :
           /\ DOMAIN p[id] = {"json", "agents", "files"}
           /\ p[id].json \in {"ok", "broken", "none"}
           /\ DOMAIN p[id].files \subseteq AgentName
           /\ \A n \in DOMAIN p[id].files :
                DOMAIN p[id].files[n] = {"marker", "text"} /\ p[id].files[n].text # "mine"
\* "mine" is what the user writes: not under the marker that makes a file the plugin's.
ASSUME FirstTargetsAssumption ==
    \A dir \in FirstTargets :
      /\ DOMAIN dir \subseteq Seq(STRING)
      /\ \A t \in DOMAIN dir :
           /\ DOMAIN dir[t] = {"marker", "text"}
           /\ dir[t].marker = "owning" => dir[t].text # "mine"

VARIABLES
    profiles,   \* per id: profile.json and the files in its agents directory
    targets,    \* the agents directory of the host: file name -> content
    ignore,     \* the .gitignore in it: [whose, list]
    sync,       \* the run of the sync
    outcome,    \* its report: file names written, and those it gave up on
    updates,    \* catalogue: ids the profiles were registered under
    calm,       \* ghost: nobody touched the disk since the sync began
    seen,       \* ghost: what the user had at the name when the sync looked
    swallowed,  \* ghost: names that a failure this sync reports nowhere is about
    syncs, trouble

agentVars == <<profiles, targets, ignore, sync, outcome, updates, calm, seen, swallowed,
               syncs, trouble>>

Undeclared == {<<"undeclared">>}
Unreadable == <<"profile.json">>
NoIgnore == [whose |-> "none", list |-> {}]
NoContent == [marker |-> "none", text |-> "nothing"]
Idle == [at |-> "idle", left |-> {}, id |-> <<>>, stale |-> {}, sources |-> {},
         name |-> <<>>, content |-> NoContent]
NoOutcome == [synced |-> {}, removed |-> {}, collisions |-> {}, errors |-> {}]
NothingSwallowed == [agents |-> {}, ignore |-> {}, updates |-> {}]

targetNameOf(id, name) == id \o name
Torn == [marker |-> "none", text |-> "torn"]
IgnoreFile == <<".gitignore">>
TornIgnore == [whose |-> "user", list |-> {}]

-----------------------------------------------------------------------------
(* Files.                                                                  *)

\* Mutant: a marker anywhere in a file makes it the plugin's.
OwnedByMention(content) == content.marker # "none"

\* The marker counts on the first line and on the one after the frontmatter.
isOwned(content) == content.marker = "owning"
injectManagedMarker(content) ==
    IF isOwned(content) THEN content ELSE [content EXCEPT !.marker = "owning"]

Managed == {t \in DOMAIN targets : isOwned(targets[t])}

\* A name's profile is read off its front.
InProfile(t, id) == Len(t) > Len(id) /\ IsPrefix(id, t)

\* Mutant: the sweep takes in the whole directory.
WholeDirectory(id) == DOMAIN targets
ExistingTargets(id) == {t \in DOMAIN targets : InProfile(t, id)}

\* What is read for a profile: its profile.json and its agents directory; the
\* first again, in listProfileAgents; there, for want of a declared roster, the
\* directory; whether that exists; the directory of the targets.
Reads == {"profile", "meta", "roster", "found", "targets"}
listProfileAgents(id, failed) ==
    IF profiles[id].json = "ok" /\ "meta" \notin failed /\ profiles[id].agents # Undeclared
    THEN profiles[id].agents
    ELSE IF "roster" \in failed THEN {} ELSE DOMAIN profiles[id].files
RosterAsRead(id, failed) ==
    IF "found" \in failed THEN {} ELSE DOMAIN profiles[id].files \intersect listProfileAgents(id, failed)
TargetsAsRead(id, failed) == IF "targets" \in failed THEN {} ELSE ExistingTargets(id)
OnRoster(id) == RosterAsRead(id, {})
TargetsOf(id, names) == {targetNameOf(id, n) : n \in names}

\* What a sync does or leaves undone for reads that failed.
Misread(id, failed) ==
    LET roster == RosterAsRead(id, failed)
    IN  TargetsOf(id, (OnRoster(id) \ roster) \union (roster \ OnRoster(id)))
        \union ((ExistingTargets(id) \ TargetsAsRead(id, failed)) \ TargetsOf(id, roster))

PutTarget(t, content) ==
    targets' = [u \in DOMAIN targets \union {t} |-> IF u = t THEN content ELSE targets[u]]
DropTarget(t) == targets' = [u \in DOMAIN targets \ {t} |-> targets[u]]

-----------------------------------------------------------------------------
(* syncAllProfileAgents, and in it syncProfileAgents for one profile after *)
(* another in the order the directory lists them.                          *)
NextProfile == [Idle EXCEPT !.at = "profiles", !.left = sync.left \ {sync.id}]

StartSync ==
    /\ sync.at = "idle" /\ syncs < MaxSyncs
    /\ syncs' = syncs + 1
    /\ sync' = [Idle EXCEPT !.at = "profiles", !.left = {id \in ProfileId : profiles[id].json # "none"}]
    /\ outcome' = [id \in ProfileId |-> NoOutcome]
    /\ calm' = TRUE
    /\ swallowed' = NothingSwallowed
    /\ UNCHANGED <<profiles, targets, ignore, updates, seen, trouble>>

\* A profile that cannot be read is given up.  Every other failure is taken for
\* something that is not there: no declared roster, no agents, no targets.
BeginProfile(id, failed) ==
    /\ sync.at = "profiles" /\ id \in sync.left
    /\ IF profiles[id].json = "broken" \/ "profile" \in failed
       THEN /\ outcome' = [outcome EXCEPT ![id].errors = {Unreadable}]
            /\ sync' = [sync EXCEPT !.left = @ \ {id}]
            /\ UNCHANGED swallowed
       ELSE LET roster == RosterAsRead(id, failed)
            IN  /\ sync' = [sync EXCEPT !.at = "sweep", !.id = id, !.sources = roster,
                               !.stale = TargetsAsRead(id, failed) \ TargetsOf(id, roster)]
                /\ swallowed' = [swallowed EXCEPT !.agents = @ \union Misread(id, failed)]
                /\ UNCHANGED outcome
    /\ UNCHANGED <<profiles, targets, ignore, updates, calm, seen, syncs>>

\* A stale file is read before it is removed, and left there if it cannot be read.
LookAtStale(t, read) ==
    /\ sync.at = "sweep" /\ t \in sync.stale
    /\ CASE t \notin DOMAIN targets \/ ~ read ->
              /\ sync' = [sync EXCEPT !.stale = @ \ {t}]
              /\ swallowed' = [swallowed EXCEPT !.agents = @ \union (DOMAIN targets \intersect {t})]
              /\ UNCHANGED <<outcome, seen>>
         [] t \in DOMAIN targets /\ read /\ ~ isOwned(targets[t]) ->
              /\ sync' = [sync EXCEPT !.stale = @ \ {t}]
              /\ outcome' = [outcome EXCEPT ![sync.id].collisions = @ \union {t}]
              /\ UNCHANGED <<seen, swallowed>>
         [] OTHER -> /\ sync' = [sync EXCEPT !.at = "unlink", !.name = t]
                     /\ seen' = targets[t]
                     /\ UNCHANGED <<outcome, swallowed>>
    /\ UNCHANGED <<profiles, targets, ignore, updates, calm, syncs>>

UnlinkStale(ok) ==
    /\ sync.at = "unlink"
    /\ sync' = [sync EXCEPT !.at = "sweep", !.stale = @ \ {sync.name}]
    /\ IF ok THEN /\ DropTarget(sync.name)
                  /\ outcome' = [outcome EXCEPT ![sync.id].removed = @ \union {sync.name}]
             ELSE /\ outcome' = [outcome EXCEPT ![sync.id].errors = @ \union {sync.name}]
                  /\ UNCHANGED targets
    /\ UNCHANGED <<profiles, ignore, updates, calm, seen, swallowed, syncs>>

\* A source and what is at its target are read; a user's file is left alone.  A
\* target that cannot be read counts as one that is not there.
SkipSource(n, fate) ==
    /\ sync' = [sync EXCEPT !.sources = @ \ {n}]
    /\ outcome' = [outcome EXCEPT ![sync.id][fate] = @ \union {targetNameOf(sync.id, n)}]
    /\ UNCHANGED seen
LookAtTarget(n, sourceRead, targetRead) ==
    LET t == targetNameOf(sync.id, n)
        source == sourceRead /\ n \in DOMAIN profiles[sync.id].files
        there == targetRead /\ t \in DOMAIN targets
    IN  /\ sync.at = "sweep" /\ sync.stale = {} /\ n \in sync.sources
        /\ \/ ~ source /\ SkipSource(n, "errors")
           \/ source /\ there /\ ~ isOwned(targets[t]) /\ SkipSource(n, "collisions")
           \/ /\ source /\ (there => isOwned(targets[t]))
              /\ sync' = [sync EXCEPT !.at = "write", !.name = t, !.sources = @ \ {n},
                                      !.content = injectManagedMarker(profiles[sync.id].files[n])]
              /\ seen' = IF there THEN targets[t] ELSE NoContent
              /\ UNCHANGED outcome
        /\ UNCHANGED <<profiles, targets, ignore, updates, calm, swallowed, syncs>>

\* writeFile opens the file, which empties it, and then fills it.
OpenTarget(ok) ==
    /\ sync.at = "write"
    /\ IF ok THEN /\ PutTarget(sync.name, Torn)
                  /\ sync' = [sync EXCEPT !.at = "fill"]
                  /\ UNCHANGED outcome
             ELSE /\ sync' = [sync EXCEPT !.at = "sweep"]
                  /\ outcome' = [outcome EXCEPT ![sync.id].errors = @ \union {sync.name}]
                  /\ UNCHANGED targets
    /\ UNCHANGED <<profiles, ignore, updates, calm, seen, swallowed, syncs>>
FillTarget(ok) ==
    /\ sync.at = "fill"
    /\ sync' = [sync EXCEPT !.at = "sweep"]
    /\ IF ok THEN /\ PutTarget(sync.name, sync.content)
                  /\ outcome' = [outcome EXCEPT ![sync.id].synced = @ \union {sync.name}]
             ELSE /\ outcome' = [outcome EXCEPT ![sync.id].errors = @ \union {sync.name}]
                  /\ UNCHANGED targets
    /\ UNCHANGED <<profiles, ignore, updates, calm, seen, swallowed, syncs>>

\* Mutant: the list names the files of the profile that is synced.
OwnList == {t \in Managed : InProfile(t, sync.id)}
IgnoreList == Managed

MarkNext == sync.at = "sweep" /\ sync.stale = {} /\ sync.sources = {}
\* markGenerated: what is managed, over all profiles, is listed one by one.  A
\* directory that cannot be listed leaves the old list, a file that cannot be read
\* is left off it, an ignore file that cannot be read counts as one that is not
\* there; only what fails in making the directory or writing is reported.
MarkGenerated(listed, unread, known, written) ==
    LET kept == known /\ ignore.whose = "user"
    IN  /\ MarkNext
        /\ \/ ~ listed /\ UNCHANGED <<ignore, outcome>>
           \/ /\ listed /\ written /\ UNCHANGED outcome
              /\ ignore' = IF kept THEN ignore ELSE [whose |-> "plugin", list |-> IgnoreList \ unread]
           \/ /\ listed /\ ~ written
              /\ \/ UNCHANGED ignore
                 \/ ~ kept /\ ignore' = TornIgnore
              /\ outcome' = [outcome EXCEPT ![sync.id].errors = @ \union {IgnoreFile}]
        /\ swallowed' = [swallowed EXCEPT !.ignore = @ \union (IF listed THEN unread ELSE {IgnoreFile})]
        /\ sync' = NextProfile
        /\ UNCHANGED <<profiles, targets, updates, calm, seen, syncs>>

\* Mutant: what lies in the directory is registered.
AllFiles(id, failed) == DOMAIN profiles[id].files
Registered(id, failed) == DOMAIN profiles[id].files \intersect listProfileAgents(id, failed)

isQualifiedAgentName(name, id) == InProfile(name, id)
qualifyAgentName(id, name) == IF isQualifiedAgentName(name, id) THEN name ELSE id \o name

\* registerV2ProfileAgents, once the sync is over: per profile the reads that
\* fail, and the agents whose files cannot be read.
LoadUpdates(failed, unread) ==
    LET loaded(id) == IF profiles[id].json # "ok" \/ "profile" \in failed[id] THEN {}
                      ELSE Registered(id, failed[id]) \ unread[id]
    IN  /\ sync.at = "profiles" /\ sync.left = {}
        /\ sync' = [Idle EXCEPT !.at = "registered"]
        /\ updates' = UNION {{qualifyAgentName(id, n) : n \in loaded(id)} : id \in ProfileId}
        /\ swallowed' = [swallowed EXCEPT !.updates =
                UNION {TargetsOf(id, DOMAIN profiles[id].files \ OnRoster(id)) :
                         id \in {id \in ProfileId : "meta" \in failed[id]}}]
        /\ UNCHANGED <<profiles, targets, ignore, outcome, calm, seen, syncs>>
Rest ==
    /\ sync.at = "registered"
    /\ sync' = Idle
    /\ UNCHANGED <<profiles, targets, ignore, outcome, updates, calm, seen, swallowed, syncs, trouble>>

-----------------------------------------------------------------------------
(* What happens around it.                                                 *)
User ==
    /\ calm' = FALSE
    /\ \/ \E id \in ProfileId, n \in AgentName :
            /\ \E marker \in {"none", "mentioned"} : PutTarget(targetNameOf(id, n), [marker |-> marker, text |-> "mine"])
            /\ UNCHANGED <<profiles, ignore>>
       \/ \E t \in DOMAIN targets : DropTarget(t) /\ UNCHANGED <<profiles, ignore>>
       \/ \E id \in ProfileId, n \in AgentName :
            /\ profiles' = [profiles EXCEPT ![id].files =
                 [u \in DOMAIN @ \ {n} |-> @[u]]]
            /\ UNCHANGED <<targets, ignore>>
       \/ /\ ignore' = TornIgnore
          /\ UNCHANGED <<profiles, targets>>
    /\ UNCHANGED <<sync, outcome, updates, seen, swallowed, syncs>>

\* An ignore file that is half written does not begin as one of the plugin's.
Crash ==
    /\ sync.at # "idle"
    /\ sync' = Idle
    /\ calm' = FALSE
    /\ \/ UNCHANGED ignore
       \/ MarkNext /\ ignore' = TornIgnore
    /\ UNCHANGED <<profiles, targets, outcome, updates, seen, swallowed, syncs>>

AgentInit ==
    /\ profiles \in FirstProfiles
    /\ targets \in FirstTargets
    /\ ignore = NoIgnore
    /\ sync = Idle
    /\ outcome = [id \in ProfileId |-> NoOutcome]
    /\ updates = {}
    /\ calm = TRUE
    /\ seen = NoContent
    /\ swallowed = NothingSwallowed
    /\ syncs = 0
    /\ trouble = 0

\* What fails in a load: of one profile one read, or one file.
NoneOf == [id \in ProfileId |-> {}]
Only(id, what) == [NoneOf EXCEPT ![id] = {what}]

AgentNext ==
    \/ StartSync \/ Rest
    \/ /\ UNCHANGED trouble
       /\ \/ UnlinkStale(TRUE) \/ OpenTarget(TRUE) \/ FillTarget(TRUE)
          \/ MarkGenerated(TRUE, {}, TRUE, TRUE) \/ LoadUpdates(NoneOf, NoneOf)
          \/ \E id \in ProfileId : BeginProfile(id, {})
          \/ \E t \in sync.stale : LookAtStale(t, TRUE)
          \/ \E n \in AgentName : LookAtTarget(n, TRUE, TRUE)
    \/ /\ trouble < MaxTrouble /\ trouble' = trouble + 1
       /\ \/ UnlinkStale(FALSE) \/ OpenTarget(FALSE) \/ FillTarget(FALSE) \/ User \/ Crash
          \/ \E listed, known, written \in BOOLEAN, unread \in SUBSET Managed :
               MarkGenerated(listed, unread, known, written)
          \/ \E id \in ProfileId, read \in {"profile", "meta", "roster"} : LoadUpdates(Only(id, read), NoneOf)
          \/ \E id \in ProfileId, n \in AgentName : LoadUpdates(NoneOf, Only(id, n))
          \/ \E id \in ProfileId, failed \in SUBSET Reads : BeginProfile(id, failed)
          \/ \E t \in sync.stale : LookAtStale(t, FALSE)
          \/ \E n \in AgentName : LookAtTarget(n, FALSE, TRUE) \/ LookAtTarget(n, TRUE, FALSE)

AgentSpec == AgentInit /\ [][AgentNext]_agentVars

-----------------------------------------------------------------------------
(* Properties.                                                             *)

\* No other id begins as this one does; ids that do share files and sweep
\* one another's away.
Apart(id) == \A other \in ProfileId \ {id} : ~ IsPrefix(id, other) /\ ~ IsPrefix(other, id)
Reported(id) == outcome[id].collisions \union outcome[id].errors

Accounted(id) == Reported(id) \union swallowed.agents
RosterFits(id, said) ==
    /\ \A n \in OnRoster(id) :
         LET t == targetNameOf(id, n)
         IN  \/ t \in DOMAIN targets /\ targets[t] = injectManagedMarker(profiles[id].files[n])
             \/ t \in said
    /\ ExistingTargets(id) \intersect Managed \subseteq TargetsOf(id, OnRoster(id)) \union said
SyncedWithout(id) ==
    Apart(id) /\ profiles[id].json # "none" /\ Unreadable \notin Reported(id)

\* When a sync is over, every agent that a profile ships is there with what the
\* profile says and no other file of the profile is, or the outcome names it
\* ("this says what actually happened once it is over").  Excepted are the names
\* for which a read failed that the sync takes for something that is not there.
RosterIsPlacedOrReported ==
    sync.at = "registered" /\ calm =>
        \A id \in ProfileId : SyncedWithout(id) => RosterFits(id, Accounted(id))

\* The same without the exception: "every filesystem step is caught and reported"
\* (profile-agent-sync.ts:72).  The code breaks it: what it cannot read it takes
\* for an empty roster, an empty directory or a file that is not there.
FailuresAreReported ==
    sync.at = "registered" /\ calm =>
        \A id \in ProfileId : SyncedWithout(id) => RosterFits(id, Reported(id))

\* What the sync takes away or writes over was its own, or nothing, when it
\* looked and could read it ("unowned target files deliberately left untouched").
UsersFilesAreKept == sync.at \in {"unlink", "write", "fill"} => seen.text # "mine"

\* The ignore file names every file of the plugin and none of the user's, unless
\* it is the user's own, or a profile or it could not be read or written
\* ("without hiding anybody else's files"; "syncing one profile must not drop
\* another's off it").  Excepted are the files that could not be read for the
\* list, and a directory that could not be listed.
IgnoreListsTheManaged ==
    sync.at = "registered" /\ calm /\ ignore.whose = "plugin"
      /\ IgnoreFile \notin swallowed.ignore
      /\ (\A id \in ProfileId : {IgnoreFile, Unreadable} \intersect outcome[id].errors = {})
    => /\ ignore.list \subseteq Managed
       /\ Managed \ ignore.list \subseteq swallowed.ignore

\* Who is registered was placed in this run or is reported, but for a name that
\* has the id of its profile in front already: it is registered without the
\* second one, which its file has.  Excepted are the names for which a roster was
\* misread, by the sync or by the registration.
RegisteredWasPlaced ==
    sync.at = "registered" /\ calm =>
        \A t \in updates : \E id \in ProfileId :
            LET told == outcome[id].synced \union Accounted(id) \union swallowed.updates
            IN  \/ t \in told \/ id \o t \in told
                \/ InProfile(t, id) /\ Unreadable \in Reported(id)

(* A sync leaves the shared directory and the catalogue in order: the      *)
(* files of the user as they were, rosters placed or reported, the ignore  *)
(* list and the registrations about files that were placed.                *)
SyncsKeepAndReport ==
    UsersFilesAreKept /\ RosterIsPlacedOrReported /\ IgnoreListsTheManaged /\ RegisteredWasPlaced
=============================================================================
