------------------------------ MODULE Dashboard ------------------------------
(***************************************************************************)
(* The dashboard beside a running store: loads that read the archive and   *)
(* then the runtime directory file by file (src/session/session-files.ts), *)
(* the publisher that tells pages what changed, and pages that connect     *)
(* while it publishes (src/dashboard/dashboard-app.ts).                    *)
(***************************************************************************)
EXTENDS Integers, Sequences, SequencesExt, FiniteSets, Functions

CONSTANTS
    Watched,          \* sessions, as the names readdir sorts
    Viewer,           \* pages
    MaxRuns,          \* bound: runs of publishChanges at a time, if they did not stand down
    MaxStoreSteps,    \* bound: saves, creations and archivals
    MaxVisits         \* bound: how often pages connect

VARIABLES
    runtimeDir,    \* session -> its content: [rev, stage, gate]
    archiveDir,
    publication,   \* [running, load]: the runs of publishChanges and what each has read
    lastSnapshot,
    viewers,       \* [Viewer -> [open, load, shown, raced]]; raced is a ghost: a
                   \* publication or an archival fell into the load of the page
    told,          \* ghost: the events last pushed: [session, was, is, moved]
    movedInLoad,   \* ghost: sessions archived since the publication began
    changed,       \* ghost: the store has changed since the publication began
    rev, visits

dashboardVars == <<runtimeDir, archiveDir, publication, lastSnapshot, viewers, told, movedInLoad,
                   changed, rev, visits>>

-----------------------------------------------------------------------------
(* loadAllSessions: the directories in order; of each its names, and then  *)
(* one file after the other. A file that is gone by then is left out.      *)
Overlay(old, new) == [s \in DOMAIN old \union DOMAIN new |-> IF s \in DOMAIN new THEN new[s] ELSE old[s]]

\* Mutant: what is archived is not read.
RuntimeOnly == <<"runtime">>
ReadOrder == <<"archive", "runtime">>
Directory(d) == IF d = "archive" THEN archiveDir ELSE runtimeDir

NoLoad == [dirs |-> <<>>, listed |-> FALSE, todo |-> {}, got |-> <<>>]
NewLoad == [NoLoad EXCEPT !.dirs = ReadOrder]
Loaded(load) == load.dirs = <<>>
NextName(names) == CHOOSE s \in names : \A t \in names : s <= t

ReadOn(load) ==
    LET d == Directory(Head(load.dirs))
        s == NextName(load.todo)
    IN  IF ~ load.listed THEN [load EXCEPT !.listed = TRUE, !.todo = DOMAIN d]
        ELSE IF load.todo = {} THEN [load EXCEPT !.dirs = Tail(@), !.listed = FALSE]
        ELSE [load EXCEPT !.todo = @ \ {s},
                          !.got = IF s \in DOMAIN d THEN Overlay(@, Restrict(d, {s})) ELSE @]

-----------------------------------------------------------------------------
(* The store, as the runtime of the workflow writes it.                    *)
Touched == /\ rev < MaxStoreSteps
           /\ rev' = rev + 1
           /\ changed' = TRUE

SaveSession(s) ==
    /\ Touched
    /\ \/ /\ s \in DOMAIN runtimeDir /\ runtimeDir[s].stage # "done"
          /\ \E look \in {<<"work", "pending">>, <<"work", "passed">>, <<"done", "passed">>} :
               runtimeDir' = [runtimeDir EXCEPT ![s] = [rev |-> rev', stage |-> look[1], gate |-> look[2]]]
       \/ /\ s \notin DOMAIN runtimeDir
          /\ runtimeDir' = [t \in DOMAIN runtimeDir \union {s} |->
                              IF t = s THEN [rev |-> rev', stage |-> "plan", gate |-> "pending"]
                              ELSE runtimeDir[t]]
    /\ UNCHANGED <<archiveDir, publication, lastSnapshot, viewers, told, movedInLoad, visits>>

ArchiveSession(s) ==
    /\ s \in DOMAIN runtimeDir /\ runtimeDir[s].stage = "done"
    /\ Touched
    /\ archiveDir' = Overlay(archiveDir, Restrict(runtimeDir, {s}))
    /\ runtimeDir' = Restrict(runtimeDir, DOMAIN runtimeDir \ {s})
    /\ movedInLoad' = movedInLoad \union {s}
    /\ viewers' = [v \in Viewer |-> [viewers[v] EXCEPT !.raced = @ \/ ~ Loaded(viewers[v].load)]]
    /\ UNCHANGED <<publication, lastSnapshot, told, visits>>

-----------------------------------------------------------------------------
(* publishChanges, on every write the watcher sees and every half second.  *)
\* Mutant: a second run does not stand down.
NeverStandDown == TRUE
MayPublish == publication.running = {}

StartPublishing(n) ==
    /\ MayPublish /\ n \notin publication.running /\ \A k \in 1 .. n - 1 : k \in publication.running
    /\ publication' = [publication EXCEPT !.running = @ \union {n}, !.load[n] = NewLoad]
    /\ movedInLoad' = IF publication.running = {} THEN {} ELSE movedInLoad
    /\ changed' = FALSE
    /\ UNCHANGED <<runtimeDir, archiveDir, lastSnapshot, viewers, told, rev, visits>>

ReadForPublication(n) ==
    /\ n \in publication.running /\ ~ Loaded(publication.load[n])
    /\ publication' = [publication EXCEPT !.load[n] = ReadOn(@)]
    /\ UNCHANGED <<runtimeDir, archiveDir, lastSnapshot, viewers, told, movedInLoad, changed, rev, visits>>

diffSessions(old, new) ==
    {[session |-> s, was |-> old[s], is |-> new[s], moved |-> s \in movedInLoad] :
        s \in {t \in DOMAIN old \intersect DOMAIN new :
                 old[t].stage # new[t].stage \/ old[t].gate # new[t].gate}}

\* Mutant: a client counts once its first snapshot is out.
AfterItsSnapshot(v) == viewers[v].open /\ Loaded(viewers[v].load)
Clients(v) == viewers[v].open

FinishPublishing(n) ==
    /\ n \in publication.running /\ Loaded(publication.load[n])
    /\ LET new == publication.load[n].got
       IN  IF new = lastSnapshot THEN UNCHANGED <<lastSnapshot, told, viewers>>
           ELSE /\ told' = diffSessions(lastSnapshot, new)
                /\ lastSnapshot' = new
                /\ viewers' = [v \in Viewer |->
                                 IF ~ Clients(v) THEN viewers[v]
                                 ELSE [viewers[v] EXCEPT !.shown = new,
                                                         !.raced = @ \/ ~ Loaded(viewers[v].load)]]
    /\ publication' = [publication EXCEPT !.running = @ \ {n}, !.load[n] = NoLoad]
    /\ UNCHANGED <<runtimeDir, archiveDir, movedInLoad, changed, rev, visits>>

-----------------------------------------------------------------------------
Away == [open |-> FALSE, load |-> [NoLoad EXCEPT !.dirs = <<>>], shown |-> <<>>, raced |-> FALSE]

(* GET /events: the page is a client before its snapshot has been read.    *)
Connect(v) ==
    /\ ~ viewers[v].open /\ visits < MaxVisits
    /\ visits' = visits + 1
    /\ viewers' = [viewers EXCEPT ![v] = [open |-> TRUE, load |-> NewLoad, shown |-> <<>>,
                                          raced |-> FALSE]]
    /\ UNCHANGED <<runtimeDir, archiveDir, publication, lastSnapshot, told, movedInLoad, changed, rev>>

ReadForViewer(v) ==
    /\ viewers[v].open /\ ~ Loaded(viewers[v].load)
    /\ LET load == ReadOn(viewers[v].load)
       IN  viewers' = [viewers EXCEPT ![v].load = load,
                                      ![v].shown = IF Loaded(load) THEN load.got ELSE @]
    /\ UNCHANGED <<runtimeDir, archiveDir, publication, lastSnapshot, told, movedInLoad, changed, rev, visits>>

Disconnect(v) ==
    /\ viewers[v].open
    /\ viewers' = [viewers EXCEPT ![v] = Away]
    /\ UNCHANGED <<runtimeDir, archiveDir, publication, lastSnapshot, told, movedInLoad, changed, rev, visits>>

-----------------------------------------------------------------------------
DashboardInit ==
    /\ runtimeDir = <<>>
    /\ archiveDir \in UNION {[finished -> {[rev |-> 0, stage |-> "done", gate |-> "passed"]}] : finished \in SUBSET Watched}
    /\ publication = [running |-> {}, load |-> [n \in 1 .. MaxRuns |-> NoLoad]]
    /\ lastSnapshot = <<>>
    /\ viewers = [v \in Viewer |-> Away]
    /\ told = {} /\ movedInLoad = {} /\ changed = FALSE
    /\ rev = 0 /\ visits = 0

DashboardNext ==
    \/ \E s \in Watched : SaveSession(s) \/ ArchiveSession(s)
    \/ \E n \in 1 .. MaxRuns : StartPublishing(n) \/ ReadForPublication(n) \/ FinishPublishing(n)
    \/ \E v \in Viewer : Connect(v) \/ ReadForViewer(v) \/ Disconnect(v)

DashboardSpec == DashboardInit /\ [][DashboardNext]_dashboardVars

-----------------------------------------------------------------------------
(* A change that is told has taken place: a session never goes back to     *)
(* what it was before. Except where it was archived while the publication  *)
(* was reading: the archive may then still show an earlier session of the  *)
(* same name.                                                              *)
ToldChangesTookPlace == \A e \in told : e.moved \/ e.was.rev < e.is.rev

(* Once a publication has begun after the last change and has ended, every *)
(* page shows what the store and its archive hold, however it connected,   *)
(* unless a publication or an archival fell into the load of its first     *)
(* snapshot: that one is then sent after the newer one, and nothing sends  *)
(* a newer one until the store changes again.                              *)
PagesCatchUp ==
    publication.running = {} /\ ~ changed =>
        \A v \in Viewer :
            viewers[v].open /\ Loaded(viewers[v].load) /\ ~ viewers[v].raced =>
                viewers[v].shown = Overlay(archiveDir, runtimeDir)

(* A page is told what took place, and in the end all of it.               *)
PagesAreToldTheTruth == ToldChangesTookPlace /\ PagesCatchUp
=============================================================================
