----------------------------- MODULE SessionPanel -----------------------------
(***************************************************************************)
(* The panel that shows the workflow of the session that is open           *)
(* (src/tui/index.tsx): one load at a time, which finds the root of the    *)
(* session, reads its file and the profiles and gives up when another      *)
(* session is opened; events, the watcher of the files and the poll only   *)
(* set a timer.                                                            *)
(***************************************************************************)
EXTENDS Integers, FiniteSets

CONSTANTS
    HostSession,     \* the sessions that may be opened
    ParentOf,        \* the host's parentID, or NoSession; a parent is a root here
    MaxPanelEvents   \* bound: sessions opened, events, edits and failures

VARIABLES
    saved,      \* per root: which revision its file is of, 0 for none
    openedSession, \* currentSessionId
    panelAt,    \* the coordinator: [generation, pendingRefresh, timer, disposed]
    fetch,      \* the load that is active: [at, session, mine, root, revision, failed]
    activeRoot, \* of the section
    snapshot,   \* what is shown: [session, root, revision, failed] and, a
                \* ghost, which session was open when it was put up
    panelEvents

panelVars == <<saved, openedSession, panelAt, fetch, activeRoot, snapshot, panelEvents>>

NoSession == "none"
ASSUME ParentAssumption ==
    /\ NoSession \notin HostSession
    /\ ParentOf \in [HostSession -> HostSession \union {NoSession}]
    /\ \A s \in HostSession : ParentOf[s] # NoSession => ParentOf[ParentOf[s]] = NoSession

NoFetch == [at |-> "none", session |-> NoSession, mine |-> 0, root |-> NoSession, revision |-> 0,
            failed |-> FALSE]

\* Mutant: what was asked for during a load is left to the next event.
DropPending(p) == [p EXCEPT !.pendingRefresh = FALSE]
Resume(p) == [p EXCEPT !.pendingRefresh = FALSE, !.timer = @ \/ p.pendingRefresh]

\* schedule: whatever happens only sets the timer.
Schedule(p) == [p EXCEPT !.timer = TRUE]

\* The timer: a load, or the mark that one is due.
TimerFires ==
    /\ panelAt.timer /\ ~ panelAt.disposed
    /\ IF fetch # NoFetch
       THEN panelAt' = [panelAt EXCEPT !.timer = FALSE, !.pendingRefresh = TRUE] /\ UNCHANGED fetch
       ELSE /\ panelAt' = [panelAt EXCEPT !.timer = FALSE, !.generation = @ + 1]
            /\ fetch' = [NoFetch EXCEPT !.at = "resolve", !.session = openedSession, !.root = openedSession,
                                        !.mine = panelAt.generation + 1]
    /\ UNCHANGED <<saved, openedSession, activeRoot, snapshot, panelEvents>>

EndFetch == fetch' = NoFetch /\ panelAt' = IF panelAt.disposed THEN panelAt ELSE Resume(panelAt)

\* Mutant: another session that is opened does not end the load of the first.
NotDisposed == ~ panelAt.disposed
StillMine == ~ panelAt.disposed /\ fetch.mine = panelAt.generation

\* resolveRoot, one session.get after another.
ResolveParent(ok) ==
    /\ fetch.at = "resolve" /\ fetch.session # NoSession
    /\ IF ok /\ ParentOf[fetch.root] # NoSession
       THEN fetch' = [fetch EXCEPT !.root = ParentOf[fetch.root]] /\ UNCHANGED <<activeRoot, panelAt>>
       ELSE /\ activeRoot' = IF ok THEN fetch.root ELSE NoSession
            /\ IF StillMine THEN fetch' = [fetch EXCEPT !.at = "read", !.failed = ~ ok] /\ UNCHANGED panelAt
                            ELSE EndFetch
    /\ UNCHANGED <<saved, openedSession, snapshot>>
ResolveNone ==
    /\ fetch.at = "resolve" /\ fetch.session = NoSession
    /\ activeRoot' = NoSession
    /\ IF StillMine THEN fetch' = [fetch EXCEPT !.at = "read"] /\ UNCHANGED panelAt ELSE EndFetch
    /\ UNCHANGED <<saved, openedSession, snapshot, panelEvents>>

\* readSessionView
ReadSession ==
    /\ fetch.at = "read"
    /\ IF StillMine
       THEN fetch' = [fetch EXCEPT !.at = "surroundings",
                        !.revision = IF activeRoot = NoSession THEN 0 ELSE saved[activeRoot]]
            /\ UNCHANGED panelAt
       ELSE EndFetch
    /\ UNCHANGED <<saved, openedSession, activeRoot, snapshot, panelEvents>>

\* loadProfiles and resolveStageNeighbors, then onUpdate.
Update ==
    /\ fetch.at = "surroundings"
    /\ IF StillMine
       THEN snapshot' = [session |-> fetch.session, root |-> activeRoot, revision |-> fetch.revision,
                         failed |-> fetch.failed, putUpFor |-> openedSession]
       ELSE UNCHANGED snapshot
    /\ EndFetch
    /\ UNCHANGED <<saved, openedSession, activeRoot, panelEvents>>

SetSession(s) ==
    /\ s # openedSession /\ ~ panelAt.disposed
    /\ openedSession' = s
    /\ panelAt' = Schedule([panelAt EXCEPT !.generation = @ + 1])
    /\ UNCHANGED <<saved, fetch, activeRoot, snapshot>>

\* Somebody saves a session, and the watcher says so.
Save(s) ==
    /\ ~ panelAt.disposed /\ ParentOf[s] = NoSession
    /\ saved' = [saved EXCEPT ![s] = @ + 1]
    /\ panelAt' = Schedule(panelAt)
    /\ UNCHANGED <<openedSession, fetch, activeRoot, snapshot>>

Poll ==
    /\ ~ panelAt.disposed
    /\ panelAt' = Schedule(panelAt)
    /\ UNCHANGED <<saved, openedSession, fetch, activeRoot, snapshot>>

DisposePanel ==
    /\ ~ panelAt.disposed
    /\ panelAt' = [panelAt EXCEPT !.disposed = TRUE, !.timer = FALSE, !.generation = @ + 1]
    /\ UNCHANGED <<saved, openedSession, fetch, activeRoot, snapshot, panelEvents>>

PanelInit ==
    /\ saved = [s \in HostSession |-> 0]
    /\ openedSession = NoSession
    /\ panelAt = [generation |-> 0, pendingRefresh |-> FALSE, timer |-> TRUE, disposed |-> FALSE]
    /\ fetch = NoFetch
    /\ activeRoot = NoSession
    /\ snapshot = [session |-> NoSession, root |-> NoSession, revision |-> 0, failed |-> FALSE,
                   putUpFor |-> NoSession]
    /\ panelEvents = 0

PanelNext ==
    \/ TimerFires \/ ResolveNone \/ ReadSession \/ Update \/ DisposePanel
    \/ ResolveParent(TRUE) /\ UNCHANGED panelEvents
    \/ /\ panelEvents < MaxPanelEvents
       /\ panelEvents' = panelEvents + 1
       /\ \/ ResolveParent(FALSE) \/ Poll
          \/ \E s \in HostSession \union {NoSession} : SetSession(s)
          \/ \E s \in HostSession : Save(s)

-----------------------------------------------------------------------------
(* Properties.                                                             *)
RootOf(s) == IF s = NoSession \/ ParentOf[s] = NoSession THEN s ELSE ParentOf[s]

\* When the panel is at rest it shows the root of the session that is open, as
\* it was saved last, unless the host could not be asked.
AtRestItIsCurrent ==
    fetch = NoFetch /\ ~ panelAt.timer /\ ~ panelAt.disposed /\ ~ snapshot.failed =>
        /\ snapshot.session = openedSession
        /\ snapshot.root = RootOf(openedSession)
        /\ snapshot.revision = IF openedSession = NoSession THEN 0 ELSE saved[RootOf(openedSession)]

\* A load that was under way when another session was opened puts up nothing.
OnlyTheOpenIsPutUp == snapshot.session = snapshot.putUpFor
=============================================================================
