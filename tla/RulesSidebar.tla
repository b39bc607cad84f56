----------------------------- MODULE RulesSidebar -----------------------------
(***************************************************************************)
(* The panel that shows which rules of a session have matched: loads that  *)
(* overtake one another, retries and refreshes                             *)
(* (src/tui/data/rules-load-coordinator.ts), the effects and events that   *)
(* ask for them (src/tui/slots/sidebar-content.tsx) and what a load makes  *)
(* of the rules and the file of MatchedRules (src/tui/data/rules.ts).      *)
(***************************************************************************)
EXTENDS Integers, Sequences, SequencesExt, FiniteSets

CONSTANTS
    Opened,         \* the sessions the panel may be switched between
    FoundRules,     \* the rules there may be: [source, dir, file, stem, conditional]
    Retries,        \* RETRY_DELAYS_MS.length
    MaxEvents       \* bound: events, switches, failures and changes of the file

\* A path below the directory of one source is one file.
ASSUME FoundRulesAssumption ==
    \A rules \in FoundRules : \A q, r \in rules :
        /\ r.dir \in Seq(STRING) /\ r.file \in STRING /\ r.stem \in STRING
        /\ q.source = r.source /\ q.dir = r.dir /\ q.file = r.file => q = r
ASSUME RetriesAssumption == Retries \in Nat

VARIABLES
    found,      \* the rules on disk
    evaluated,  \* the file of each session: a set of rules, or NotEvaluated
    coord,      \* the state of the coordinator
    loads,      \* loads in flight
    panel,      \* what is shown: [session, status, entries]
    debounce,   \* an event has set the timer
    stale,      \* ghost: nothing was read since the last event or switch
    eventsSeen

sidebarVars == <<found, evaluated, coord, loads, panel, debounce, stale, eventsSeen>>

NotEvaluated == {[none |-> TRUE]}
NoRequest == 0
NoTarget == "none"

-----------------------------------------------------------------------------
(* loadSidebarRules.                                                       *)
isActive(rule, state) ==
    CASE state # NotEvaluated -> IF rule \in state THEN "active" ELSE "inactive"
      [] state = NotEvaluated /\ rule.conditional -> "unknown"
      [] OTHER -> "active"

\* No file is called like another one and a suffix more, as x.md.mdc beside x.md.
NoStemIsAFileName == \A rules \in FoundRules : \A q, r \in rules : q # r => q.stem # r.file

\* Mutant: a name is made longer once.
TwoPasses(rules, name) == [r \in rules |-> name[r]]

Ambiguous(rules, name, r) == \E q \in rules \ {r} : name[q] = name[r]
StemNames(rules) == [r \in rules |-> <<r.stem>>]
ParentNames(rules, name) ==
    [r \in rules |-> IF Ambiguous(rules, name, r) /\ r.dir # <<>>
                     THEN <<Last(r.dir)>> \o name[r] ELSE name[r]]
PathNames(rules, name) ==
    [r \in rules |-> IF Ambiguous(rules, name, r) THEN Append(r.dir, r.file) ELSE name[r]]
disambiguateNames(rules) ==
    PathNames(rules, ParentNames(rules, StemNames(rules)))

Entries(rules, state) ==
    LET name == disambiguateNames(rules)
    IN  {[source |-> r.source, name |-> name[r], rule |-> r, active |-> isActive(r, state)] : r \in rules}

-----------------------------------------------------------------------------
(* createRulesLoadCoordinator.                                             *)
Fresh == [target |-> NoTarget, generation |-> 0, nextId |-> 0, active |-> NoRequest,
          pendingRefresh |-> FALSE, retryIndex |-> 0, retry |-> FALSE, disposed |-> FALSE]

\* Mutant: a retry that is due comes all the same.
KeepRetry(c) == [c EXCEPT !.retryIndex = 0]
CancelRetry(c) == [c EXCEPT !.retryIndex = 0, !.retry = FALSE]

\* Mutant: whatever comes back is shown.
AnyUndisposed(l) == ~ coord.disposed
isCurrent(l) == ~ coord.disposed /\ coord.active = l.id /\ coord.generation = l.generation

\* startLoad, with the coordinator as c; the loads that are in flight are others.
StartLoad(c, reset, others) ==
    /\ coord' = [c EXCEPT !.nextId = @ + 1, !.active = c.nextId + 1]
    /\ loads' = others \union {[id |-> c.nextId + 1, generation |-> c.generation, reset |-> reset,
                                session |-> c.target, read |-> FALSE, state |-> NotEvaluated, after |-> TRUE]}

\* A load reads the file when it comes to it.
ReadState(l) ==
    /\ l \in loads /\ ~ l.read
    /\ loads' = (loads \ {l}) \union {[l EXCEPT !.read = TRUE, !.state = evaluated[l.session]]}
    /\ UNCHANGED <<found, evaluated, coord, panel, debounce, stale, eventsSeen>>

\* Mutant: a refresh that came during a load is forgotten.
Forget(c) == FALSE
RefreshIsDue(c) == c.pendingRefresh

Settle(l, failed) ==
    LET c == [coord EXCEPT !.active = NoRequest] IN
    /\ l \in loads
    /\ IF ~ isCurrent(l) THEN loads' = loads \ {l} /\ UNCHANGED <<coord, panel, stale>>
       ELSE /\ panel' = CASE ~ failed -> [panel EXCEPT !.session = l.session, !.status = "loaded",
                                                       !.entries = Entries(found, l.state)]
                          [] failed /\ l.reset -> [panel EXCEPT !.status = "error"]
                          [] OTHER -> panel
            /\ stale' = (stale /\ ~ l.after)
            /\ IF RefreshIsDue(c)
               THEN StartLoad([CancelRetry(c) EXCEPT !.pendingRefresh = FALSE], FALSE, loads \ {l})
               ELSE /\ loads' = loads \ {l}
                    /\ coord' = CASE failed -> c
                                  [] ~ failed /\ l.state # NotEvaluated -> CancelRetry(c)
                                  [] ~ failed /\ l.state = NotEvaluated /\ c.retryIndex < Retries ->
                                       [c EXCEPT !.retryIndex = @ + 1, !.retry = TRUE]
                                  [] OTHER -> c
    /\ UNCHANGED <<found, evaluated, debounce>>

RetryFires ==
    /\ coord.retry /\ ~ coord.disposed
    /\ StartLoad([coord EXCEPT !.retry = FALSE], FALSE, loads)
    /\ UNCHANGED <<found, evaluated, panel, debounce, stale, eventsSeen>>

\* Every load that began before an event may have read before it.
Overtaken == {[l EXCEPT !.after = FALSE] : l \in loads}

\* Effect 1: another session; reset.
SwitchSession(s) ==
    /\ ~ coord.disposed /\ coord.target # s
    /\ panel' = [panel EXCEPT !.status = "loading"]
    /\ debounce' = FALSE
    /\ stale' = TRUE
    /\ StartLoad([CancelRetry(coord) EXCEPT !.pendingRefresh = FALSE, !.target = s, !.generation = @ + 1],
                 TRUE, Overtaken)
    /\ UNCHANGED <<found, evaluated>>

\* triggerRefresh: an event of the session that is shown.
HostEvent ==
    /\ ~ coord.disposed /\ coord.target # NoTarget
    /\ debounce' = TRUE
    /\ stale' = TRUE
    /\ loads' = Overtaken
    /\ UNCHANGED <<found, evaluated, coord, panel>>

\* The debounce timer, effect 2: refresh.
Refresh ==
    /\ debounce /\ ~ coord.disposed
    /\ debounce' = FALSE
    /\ IF coord.active # NoRequest
       THEN coord' = [CancelRetry(coord) EXCEPT !.pendingRefresh = TRUE] /\ UNCHANGED loads
       ELSE StartLoad(CancelRetry(coord), FALSE, loads)
    /\ UNCHANGED <<found, evaluated, panel, stale, eventsSeen>>

\* The hooks store what has matched.
Evaluate(s) ==
    /\ \E set \in SUBSET found : evaluated' = [evaluated EXCEPT ![s] = set]
    /\ UNCHANGED <<found, coord, loads, panel, debounce, stale>>

Dispose ==
    /\ ~ coord.disposed
    /\ coord' = [Fresh EXCEPT !.disposed = TRUE, !.generation = coord.generation + 1, !.nextId = coord.nextId]
    /\ debounce' = FALSE
    /\ UNCHANGED <<found, evaluated, loads, panel, stale, eventsSeen>>

SidebarInit ==
    /\ found \in FoundRules
    /\ evaluated = [s \in Opened |-> NotEvaluated]
    /\ coord = Fresh
    /\ loads = {}
    /\ panel = [session |-> NoTarget, status |-> "loading", entries |-> {}]
    /\ debounce = FALSE
    /\ stale = FALSE
    /\ eventsSeen = 0

SidebarNext ==
    \/ Refresh \/ RetryFires \/ Dispose
    \/ \E l \in loads : ReadState(l)
    \/ /\ UNCHANGED eventsSeen
       /\ \E l \in loads : l.read /\ Settle(l, FALSE)
    \/ /\ eventsSeen < MaxEvents
       /\ eventsSeen' = eventsSeen + 1
       /\ \/ HostEvent
          \/ \E s \in Opened : SwitchSession(s) \/ Evaluate(s)
          \/ \E l \in loads : Settle(l, TRUE)

-----------------------------------------------------------------------------
(* Properties.                                                             *)

\* What is shown as loaded is of the session that is open, however late the
\* loads of others come back.
ShownIsOfTheTarget == panel.status = "loaded" /\ ~ coord.disposed => panel.session = coord.target

\* After an event the file is read again: as long as that has not been tried, a
\* timer or a load that will be followed by another is under way.
NoRefreshIsLost ==
    stale /\ ~ coord.disposed =>
        \/ debounce
        \/ \E l \in loads : isCurrent(l) /\ (l.after \/ coord.pendingRefresh)

\* Retries, refreshes and what follows them never load one target twice at once.
OneLoadAtATime ==
    \A l, m \in loads : l.generation = coord.generation /\ m.generation = coord.generation => l = m

\* Two rules of one directory never go by one name.
NamesTellRulesApart ==
    \A e, f \in panel.entries : e.source = f.source /\ e.name = f.name => e = f
=============================================================================
