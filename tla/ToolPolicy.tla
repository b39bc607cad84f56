------------------------------ MODULE ToolPolicy ------------------------------
(***************************************************************************)
(* Whether a tool may be called: the order of the checks                   *)
(* (src/app/tool-execution-policy.ts), the scopes of the tasks that run    *)
(* (src/app/scope-match.ts, task-admission.ts), the actions of the stage   *)
(* (src/domain/action-admission.ts), and which calls are deliveries, which *)
(* are mutations (src/app/change-enforcement.ts).                          *)
(*                                                                         *)
(* A path is a sequence of segments; a call names it relative, absolute or *)
(* through a link.  A mask has the segments "*" and "**".  Whether the     *)
(* guards of actions hold is open.                                         *)
(***************************************************************************)
EXTENDS SchemaCompiler, ShellCommands

CONSTANTS
    File,          \* the files of the project, as paths
    PolicyStages,  \* the stages of the schema, in order
    Scopes,        \* the scopes of tasks: [writes, reads], sequences of masks
    Worker,        \* the tasks that can run
    Calls,         \* the calls that can be in flight
    Asked,         \* what is called: [tool, names, commands]
    NamedPath(_)   \* the path a name in a call stands for, or Outside

VARIABLES
    place,     \* [stage, run]: the stage, and where its open run is, or ""
    workers,   \* the tasks that run: [scope, strategy, before]
    pending,   \* the calls in flight
    operations \* activeOperations: the calls that mutate

policyVars == <<place, workers, pending, operations>>

Outside == <<"..">>
NoCallYet == [state |-> "none"]
fileTools == {"edit", "write", "apply_patch"}
mutatingTools == fileTools \union {"bash"}
readTools == {"read", "glob", "grep", "list"}
LineOf(asked) == Write([commands |-> asked.commands, separator |-> ";", quote |-> "none", comment |-> FALSE])
ReadAs == [asked \in Asked |->
    [segments |-> shellSegments(LineOf(asked)),
     forbidden |-> hasForbiddenGitSubcommand(LineOf(asked)),
     readOnly |-> isReadOnlyBashCommand(LineOf(asked))]]

\* Paths and masks are lists of segments, and a name leads to a file of the
\* project or out of it.
ASSUME PathsAssumption ==
    /\ \A f \in File : f \in Seq(Range(f)) /\ f # Outside
    /\ \A scope \in Scopes : \A i \in DOMAIN scope.writes :
         scope.writes[i] \in Seq(Range(scope.writes[i]))
    /\ \A asked \in Asked : \A name \in asked.names : NamedPath(name) \in File \union {Outside}

ASSUME AskedAssumption ==
    \A asked \in Asked : asked.tool = "bash" => AreCommands(asked.commands)

-----------------------------------------------------------------------------
(* Scopes.                                                                 *)
\* From where in a path a mask matches to the end, given from where what comes
\* after its first segment does: "**" takes any number, the last one at least one.
MatchedFrom(path, segment, last, later) ==
    {i \in 1..(Len(path) + 1) :
       \/ /\ segment # "**" /\ i <= Len(path)
          /\ segment \in {"*", path[i]}
          /\ i + 1 \in later
       \/ segment = "**" /\ last /\ i <= Len(path)
       \/ segment = "**" /\ ~ last /\ \E k \in later : i <= k}
GlobMatches(path, mask) ==
    LET from[n \in 0..Len(mask)] ==
          IF n = 0 THEN {Len(path) + 1}
          ELSE MatchedFrom(path, mask[Len(mask) - n + 1], n = 1, from[n - 1])
    IN  1 \in from[Len(mask)]
matchesScope(path, globs) == \E i \in DOMAIN globs : GlobMatches(path, globs[i])

Wild(segment) == segment \in {"*", "**"}

\* Mutant: masks of different length have nothing in common.
SameShape(a, b) == Len(a) = Len(b) /\ \A i \in DOMAIN a : a[i] = b[i] \/ Wild(a[i]) \/ Wild(b[i])

\* The first segment that is wild or differs decides; else the lengths do.
masksIntersect(a, b) ==
    LET common == 1..(IF Len(a) < Len(b) THEN Len(a) ELSE Len(b))
        decides == {i \in common : Wild(a[i]) \/ Wild(b[i]) \/ a[i] # b[i]}
        first == CHOOSE i \in decides : \A j \in decides : i <= j
    IN  IF decides = {} THEN Len(a) = Len(b) ELSE Wild(a[first]) \/ Wild(b[first])
scopesIntersect(a, b) == \E i \in DOMAIN a, j \in DOMAIN b : masksIntersect(a[i], b[j])

\* taskAdmissionRejection: a serial list asks nothing of the others.
Admissible(scope, strategy) ==
    strategy = "serial" \/ \A t \in DOMAIN workers : ~ scopesIntersect(scope.writes, workers[t].scope.writes)

StartTask(t) ==
    /\ t \notin DOMAIN workers
    /\ \E scope \in Scopes, strategy \in {"parallel", "serial"} :
         /\ Admissible(scope, strategy)
         /\ workers' = [u \in DOMAIN workers \union {t} |->
                IF u = t THEN [scope |-> scope, strategy |-> strategy, before |-> DOMAIN workers]
                ELSE workers[u]]
    /\ UNCHANGED <<place, pending, operations>>

EndTask(t) ==
    /\ t \in DOMAIN workers
    /\ workers' = [u \in DOMAIN workers \ {t} |-> [workers[u] EXCEPT !.before = @ \ {t}]]
    /\ UNCHANGED <<place, pending, operations>>

\* toProjectRelativePath: a name that leads out of the project is no path of it.
TargetPaths(names) == {NamedPath(n) : n \in names}

\* Mutant: the name is compared, not where it leads.
OwnedByName(name, masks) == \E scope \in masks : matchesScope(name, scope)

OwnedBy(name, masks) ==
    NamedPath(name) # Outside /\ \E scope \in masks : matchesScope(NamedPath(name), scope)

\* scopeBefore: what is written lies in the scope of a task that runs, what is
\* read in one of those that restrict reading; no task, no restriction.
ScopeBefore(asked) ==
    LET writes == {workers[t].scope.writes : t \in DOMAIN workers}
        reads == {workers[t].scope.reads : t \in DOMAIN workers} \ {<<>>}
    IN  /\ asked.tool \in fileTools /\ writes # {} => \A n \in asked.names : OwnedBy(n, writes)
        /\ asked.tool \in readTools /\ reads # {} => \A n \in asked.names : OwnedBy(n, reads)

-----------------------------------------------------------------------------
(* Actions of the stage.                                                   *)
\* Mutant: one command that matches is enough.
CommandMatchesSome(segments, patterns) ==
    \E words \in Range(segments) : \E i \in DOMAIN patterns : patterns[i] = words

commandMatches(segments, patterns) ==
    /\ segments # <<>>
    /\ \A words \in Range(segments) : \E i \in DOMAIN patterns : patterns[i] = words

Unrestricted == <<ActionEntry("unrestricted")>>

\* actingStageActions: of the stage of the open run, of the first stage of a
\* loop, or of the stage itself.
ActingStageActions ==
    LET outer == At(PolicyStages, place.stage)
        nested == IF place.run # "" THEN {d \in Range(outer.stages) : d.id = place.run}
                  ELSE IF outer.loop # "" THEN {outer.stages[1]} ELSE {}
        declared == {d.actions : d \in {e \in nested : e.actions # Unrestricted}}
    IN  IF declared # {} THEN CHOOSE a \in declared : TRUE ELSE outer.actions

Discriminates(entry, asked) ==
    /\ entry.action = (IF asked.tool = "bash" THEN "bash" ELSE "edit")
    /\ CASE entry.paths # <<>> -> /\ asked.names # {}
                                  /\ \A p \in TargetPaths(asked.names) : matchesScope(p, entry.paths)
         [] entry.paths = <<>> /\ entry.commands # <<>> ->
              asked.tool = "bash" /\ commandMatches(ReadAs[asked].segments, entry.commands)
         [] OTHER -> TRUE

\* admitAction: the first entry that covers the call and whose guard holds.
AdmitAction(entries, asked, holds) ==
    \E i \in DOMAIN entries :
        Discriminates(entries[i], asked) /\ (entries[i].guard = "" \/ holds)

ActionsBefore(asked, holds) ==
    asked.tool \in mutatingTools =>
        IF ActingStageActions = Unrestricted
        THEN asked.tool = "bash" => ~ ReadAs[asked].forbidden
        ELSE AdmitAction(ActingStageActions, asked, holds)

declaredDeliveryCommands(actions) ==
    IF actions = Unrestricted THEN <<>>
    ELSE FoldLeft(LAMBDA all, a : IF a.delivers THEN all \o a.commands ELSE all, <<>>, actions)
Deliveries == declaredDeliveryCommands(ActingStageActions)
IsCommitDelivery(asked) ==
    asked.tool = "bash" /\ Deliveries # <<>> /\ commandMatches(ReadAs[asked].segments, Deliveries)
ReadsOnlyCall(asked) == asked.tool = "bash" /\ ReadAs[asked].readOnly
IsMutation(asked) ==
    asked.tool \in mutatingTools /\ ~ IsCommitDelivery(asked) /\ ~ ReadsOnlyCall(asked)

-----------------------------------------------------------------------------
(* A call.                                                                 *)
\* before: guardrails, rules and consent have let it through; scopes,
\* actions, delivery, mutation.  A second mutation is refused.
Before(k, asked, holds) ==
    /\ pending[k] = NoCallYet
    /\ ScopeBefore(asked) /\ ActionsBefore(asked, holds)
    /\ IsMutation(asked) => operations = {}
    /\ operations' = IF IsMutation(asked) THEN operations \union {k} ELSE operations
    /\ pending' = [pending EXCEPT ![k] =
           [state |-> "admitted", asked |-> asked, moved |-> FALSE,
            governed |-> k \in operations',
            scopes |-> IF asked.tool \in fileTools THEN {workers[t].scope.writes : t \in DOMAIN workers} ELSE {},
            declared |-> IF IsCommitDelivery(asked) THEN Range(Deliveries) ELSE {}]]
    /\ UNCHANGED <<place, workers>>

\* Mutant: only what was called to edit is finished.
FinishesEdits(asked) == asked.tool \in fileTools

\* mutationAfter asks the stage the session is at by now.
Finishes(asked) == IsMutation(asked)

After(k) ==
    /\ pending[k].state = "admitted"
    /\ operations' = IF Finishes(pending[k].asked) THEN operations \ {k} ELSE operations
    /\ pending' = [pending EXCEPT ![k] =
           IF k \in operations' THEN [@ EXCEPT !.state = "over", !.scopes = {}] ELSE NoCallYet]
    /\ UNCHANGED <<place, workers>>

\* The operation of a call that is over is dropped when its lease ends
\* (releaseInterruptedLock, which OperationLifecycle models).
LeaseEnds(k) ==
    /\ pending[k].state = "over"
    /\ operations' = operations \ {k}
    /\ pending' = [pending EXCEPT ![k] = NoCallYet]
    /\ UNCHANGED <<place, workers>>

\* The session moves between two hooks of a call.
MoveStage ==
    /\ \E i \in DOMAIN PolicyStages : \E run \in {""} \union Ids(PolicyStages[i].stages) :
         place' = [stage |-> PolicyStages[i].id, run |-> run]
    /\ pending' = [k \in Calls |-> IF pending[k] = NoCallYet THEN NoCallYet
                                   ELSE [pending[k] EXCEPT !.moved = TRUE]]
    /\ UNCHANGED <<workers, operations>>

PolicyInit ==
    /\ place = [stage |-> PolicyStages[1].id, run |-> ""]
    /\ workers = <<>>
    /\ pending = [k \in Calls |-> NoCallYet]
    /\ operations = {}

PolicyNext ==
    \/ \E t \in Worker : StartTask(t) \/ EndTask(t)
    \/ \E k \in Calls : (\E asked \in Asked, holds \in BOOLEAN : Before(k, asked, holds))
                        \/ After(k) \/ LeaseEnds(k)
    \/ MoveStage

PolicySpec == PolicyInit /\ [][PolicyNext]_policyVars

-----------------------------------------------------------------------------
(* Properties.                                                             *)

\* What an edit may write has one owner: every path it names leads into the
\* scope of a task that ran when it was admitted, and no file of the project is
\* in the scopes of two tasks that run, unless the later came from a serial list
\* (task-admission.ts:424: what makes attribution possible is that scopes are
\* disjoint).
WritesHaveOneOwner ==
    /\ \A k \in Calls :
         pending[k].state = "admitted" /\ pending[k].scopes # {} =>
            \A p \in TargetPaths(pending[k].asked.names) :
               p \in File /\ \E scope \in pending[k].scopes : matchesScope(p, scope)
    /\ \A t \in DOMAIN workers : workers[t].strategy # "serial" =>
         \A u \in workers[t].before : \A f \in File :
            ~ (matchesScope(f, workers[t].scope.writes) /\ matchesScope(f, workers[u].scope.writes))

\* A line that runs without a baseline consists of deliveries that the stage
\* declared when it was admitted, every one of its commands, or of commands none
\* of which changes something by itself.
UngovernedCallsAreDeclared ==
    \A k \in Calls :
        pending[k].state = "admitted" /\ pending[k].asked.tool = "bash" /\ ~ pending[k].governed =>
            \A words \in Range(pending[k].asked.commands) :
                words \in pending[k].declared \/ ~ ChangesByItself(words)

\* An operation outlives its call only if the session moved between the two
\* hooks, which makes a delivery of what was a mutation.
OperationsEndWithTheirCall ==
    \A k \in operations : pending[k].state = "over" => pending[k].moved

(* A call is governed as what it is: writes have one owner, and what runs  *)
(* without an operation of its own is delivered, or changes nothing but    *)
(* for an argument that nobody looks at.                                   *)
CallsAreGoverned ==
    WritesHaveOneOwner /\ UngovernedCallsAreDeclared /\ OperationsEndWithTheirCall
=============================================================================
