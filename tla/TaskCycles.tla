------------------------------ MODULE TaskCycles ------------------------------
(***************************************************************************)
(* Lists of tasks under the tasks of a list: a loop over one list, with a  *)
(* loop over "$currentTask.id" in it, which serves the lists of children   *)
(* of any depth.  How lists are set and statuses written                   *)
(* (src/app/task-api.ts), which task a loop admits under each strategy     *)
(* (src/app/task-admission.ts), the contexts of the tasks at work          *)
(* (src/session/helpers.ts), decisions on tasks that ran out of retries    *)
(* (src/app/workflow-tool-surface.ts), and what a save refuses             *)
(* (src/session/session-schema.ts).                                        *)
(*                                                                         *)
(* Both loops have two stages, passed through in order.  Whether a budget  *)
(* is spent, and whether a stage lets go, is open; rosters and guards at   *)
(* the entry are left out, as are stages with gates, where a run has more  *)
(* than one call.  Repeated and late answers are in GateService, edits as  *)
(* such in Workflow.                                                       *)
(***************************************************************************)
EXTENDS Naturals, Sequences, FiniteSetsExt, Functions

CONSTANTS
    Cycles,      \* the dispatch of the two loops: [outer, inner : [strategy, max]]
    TaskPlans,   \* the lists that are set: what each of their tasks may write
    MaxTaskId,
    MaxTaskRuns,
    MaxWritten   \* the controller writes no status once he wrote those of so many tasks

\* DispatchDefSchema: maxConcurrent is a positive integer; 1 for serial by compileDispatch.
ASSUME CyclesAssumption ==
    \A c \in Cycles : \A d \in {c.outer, c.inner} :
        d.strategy \in {"serial", "serial_with_overlap", "parallel"} /\ d.max \in Nat \ {0}
ASSUME TaskPlansAssumption ==
    /\ \A scopes \in TaskPlans : scopes \in Seq({scopes[i] : i \in DOMAIN scopes})
    /\ MaxTaskId \in Nat

VARIABLES
    cycle,         \* the one of Cycles the schema declares
    taskLists,     \* session.tasks: list key -> sequence of [id, status, scope]
    taskRuns,      \* session.loopRuns, in the order of their numbers
    taskContexts,  \* session.activeTaskContexts: run -> [task, status]
    taskCalls,     \* the runs a dispatched call works on
    retryQuestions, \* session.pendingDecisions: [task, run]
    written        \* history: the tasks whose status the controller wrote

cycleVars == <<cycle, taskLists, taskRuns, taskContexts, taskCalls, retryQuestions, written>>

\* A list is the static one, or that of the children of a task.
OuterList == <<>>
ChildList(t) == <<t>>
ListKeys == {OuterList} \union {ChildList(t) : t \in 0 .. MaxTaskId}

ReadOnly == "none"
NobodysTask == MaxTaskId + 1
EntryStage == 1
LastStage == 2
\* Failed and cancelled are told apart nowhere here: one stands for both.
overStatus == {"completed", "cancelled"}
anyStatus == {"pending", "running"} \union overStatus

-----------------------------------------------------------------------------
SetAt(f, key, value) == [k \in DOMAIN f \union {key} |-> IF k = key THEN value ELSE f[k]]
IdsOf(list) == {list[i].id : i \in DOMAIN list}
AllIds == UNION {IdsOf(taskLists[l]) : l \in DOMAIN taskLists}
ListsWith(t) == {l \in DOMAIN taskLists : t \in IdsOf(taskLists[l])}
TaskNamed(t) ==
    LET l == CHOOSE l \in ListsWith(t) : TRUE
    IN  taskLists[l][CHOOSE i \in DOMAIN taskLists[l] : taskLists[l][i].id = t]
WithStatus(t, status) ==
    [l \in DOMAIN taskLists |-> [i \in DOMAIN taskLists[l] |->
        IF taskLists[l][i].id = t THEN [taskLists[l][i] EXCEPT !.status = status] ELSE taskLists[l][i]]]

\* isOpenLoopRun: a run that waits for a decision is open.
OpenLoopRuns == {r \in DOMAIN taskRuns : taskRuns[r].status \in {"running", "awaiting_decision"}}
OpenRunsFor(t) == {r \in OpenLoopRuns : taskRuns[r].task = t}

scopesIntersecting(a, b) == a = b /\ a # ReadOnly

\* resolveTaskAncestry: from the outermost list down to the parent of this one.
OneMoreAbove(shorter) ==
    [l \in ListKeys |->
        IF l = OuterList \/ ListsWith(l[1]) = {} THEN <<>>
        ELSE LET above == CHOOSE k \in ListsWith(l[1]) : TRUE
             IN  Append(shorter[above], [list |-> above, task |-> l[1]])]
Ancestry(list) ==
    LET up[n \in 0 .. (MaxTaskId + 1)] ==
          IF n = 0 THEN [l \in ListKeys |-> <<>>] ELSE OneMoreAbove(up[n - 1])
    IN  up[MaxTaskId + 1][list]

\* upsertActiveTaskContextFromSession: the task is the one it had, or none.
ContextMoved(r, status) ==
    SetAt(taskContexts, r,
        [task |-> IF r \in DOMAIN taskContexts THEN taskContexts[r].task ELSE NobodysTask, status |-> status])
ContextsWithout(runs) == Restrict(taskContexts, DOMAIN taskContexts \ runs)

-----------------------------------------------------------------------------
(* Lists.                                                                  *)

\* assertListIsNotInUse
NotInUse(l) == \A r \in OpenLoopRuns : taskRuns[r].list # l

\* Mutant: whoever has children may be replaced.
KeepsAnything(l) == TRUE

\* assertReplacementKeepsChildren: the ids of the new tasks are always new.
KeepsChildren(l) ==
    l \in DOMAIN taskLists => \A t \in IdsOf(taskLists[l]) : ChildList(t) \notin DOMAIN taskLists

\* Ids go on from the largest of all lists.
NextId == IF AllIds = {} THEN 0 ELSE Max(AllIds) + 1

\* assertUniqueTaskIds
UniqueIds(l, tasks) == \A k \in DOMAIN taskLists \ {l} : IdsOf(taskLists[k]) \intersect IdsOf(tasks) = {}

\* workflow-tasks-set on a list that is known.
SetTaskList(l, scopes) ==
    LET tasks == [i \in DOMAIN scopes |->
                    [id |-> NextId + i - 1, status |-> "pending", scope |-> scopes[i]]]
    IN  /\ NextId + Len(scopes) <= MaxTaskId + 1
        /\ l = OuterList \/ \E t \in AllIds : l = ChildList(t)
        /\ NotInUse(l)
        /\ UniqueIds(l, tasks)
        /\ KeepsChildren(l)
        /\ taskLists' = SetAt(taskLists, l, tasks)
        /\ UNCHANGED <<cycle, taskRuns, taskContexts, taskCalls, retryQuestions, written>>

\* workflow-tasks-set-status, with closeExecution for a task that is stopped.
WriteStatus(t, status) ==
    LET stopped == IF status = "cancelled" THEN OpenRunsFor(t) ELSE {}
    IN  /\ Cardinality(written) < MaxWritten
        /\ t \in AllIds
        /\ taskLists' = WithStatus(t, status)
        /\ taskRuns' = [r \in DOMAIN taskRuns |->
                          IF r \in stopped THEN [taskRuns[r] EXCEPT !.status = "cancelled"] ELSE taskRuns[r]]
        /\ taskContexts' = ContextsWithout(stopped)
        /\ taskCalls' = taskCalls \ stopped
        /\ written' = written \union {t}
        /\ UNCHANGED <<cycle, retryQuestions>>

-----------------------------------------------------------------------------
(* Admission.                                                              *)
DispatchOf(l) == IF l = OuterList THEN cycle.outer ELSE cycle.inner

\* Mutant: every open run of the session counts.
AnyCyclesRuns(l) == OpenLoopRuns

CycleRuns(l) == {r \in OpenLoopRuns : taskRuns[r].list = l}

\* serial: the next unfinished task, one at a time.
SerialAdmitsNext(l, i) ==
    /\ CycleRuns(l) = {}
    /\ \A j \in 1..(i - 1) : taskLists[l][j].status \in overStatus

\* Mutant: only the list's own runs are asked for their scope.
OverlapsInCycle(l, i) ==
    \E r \in OpenLoopRuns : taskRuns[r].list = l /\ ListsWith(taskRuns[r].task) # {} /\
        scopesIntersecting(taskLists[l][i].scope, TaskNamed(taskRuns[r].task).scope)

\* Scopes are compared across the session.
OverlapsSomeRun(l, i) ==
    \E r \in OpenLoopRuns : ListsWith(taskRuns[r].task) # {} /\
        scopesIntersecting(taskLists[l][i].scope, TaskNamed(taskRuns[r].task).scope)

\* Mutant: the one before has left the first stage, whatever is before that.
OverlapAfterPrior(l, i) ==
    LET prior == taskLists[l][i - 1]
    IN  IF i = 1 THEN CycleRuns(l) = {}
        ELSE prior.status \in overStatus
             \/ \E r \in CycleRuns(l) : taskRuns[r].task = prior.id /\ taskRuns[r].stage # EntryStage

\* serial_with_overlap: the one before is over or has left the first stage,
\* and nothing before that is pending.
OverlapAdmits(l, i) ==
    LET prior == taskLists[l][i - 1]
    IN  IF i = 1 THEN CycleRuns(l) = {}
        ELSE /\ \/ prior.status \in overStatus
                \/ \E r \in CycleRuns(l) : taskRuns[r].task = prior.id /\ taskRuns[r].stage # EntryStage
             /\ \A j \in 1..(i - 2) : taskLists[l][j].status # "pending"

\* taskAdmissionRejection
CycleAdmits(l, i) ==
    LET d == DispatchOf(l)
    IN  IF d.strategy = "serial" THEN SerialAdmitsNext(l, i)
        ELSE /\ Cardinality(CycleRuns(l)) < d.max
             /\ ~ OverlapsSomeRun(l, i)
             /\ d.strategy = "parallel" \/ OverlapAdmits(l, i)

NewLoopRun(t, l, ancestry) ==
    [task |-> t, list |-> l, ancestry |-> ancestry, stage |-> EntryStage, status |-> "running"]

\* resolveAdmissionLoop: the outer loop if the task is in its list, else the
\* inner one for the one list of children that has it.
AdmissionLists(t) ==
    IF OuterList \in ListsWith(t) THEN {OuterList}
    ELSE IF Cardinality(ListsWith(t)) = 1 THEN ListsWith(t) ELSE {}

\* Mutant: a run that is there already has its context.
ContextOfFirstCall(r, t) ==
    IF r \in DOMAIN taskRuns THEN taskContexts
    ELSE SetAt(taskContexts, r, [task |-> t, status |-> "running"])

\* upsertActiveTaskContext of the call that is admitted.
ContextOfCall(r, t) == SetAt(taskContexts, r, [task |-> t, status |-> "running"])

DispatchNewRun(t) ==
    LET r == Len(taskRuns) + 1
    IN  /\ OpenRunsFor(t) = {}
        /\ r <= MaxTaskRuns
        /\ \E l \in AdmissionLists(t) :
             /\ \E i \in DOMAIN taskLists[l] : /\ taskLists[l][i].id = t
                                               /\ taskLists[l][i].status = "pending"
                                               /\ CycleAdmits(l, i)
             /\ taskRuns' = Append(taskRuns, NewLoopRun(t, l, Ancestry(l)))
        /\ taskLists' = WithStatus(t, "running")
        /\ taskCalls' = taskCalls \union {r}
        /\ taskContexts' = ContextOfCall(r, t)
        /\ UNCHANGED <<cycle, retryQuestions, written>>

\* The next call of a run: one at a time, none while a decision is awaited.
DispatchOpenRun(t) ==
    /\ AdmissionLists(t) # {}
    /\ Cardinality(OpenRunsFor(t)) = 1
    /\ \E r \in OpenRunsFor(t) \ taskCalls :
         /\ taskRuns[r].status = "running"
         /\ taskCalls' = taskCalls \union {r}
         /\ taskContexts' = ContextOfCall(r, t)
    /\ UNCHANGED <<cycle, taskLists, taskRuns, retryQuestions, written>>

\* An edit without a dispatch, in the loop: beginMutation opens a run for the
\* only task of the loop's list that is not finished, if no run is open.
EditOpensRun ==
    /\ OpenLoopRuns = {}
    /\ Len(taskRuns) < MaxTaskRuns
    /\ OuterList \in DOMAIN taskLists
    /\ \E t \in IdsOf(taskLists[OuterList]) :
         /\ {i \in DOMAIN taskLists[OuterList] : taskLists[OuterList][i].status \notin overStatus}
              = {i \in DOMAIN taskLists[OuterList] : taskLists[OuterList][i].id = t}
         /\ taskRuns' = Append(taskRuns, NewLoopRun(t, OuterList, <<>>))
         /\ taskLists' = WithStatus(t, "running")
    /\ UNCHANGED <<cycle, taskContexts, taskCalls, retryQuestions, written>>

-----------------------------------------------------------------------------
(* What becomes of a run.                                                  *)

\* A verdict that passes: to the next stage, or the end of the task.
MoveOn(r) ==
    /\ r \in taskCalls
    /\ IF taskRuns[r].stage = LastStage
       THEN /\ taskRuns' = [taskRuns EXCEPT ![r].status = "completed"]
            /\ taskLists' = WithStatus(taskRuns[r].task, "completed")
            /\ taskContexts' = ContextsWithout({r})
       ELSE /\ taskRuns' = [taskRuns EXCEPT ![r].stage = @ + 1]
            /\ taskLists' = WithStatus(taskRuns[r].task, "running")
            /\ taskContexts' = ContextMoved(r, "running")
    /\ taskCalls' = taskCalls \ {r}
    /\ UNCHANGED <<cycle, retryQuestions, written>>

\* upsertPendingDecision: one question about a task at a time.
AskedAbout(r) ==
    IF \E d \in retryQuestions : d.task = taskRuns[r].task THEN retryQuestions
    ELSE retryQuestions \union {[task |-> taskRuns[r].task, run |-> r]}

\* recordTaskRetryFailure, with attempts left or without.
SendBack(r, spent) ==
    /\ r \in taskCalls
    /\ taskRuns' = [taskRuns EXCEPT ![r].stage = EntryStage,
                                    ![r].status = IF spent THEN "awaiting_decision" ELSE "running"]
    /\ taskLists' = WithStatus(taskRuns[r].task, "running")
    /\ taskContexts' = ContextMoved(r, IF spent THEN "awaiting_decision" ELSE "running")
    /\ retryQuestions' = IF spent THEN AskedAbout(r) ELSE retryQuestions
    /\ taskCalls' = taskCalls \ {r}
    /\ UNCHANGED <<cycle, written>>

\* The call ends and the run stays where it is: an error, no verdict, a
\* transition whose guard or consent is missing.
CallEnds(r) ==
    /\ r \in taskCalls
    /\ taskCalls' = taskCalls \ {r}
    /\ UNCHANGED <<cycle, taskLists, taskRuns, taskContexts, retryQuestions, written>>

\* findPendingRetryContext: question, context, run and task must agree.
Decidable(d) ==
    /\ d.run \in DOMAIN taskContexts
    /\ taskContexts[d.run] = [task |-> d.task, status |-> "awaiting_decision"]
    /\ taskRuns[d.run].status = "awaiting_decision"
    /\ ListsWith(d.task) # {}

\* Mutant: the question stays when the task is given up.
QuestionsUnlessGivenUp(d, answer) == IF answer = "increase" THEN retryQuestions \ {d} ELSE retryQuestions

\* clearPendingDecision
QuestionsAfter(d, answer) == retryQuestions \ {d}

\* workflow-tasks-resolve-decision
ResolveDecision(d, answer) ==
    LET again == answer = "increase"
    IN  /\ d \in retryQuestions
        /\ Decidable(d)
        /\ taskRuns' = [taskRuns EXCEPT ![d.run].stage = IF again THEN EntryStage ELSE @,
                                        ![d.run].status = IF again THEN "running" ELSE answer]
        /\ taskLists' = WithStatus(d.task, IF again THEN "running" ELSE answer)
        /\ taskContexts' = IF again THEN ContextMoved(d.run, "running") ELSE ContextsWithout({d.run})
        /\ retryQuestions' = QuestionsAfter(d, answer)
        /\ UNCHANGED <<cycle, taskCalls, written>>

-----------------------------------------------------------------------------
CycleInit ==
    /\ cycle \in Cycles
    /\ taskLists = <<>>
    /\ taskRuns = <<>>
    /\ taskContexts = <<>>
    /\ taskCalls = {}
    /\ retryQuestions = {}
    /\ written = {}

CycleNext ==
    \/ \E l \in ListKeys, scopes \in TaskPlans : SetTaskList(l, scopes)
    \/ \E t \in 0..MaxTaskId, status \in anyStatus : WriteStatus(t, status)
    \/ \E t \in 0..MaxTaskId : DispatchNewRun(t) \/ DispatchOpenRun(t)
    \/ EditOpensRun
    \/ \E r \in taskCalls : MoveOn(r) \/ CallEnds(r) \/ \E spent \in BOOLEAN : SendBack(r, spent)
    \/ \E d \in retryQuestions, answer \in {"increase", "cancelled"} : ResolveDecision(d, answer)

CycleSpec == CycleInit /\ [][CycleNext]_cycleVars

-----------------------------------------------------------------------------
(* Properties.                                                             *)

\* No list has more runs open than its loop admits, and a run that a loop
\* other than a serial one has admitted writes nothing that a run opened
\* before it may write, whatever list that one is of.
OpenRunsAreApart ==
    /\ \A l \in DOMAIN taskLists :
         Cardinality({r \in OpenLoopRuns : taskRuns[r].list = l})
           <= IF DispatchOf(l).strategy = "serial" THEN 1 ELSE DispatchOf(l).max
    /\ \A r, s \in OpenLoopRuns :
         r < s /\ DispatchOf(taskRuns[s].list).strategy # "serial" =>
           ~ scopesIntersecting(TaskNamed(taskRuns[r].task).scope, TaskNamed(taskRuns[s].task).scope)

\* While a task is worked on it stays where it was when that began: in its
\* list, under the same parents, up to the list of the outer loop.
RunsKeepTheirPlace ==
    \A r \in OpenLoopRuns :
        LET run == taskRuns[r]
        IN  /\ run.list \in DOMAIN taskLists /\ run.task \in IdsOf(taskLists[run.list])
            /\ run.ancestry = Ancestry(run.list)
            /\ run.list # OuterList => run.ancestry # <<>> /\ run.ancestry[1].list = OuterList

\* A list of which nothing is under way never stands still: one of its pending
\* tasks is admitted, unless it would write what a run of another list writes.
\* A status "running" that the controller wrote stands for work under way.
SomethingIsAdmissible ==
    \A l \in DOMAIN taskLists :
        LET list == taskLists[l]
            waiting == {i \in DOMAIN list : list[i].status = "pending"}
        IN  /\ waiting # {}
            /\ \A i \in DOMAIN list : list[i].status # "running" /\ OpenRunsFor(list[i].id) = {}
            => \E i \in waiting : \/ CycleAdmits(l, i)
                                  \/ DispatchOf(l).strategy # "serial" /\ OverlapsSomeRun(l, i)

\* serial_with_overlap starts tasks in their order: none is at work while one
\* before it has not begun, save one whose status the controller wrote.
OverlapKeepsOrder ==
    \A r \in OpenLoopRuns :
        LET list == taskLists[taskRuns[r].list]
        IN  DispatchOf(taskRuns[r].list).strategy = "serial_with_overlap" =>
              \A i, j \in DOMAIN list :
                  i < j /\ list[j].id = taskRuns[r].task /\ list[i].status = "pending"
                  => list[i].id \in written

\* The store accepts what the handlers make of a session.  It refuses one with
\* a context that names no task, and the verdict that led to it would be lost.
SavesAreAccepted == \A r \in DOMAIN taskContexts : taskContexts[r].task = taskRuns[r].task

\* A task that waits for a decision has the question its controller can
\* answer, unless he wrote the status of a task of that id himself.
DecisionsFindTheirRun ==
    \A r \in DOMAIN taskRuns :
        taskRuns[r].status = "awaiting_decision" /\ taskRuns[r].task \notin written
        => \E d \in retryQuestions : d.run = r /\ Decidable(d)

(* Lists, runs, contexts and decisions of a session agree with one another *)
(* whatever is dispatched, sent back and rewritten, and some task can      *)
(* always go on.                                                           *)
ListsAndRunsAgree ==
    OpenRunsAreApart /\ RunsKeepTheirPlace /\ SomethingIsAdmissible /\ OverlapKeepsOrder
    /\ SavesAreAccepted /\ DecisionsFindTheirRun
=============================================================================
