------------------------------- MODULE Workflow -------------------------------
(***************************************************************************)
(* One session under the base workflow: every hook and tool of the plugin  *)
(* that changes it, in any order the host and its agents may call them.    *)
(*                                                                         *)
(* A handler is one step: SessionExecutor runs the handlers of a session   *)
(* one at a time, each on the object it loads and saves (see               *)
(* SessionExecutor.tla), so what interleaves is calls, not handlers.  A    *)
(* call id is a slot: a slot whose call is over may carry the next call.   *)
(***************************************************************************)
EXTENDS GateService

CONSTANTS
    ReportGate,   \* the gates a report may name, declared or not
    Feature,      \* which of the things below the environment does
    MaxRuns,      \* bound: runs of a session
    MaxMaximum    \* bound: the largest maximum an operator grants

\* controller  a task's status is set
\* replan      the plan is asked again and the tasks are replaced at any stage
\* edits       mutations are begun
\* expiry      operations outlive the TTL
\* errors      the host reports that a call failed
\* late        a call is answered after an error, or answered twice
\* restart     the plugin's process restarts
ASSUME FeatureAssumption ==
    Feature \subseteq {"controller", "replan", "edits", "expiry", "errors", "late", "restart"}
ASSUME ReportGateAssumption == Gate \subseteq ReportGate
ASSUME BoundAssumption == MaxRuns \in Nat /\ MaxMaximum \in Nat

VARIABLES
    session,  \* the session's file
    live,     \* liveMutations: the mutations this process has begun
    calls,    \* what the host is running
    archive   \* "none", "deferred": the save is done and archive() is next, "done"

vars == <<session, live, calls, archive>>

Agent == Gate \cup {"coder"}
TaskKind == {"task", "verifier"}
Checks == {"none"} \cup Verdict

NoCall == [kind |-> "none", state |-> "free", run |-> NoRun, round |-> 0]

CallRecord(kind, run, round) == [kind |-> kind, state |-> "running", run |-> run, round |-> round]

-----------------------------------------------------------------------------
Init ==
    /\ session = [stage |-> "planning", plan |-> FALSE, approval |-> "none",
                  list |-> {}, status |-> [t \in Task |-> "pending"],
                  gates |-> NoGates, judged |-> {}, cycles |-> 0, checks |-> "none",
                  runs |-> <<>>, ops |-> [k \in Call |-> NoOp],
                  attempts |-> [t \in Task |-> 0], maximum |-> [t \in Task |-> TaskRetries],
                  decisions |-> {}, processed |-> {},
                  permit |-> {}, receipt |-> FALSE, outcome |-> "none"]
    /\ live = {}
    /\ calls = [k \in Call |-> NoCall]
    /\ archive = "none"

\* The session's queue is free and its file is there.
Ready == archive = "none"

\* A slot the next call may have: nothing remembers the last one.
Unused(k) ==
    /\ calls[k].state \in {"free", "over"}
    /\ ~ HasOp(session, k)
    /\ k \notin live \cup session.permit

Forget(s, k) == [s EXCEPT !.processed = @ \ {k}]

\* A call that is over is remembered only if it may be answered again.
Over(k) ==
    [calls EXCEPT ![k] = IF "late" \in Feature THEN [@ EXCEPT !.state = "over"] ELSE NoCall]

\* Mutant: only a workflow that is done is archived.
AfterHookDoneOnly(s) ==
    LET done == AfterTool(s)
    IN  /\ session' = done
        /\ archive' = IF done.stage # s.stage /\ done.stage = "done" THEN "deferred" ELSE archive

\* The end of every after hook of s: one transition and, where it ends the
\* workflow, the outcome and the archive once s is saved.
AfterHook(s) ==
    LET done == AfterTool(s)
    IN  /\ session' = done
        /\ archive' = IF done.stage # s.stage /\ IsTerminal(done.stage)
                      THEN "deferred" ELSE archive

-----------------------------------------------------------------------------
(* Planning.                                                               *)

\* The question about the plan: asking again withdraws what was granted.
AskPlan ==
    /\ Ready
    /\ session.approval # "pending"
    /\ session.stage = "planning" \/ "replan" \in Feature
    /\ session' = [session EXCEPT !.approval = "pending", !.plan = TRUE]
    /\ UNCHANGED <<live, calls, archive>>

AnswerPlan(grant) ==
    /\ Ready
    /\ session.approval = "pending"
    /\ AfterHook([session EXCEPT !.approval = IF grant THEN "granted" ELSE "none"])
    /\ UNCHANGED <<live, calls>>

\* Mutant: the list is replaced whatever is worked on.
SetTasksAnytime(n) ==
    LET last == IF session.list = {} THEN 0
                ELSE CHOOSE t \in session.list : \A u \in session.list : u <= t
        fresh == (last + 1)..(last + n)
    IN  /\ Ready
        /\ session.stage \in {"planning", "tasks_ready"} \/ "replan" \in Feature
        /\ fresh \subseteq Task
        /\ session' = [session EXCEPT !.list = fresh,
                                      !.status = [t \in Task |-> IF t \in fresh THEN "pending"
                                                                 ELSE @[t]]]
        /\ UNCHANGED <<live, calls, archive>>

\* workflow-tasks-set: ids go on from the largest of the list replaced.
SetTasks(n) ==
    LET last == IF session.list = {} THEN 0
                ELSE CHOOSE t \in session.list : \A u \in session.list : u <= t
        fresh == (last + 1)..(last + n)
    IN  /\ Ready
        /\ session.stage \in {"planning", "tasks_ready"} \/ "replan" \in Feature
        /\ OpenRuns(session) = {}
        /\ fresh \subseteq Task
        /\ session' = [session EXCEPT !.list = fresh,
                                      !.status = [t \in Task |-> IF t \in fresh THEN "pending"
                                                                 ELSE @[t]]]
        /\ UNCHANGED <<live, calls, archive>>

-----------------------------------------------------------------------------
(* Dispatching a task: TaskAdmission.before().                             *)

RunningOps(t) ==
    {k \in Call : /\ HasOp(session, k)
                  /\ session.ops[k].status = "running"
                  /\ session.ops[k].run # NoRun
                  /\ session.runs[session.ops[k].run].task = t}

\* One call in a stage, or one per gate it waits for, each of its own agent.
RoomFor(t, stage, agent) ==
    \/ RunningOps(t) = {}
    \/ /\ Cardinality(RunningOps(t)) < Cardinality(DeclaredGates(stage))
       /\ \A k \in RunningOps(t) : session.ops[k].agent # agent

\* Mutant: order is kept, but not one at a time.
InOrder(t) == t \in Runnable(session)

\* dispatch: serial.  The next unfinished task, when no other is open.
SerialAdmits(t) ==
    /\ t \in Runnable(session)
    /\ \A u \in Runnable(session) : t <= u
    /\ OpenRuns(session) = {}

\* The run the call works on, once it is admitted.
OpenRunOf(t) == {r \in OpenRuns(session) : session.runs[r].task = t}

Dispatch(s, k, r, agent) ==
    [Forget(s, k) EXCEPT !.ops[k] = Operation("task", r, s.runs[r].round, agent)]

DispatchNext(k, t, agent) ==
    LET s == OpenRun(session, t)
        r == Len(s.runs)
    IN  /\ OpenRunOf(t) = {}
        /\ session.status[t] = "pending"
        /\ RoomFor(t, FirstLoopStage, agent)
        /\ SerialAdmits(t)
        /\ r <= MaxRuns
        /\ session' = Dispatch(s, k, r, agent)
        /\ calls' = [calls EXCEPT ![k] = CallRecord("task", r, 0)]

DispatchAgain(k, t, agent) ==
    \E r \in OpenRunOf(t) :
        /\ session.runs[r].status = "running"
        /\ RoomFor(t, session.runs[r].stage, agent)
        /\ session' = Dispatch(session, k, r, agent)
        /\ calls' = [calls EXCEPT ![k] = CallRecord("task", r, session.runs[r].round)]

DispatchTask(k, t, agent) ==
    /\ Ready
    /\ Unused(k)
    /\ session.stage = LoopStage
    /\ t \in session.list
    /\ DispatchNext(k, t, agent) \/ DispatchAgain(k, t, agent)
    /\ UNCHANGED <<live, archive>>

\* A task call that names no workflow task: no admission and no operation.
DispatchVerifier(k) ==
    /\ Ready
    /\ Unused(k)
    /\ session' = Forget(session, k)
    /\ calls' = [calls EXCEPT ![k] = CallRecord("verifier", NoRun, 0)]
    /\ UNCHANGED <<live, archive>>

\* The call's after hook, in time or late.
Answered(k) ==
    \/ calls[k].state = "running"
    \/ "late" \in Feature /\ calls[k].state \in {"failed", "over"}

Return(k, report, checks) ==
    /\ Ready
    /\ calls[k].kind \in TaskKind
    /\ Answered(k)
    /\ AfterHook(SettleResult(session, k, report, checks))
    /\ calls' = Over(k)
    /\ UNCHANGED live

-----------------------------------------------------------------------------
(* Mutations: ChangeEnforcement and MutationOrchestrator.                  *)

\* Editing is an action of `code` alone, and of the loop before any run.
EditDeclared ==
    /\ session.stage = LoopStage
    /\ session.approval = "granted"
    /\ \A r \in OpenRuns(session) : session.runs[r].stage = FirstLoopStage

BeginEdit(k) ==
    LET s == Unlocked(session, live, k)
    IN  /\ Ready
        /\ "edits" \in Feature
        /\ Unused(k)
        /\ EditDeclared
        /\ MutationAdmitted(s)
        /\ Len(ResolveMutationRun(s).runs) <= MaxRuns
        /\ session' = BeginMutation(Forget(s, k), k)
        /\ live' = live \cup {k}
        /\ calls' = [calls EXCEPT ![k] = CallRecord("edit", NoRun, 0)]
        /\ UNCHANGED archive

FinishEdit(k, checks) ==
    /\ Ready
    /\ calls[k].kind = "edit"
    /\ Answered(k)
    /\ AfterHook(FinishMutation(session, k, checks))
    /\ live' = live \ {k}
    /\ calls' = Over(k)

\* Delivery: permission before the command, a receipt when HEAD has moved to
\* just the files the permit names.
CommitDeclared ==
    /\ session.stage = "commit"
    /\ AllTasksCompleted(session)
    /\ AllPassed(session.gates)

BeginCommit(k) ==
    /\ Ready
    /\ Unused(k)
    /\ CommitDeclared
    /\ session' = [Forget(session, k) EXCEPT !.permit = {k}]
    /\ calls' = [calls EXCEPT ![k] = CallRecord("commit", NoRun, 0)]
    /\ UNCHANGED <<live, archive>>

\* head: HEAD has not moved, or moved to other files, or to those expected.
HandleCommit(s, k, head) ==
    IF k \notin s.permit \/ head = "unmoved" THEN s
    ELSE [s EXCEPT !.permit = {}, !.receipt = @ \/ head = "expected"]

FinishCommit(k, head) ==
    /\ Ready
    /\ calls[k].kind = "commit"
    /\ Answered(k)
    /\ AfterHook(HandleCommit(session, k, head))
    /\ calls' = Over(k)
    /\ UNCHANGED live

\* Any other tool: only the transition at the end of its after hook.
OtherTool ==
    /\ Ready
    /\ AfterHook(session)
    /\ UNCHANGED <<live, calls>>

-----------------------------------------------------------------------------
(* Failures.                                                               *)

\* A V1 host reports the error as an event.
ErrorEvent(k) ==
    /\ Ready
    /\ "errors" \in Feature
    /\ calls[k].state = "running"
    /\ session' = MarkInterrupted(ClearOnError(session, live, k), k)
    /\ live' = live \ {k}
    /\ calls' = [calls EXCEPT ![k].state = "failed"]
    /\ UNCHANGED archive

\* A V2 host calls the after hook with the failure: the operation ends with
\* failed checks and no transition is tried.
ToolFailure(k) ==
    /\ Ready
    /\ "errors" \in Feature
    /\ calls[k].state = "running"
    /\ session' = FinishOperation(session, k, "failed")
    /\ calls' = Over(k)
    /\ UNCHANGED <<live, archive>>

\* The clock: an operation outlives MUTATION_TTL_MS.
Expire(k) ==
    /\ "expiry" \in Feature
    /\ HasOp(session, k)
    /\ ~ session.ops[k].expired
    /\ session' = [session EXCEPT !.ops[k].expired = TRUE]
    /\ UNCHANGED <<live, calls, archive>>

Restart ==
    /\ "restart" \in Feature
    /\ archive # "done"
    /\ live' = {}
    /\ calls' = [k \in Call |-> NoCall]
    /\ archive' = "none"
    /\ UNCHANGED session

-----------------------------------------------------------------------------
(* The controller: workflow-tasks-set-status and -resolve-decision.        *)

\* Mutant: only the status of the task is written.
CloseNothing(s, t) == s

CloseExecution(s, t) ==
    LET mine == {r \in OpenRuns(s) : s.runs[r].task = t}
    IN  DropOps([s EXCEPT !.runs = [r \in DOMAIN @ |->
                                        IF r \in mine THEN [@[r] EXCEPT !.status = "cancelled"]
                                        ELSE @[r]]],
                {k \in Call : HasOp(s, k) /\ s.ops[k].run \in mine})

SetTaskStatus(t, status) ==
    LET s == [session EXCEPT !.status[t] = status]
    IN  /\ Ready
        /\ "controller" \in Feature
        /\ t \in session.list
        /\ session' = IF status \in {"cancelled", "failed"} THEN CloseExecution(s, t) ELSE s
        /\ UNCHANGED <<live, calls, archive>>

\* The decision and the run it names must both still be waiting.
Resolvable(d) == session.runs[d.run].status = "awaiting_decision"

Resolved(d) == [session EXCEPT !.decisions = @ \ {d}]

IncreaseRetries(d, maximum) ==
    /\ Ready
    /\ d \in session.decisions
    /\ Resolvable(d)
    /\ maximum > session.attempts[d.task]
    /\ session' = [Resolved(d) EXCEPT !.maximum[d.task] = maximum,
                                      !.runs[d.run].stage = FirstLoopStage,
                                      !.runs[d.run].status = "running",
                                      !.status[d.task] = "running"]
    /\ UNCHANGED <<live, calls, archive>>

GiveUp(d, how) ==
    /\ Ready
    /\ d \in session.decisions
    /\ Resolvable(d)
    /\ session' = [Resolved(d) EXCEPT !.runs[d.run].status = how, !.status[d.task] = how]
    /\ UNCHANGED <<live, calls, archive>>

\* The deferred effect of the transition that ended the workflow.
Archive ==
    /\ archive = "deferred"
    /\ archive' = "done"
    /\ UNCHANGED <<session, live, calls>>

-----------------------------------------------------------------------------
Reports == {NoReport} \cup {Report(g, v) : g \in ReportGate, v \in Verdict}

CallStep(k) ==
    \/ \E t \in Task, a \in Agent : DispatchTask(k, t, a)
    \/ DispatchVerifier(k)
    \/ \E report \in Reports, checks \in Checks : Return(k, report, checks)
    \/ BeginEdit(k)
    \/ \E checks \in Verdict : FinishEdit(k, checks)
    \/ BeginCommit(k)
    \/ \E head \in {"unmoved", "other", "expected"} : FinishCommit(k, head)
    \/ ErrorEvent(k)
    \/ ToolFailure(k)
    \/ Expire(k)

ControllerStep ==
    \/ AskPlan
    \/ \E grant \in BOOLEAN : AnswerPlan(grant)
    \/ \E n \in 0..Cardinality(Task) : SetTasks(n)
    \/ \E t \in Task, status \in TaskStatus : SetTaskStatus(t, status)
    \/ \E d \in session.decisions, maximum \in 1..MaxMaximum : IncreaseRetries(d, maximum)
    \/ \E d \in session.decisions, how \in {"failed", "cancelled"} : GiveUp(d, how)
    \/ OtherTool

Next ==
    \/ \E k \in Call : CallStep(k)
    \/ ControllerStep
    \/ Archive
    \/ Restart

Spec == Init /\ [][Next]_vars

\* The host ends every call it has begun, one way or another (each of Return,
\* FinishEdit, FinishCommit and ToolFailure does), and the queue of the session
\* goes on to its deferred effects.
HostEnds(k) == Ready /\ calls[k].state = "running" /\ calls' = Over(k)

FairSpec == Spec /\ WF_vars(Archive) /\ \A k \in Call : WF_calls(HostEnds(k))

-----------------------------------------------------------------------------
(* Types.                                                                  *)

RunType == [task : Task, stage : {"code", "verify"}, gates : [Gate -> Checks], round : Nat,
            checks : Checks, status : OpenStatus \cup {"completed", "failed", "cancelled"}]

OpType == [kind : {"task", "mutation"}, run : Nat, round : Nat, checks : Checks,
           agent : Agent \cup {"session-guard"}, status : {"running", "interrupted"},
           expired : BOOLEAN]

SessionType ==
    [stage : Stages, plan : BOOLEAN, approval : {"none", "pending", "granted"},
     list : SUBSET Task, status : [Task -> TaskStatus],
     gates : [Gate -> Checks], judged : SUBSET Gate, cycles : Nat, checks : Checks,
     runs : Seq(RunType), ops : [Call -> OpType \cup {NoOp}],
     attempts : [Task -> Nat], maximum : [Task -> Nat],
     decisions : SUBSET [task : Task, run : Nat], processed : SUBSET Call,
     permit : SUBSET Call, receipt : BOOLEAN, outcome : {"none"} \cup Stages]

CallType == [kind : {"none", "task", "verifier", "edit", "commit"},
             state : {"free", "running", "failed", "over"}, run : Nat, round : Nat]

\* Every variable has its type, and what names a run names one of session's.
TypeOK ==
    /\ session \in SessionType
    /\ \A k \in Call : HasOp(session, k) => session.ops[k].run \in 0..Len(session.runs)
    /\ \A d \in session.decisions : d.run \in DOMAIN session.runs
    /\ live \subseteq Call
    /\ calls \in [Call -> CallType]
    /\ archive \in {"none", "deferred", "done"}

-----------------------------------------------------------------------------
(* Properties.                                                             *)

\* dispatch: serial.  However dispatches, edits without a dispatch and the
\* controller interleave, one task is worked on at a time.
OneOpenRun == Cardinality(OpenRuns(session)) <= 1

\* A run takes a verdict, or moves on, only with the first answer of a call
\* that was dispatched for it in the very round it is in.
Judged(r) ==
    \/ \E g \in Gate : session'.runs[r].gates[g] \notin {"none", session.runs[r].gates[g]}
    \/ session'.runs[r].round # session.runs[r].round
    \/ session'.runs[r].status = "completed" /\ session.runs[r].status # "completed"

AnswersFirst(k) == k \in session'.processed \ session.processed

VerdictBelongsToItsRound ==
    [][\A r \in DOMAIN session.runs : Judged(r) =>
          \E k \in Call : /\ AnswersFirst(k)
                          /\ calls[k].kind = "task"
                          /\ calls[k].run = r
                          /\ calls[k].round = session.runs[r].round]_vars

\* The stage's gates take a verdict only with the first answer of a call that
\* was dispatched for the stage, not for a task.
StageVerdictBelongsToTheStage ==
    [][session'.gates # session.gates =>
          \E k \in Call : AnswersFirst(k) /\ calls[k].kind = "verifier"]_vars

\* While the host runs a call nobody takes its operation away: only its own
\* end does, its age, or the controller closing the run it works on.
RunningCallKeepsItsOperation ==
    [][\A k \in Call : HasOp(session, k) /\ calls[k].state = "running" /\ ~ HasOp(session', k)
          => \/ calls'[k].state # "running"
             \/ session.ops[k].expired
             \/ session'.runs[session.ops[k].run].status = "cancelled"]_vars

\* A task that was stopped is not worked on again: no answer of a call still
\* out changes it, only the controller does, or the next cycle.
StoppedTaskStaysStopped ==
    [][\A t \in session.list :
          /\ session.status[t] \in {"failed", "cancelled"}
          /\ session'.status[t] # session.status[t]
          => calls' = calls \/ session'.stage # session.stage]_vars

\* The list a run belongs to is not replaced under it.
OpenRunsAreListed == \A r \in OpenRuns(session) : session.runs[r].task \in session.list

\* An edit is refused for another edit only while the host still runs that
\* one: no failure and no restart leaves a lock behind.
DeadEditsDoNotBlock ==
    \A k \in Call : Unused(k) =>
        LET s == Unlocked(session, live, k)
        IN  \A j \in Call : HasOp(s, j) /\ s.ops[j].kind = "mutation"
                            => calls[j].state = "running"

\* Work is judged as a whole only when none of it is under way.
LoopIsLeftDone == session.stage \notin {"tasks_ready", LoopStage} =>
    OpenRuns(session) = {}

\* A finished workflow says how it finished.
OutcomeRecorded == IsTerminal(session.stage) => session.outcome = session.stage

\* The budget of cycles is spent on verdicts given since validation was
\* entered, never on one that was there before the rework.
CyclesCountRejections ==
    [][session'.cycles # session.cycles =>
          \E g \in session'.judged : session'.gates[g] = "failed"]_vars

\* The operator can decide on every task that waits for a decision.
DecisionIsResolvable ==
    \A r \in DOMAIN session.runs : session.runs[r].status = "awaiting_decision" =>
        \E d \in session.decisions : d.run = r

\* What has come to its end says what follows from there: a finished workflow
\* its outcome, a task out of retries the decision that lets it go on.
EndsAreRecorded == OutcomeRecorded /\ DecisionIsResolvable

\* A call's operation ends: nothing waits for ever for a call that is over.
OperationsEnd ==
    \A k \in Call : HasOp(session, k) ~> ~ HasOp(session, k) \/ archive = "done"

\* A finished session leaves the runtime's directory.
FinishedIsArchived == IsTerminal(session.stage) ~> archive = "done"
=============================================================================
