-------------------------- MODULE OperationLifecycle --------------------------
(***************************************************************************)
(* The operations a session has in flight, one per host call: a dispatched *)
(* task, or a mutation (an edit, a bash command that writes).              *)
(* src/domain/operation-lifecycle.ts and the part of                       *)
(* src/app/mutation-orchestrator.ts that drives it.                        *)
(***************************************************************************)
EXTENDS WorkflowGraph

NoOp == [kind |-> "none"]
NoRun == 0

HasOp(s, k) == s.ops[k] # NoOp

Operation(kind, run, round, agent) ==
    [kind |-> kind, run |-> run, round |-> round, agent |-> agent,
     status |-> "running", checks |-> "none", expired |-> FALSE]

OpenRuns(s) == {r \in DOMAIN s.runs : s.runs[r].status \in OpenStatus}

DropOps(s, dead) == [s EXCEPT !.ops = [k \in Call |-> IF k \in dead THEN NoOp ELSE @[k]]]

-----------------------------------------------------------------------------
(* Beginning a mutation.                                                   *)

\* Mutants: only age ends an operation; a task is taken for a dead mutation.
ReleaseExpiredOnly(s, live, k) ==
    IF HasOp(s, k) THEN s
    ELSE DropOps(s, {j \in Call \ live : HasOp(s, j) /\ s.ops[j].expired})

ReleaseUntracked(s, live, k) ==
    IF HasOp(s, k) THEN s ELSE DropOps(s, {j \in Call \ live : HasOp(s, j)})

\* releaseInterruptedLock(): live is what this process remembers to have
\* begun.  A dispatched task is never in it, so only its age can end a task.
ReleaseInterruptedLock(s, live, k) ==
    IF HasOp(s, k) THEN s
    ELSE DropOps(s, {j \in Call \ live : /\ HasOp(s, j)
                                         /\ s.ops[j].kind = "task" => s.ops[j].expired})

RemoveExpired(s) == DropOps(s, {j \in Call : HasOp(s, j) /\ s.ops[j].expired})

\* A run enters the loop at its first stage.
OpenRun(s, t) ==
    [s EXCEPT !.runs = Append(@, [task |-> t, stage |-> FirstLoopStage, status |-> "running",
                                  gates |-> NoGates, round |-> 0, checks |-> "none"]),
              !.status[t] = "running"]

AmbiguousRun(s) ==
    \/ Cardinality(OpenRuns(s)) > 1
    \/ OpenRuns(s) = {} /\ Cardinality(Runnable(s)) > 1

\* The open run, or one made for the only task to work on; outside any task
\* work there is no run and none is needed.
ResolveMutationRun(s) ==
    IF OpenRuns(s) # {} \/ Runnable(s) = {}
    THEN s
    ELSE OpenRun(s, CHOOSE t \in Runnable(s) : TRUE)

OwnerOf(s) == IF OpenRuns(s) = {} THEN NoRun ELSE CHOOSE r \in OpenRuns(s) : TRUE

\* The session a mutation finds once the dead operations are gone.
Unlocked(s, live, k) == RemoveExpired(ReleaseInterruptedLock(s, live, k))

MutationAdmitted(s) ==
    /\ \A j \in Call : HasOp(s, j) => s.ops[j].kind = "task"
    /\ ~ AmbiguousRun(s)

\* Every verdict about the task is void once it is edited.
BeginMutation(s, k) ==
    LET resolved == ResolveMutationRun(s)
        r == OwnerOf(resolved)
    IN  IF r = NoRun
        THEN [resolved EXCEPT !.ops[k] = Operation("mutation", NoRun, 0, "session-guard"),
                              !.checks = "none"]
        ELSE [resolved EXCEPT
                 !.ops[k] = Operation("mutation", r, resolved.runs[r].round, "session-guard"),
                 !.runs[r].gates = NoGates]

-----------------------------------------------------------------------------
(* Ending an operation.                                                    *)

\* The domain's finishMutation(): the verdict of the checks and the release.
FinishOperation(s, k, checks) ==
    IF ~ HasOp(s, k)
    THEN s
    ELSE LET r == s.ops[k].run
             released == [s EXCEPT !.ops[k] = NoOp]
         IN  IF r = NoRun
             THEN [released EXCEPT !.checks = checks]
             ELSE [released EXCEPT !.runs[r].checks = checks]

\* MutationOrchestrator.finishMutation(): the session may also move, and what
\* tryApplyTransitions() answers is dropped.
FinishMutation(s, k, checks) ==
    IF HasOp(s, k) THEN TryApplyTransitions(FinishOperation(s, k, checks)) ELSE s

\* clearOnError(): only what this process has begun.
ClearOnError(s, live, k) == IF k \in live THEN [s EXCEPT !.ops[k] = NoOp] ELSE s

\* Mutant: the operation takes the state of the failed call.
MarkFailed(s, k) ==
    IF HasOp(s, k) /\ s.ops[k].status = "running"
    THEN [s EXCEPT !.ops[k].status = "failed"]
    ELSE s

\* handleEvent() then marks the operation that is still running.
MarkInterrupted(s, k) ==
    IF HasOp(s, k) /\ s.ops[k].status = "running"
    THEN [s EXCEPT !.ops[k].status = "interrupted"]
    ELSE s
=============================================================================
