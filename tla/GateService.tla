----------------------------- MODULE GateService -----------------------------
(***************************************************************************)
(* What a reported verdict does to a session: who it belongs to, whether   *)
(* it still counts, and where it moves the task.                           *)
(* src/app/workflow-gate-service.ts, src/domain/task-movement.ts and       *)
(* src/app/workflow-result-settler.ts.                                     *)
(***************************************************************************)
EXTENDS OperationLifecycle

\* A report names a gate, which need not be a declared one.
Report(gate, verdict) == [gate |-> gate, verdict |-> verdict]
NoReport == [gate |-> "none", verdict |-> "none"]

-----------------------------------------------------------------------------
(* Moving a task.                                                          *)

SpendTaskAttempt(s, t) == [s EXCEPT !.attempts[t] = @ + 1]

TaskExhausted(s, t) == s.attempts[t] >= s.maximum[t]

CompleteRun(s, r) ==
    [s EXCEPT !.runs[r].status = "completed", !.status[s.runs[r].task] = "completed"]

\* Mutant: the decision is not kept.
DecisionForgotten(s, t, r) == s

\* One pending decision per task; one that is there already stays as it is.
UpsertPendingDecision(s, t, r) ==
    IF \E d \in s.decisions : d.task = t
    THEN s
    ELSE [s EXCEPT !.decisions = @ \cup {[task |-> t, run |-> r]}]

EnterStage(s, r, stage) ==
    [s EXCEPT !.runs[r].stage = stage, !.runs[r].gates = NoGates, !.runs[r].round = @ + 1]

\* A step of the run to another stage of the loop.
MoveRun(s, r, e, failed) ==
    LET t == s.runs[r].task
        spends == failed \/ e.retry
        spent == IF spends THEN SpendTaskAttempt(s, t) ELSE s
        moved == EnterStage(spent, r, e.to)
    IN  IF spends /\ TaskExhausted(spent, t)
        THEN UpsertPendingDecision([moved EXCEPT !.runs[r].status = "awaiting_decision"], t, r)
        ELSE [moved EXCEPT !.runs[r].status = "running", !.status[t] = "running"]

MoveTask(s, r, failed) ==
    LET open == OpenLoopEdges(s.runs[r])
        e == CHOOSE edge \in open : TRUE
    IN  IF open = {} THEN s
        ELSE IF e.to = "done" THEN CompleteRun(s, r)
        ELSE MoveRun(s, r, e, failed)

-----------------------------------------------------------------------------
(* Recording a verdict.                                                    *)

\* Mutant: any answer counts while the run is open.
ClosedRun(s, op) == op.run # NoRun /\ s.runs[op.run].status \notin OpenStatus

\* The run was closed or has gone on since the call was dispatched.
StaleRound(s, op) ==
    /\ op.run # NoRun
    /\ \/ s.runs[op.run].status \notin OpenStatus
       \/ op.round # s.runs[op.run].round

WithChecks(s, op) ==
    IF op.checks = "none" THEN s ELSE [s EXCEPT !.runs[op.run].checks = op.checks]

\* A stage with gates waits until one failed or all passed; a stage without
\* is left by any report its guards let pass.
RunVerdict(s, op, report) ==
    LET r == op.run
        declared == DeclaredGates(s.runs[r].stage)
        noted == WithChecks(s, op)
        marked == IF declared = {} THEN noted
                  ELSE [noted EXCEPT !.runs[r].gates[report.gate] = report.verdict]
        gates == marked.runs[r].gates
        failed == IF declared = {} THEN report.verdict = "failed" ELSE AnyFailed(gates)
        decided == declared = {} \/ failed \/ AllPassed(gates)
    IN  IF declared # {} /\ report.gate \notin declared THEN s
        ELSE IF op.status = "running" /\ decided THEN MoveTask(marked, r, failed)
        ELSE marked

\* Without an operation the verdict goes to the stage the session is in.
StageVerdict(s, report) ==
    IF report.gate \in DeclaredGates(s.stage)
    THEN [s EXCEPT !.gates[report.gate] = report.verdict, !.judged = @ \cup {report.gate}]
    ELSE s

\* Mutants: a stale verdict falls through to the stage; the call is not
\* remembered as answered.
StaleToTheStage(s, k, report) ==
    LET op == s.ops[k]
        bound == HasOp(s, k) /\ op.run # NoRun /\ ~ StaleRound(s, op)
        counted == [s EXCEPT !.processed = @ \cup {k}]
    IN  IF k \in s.processed THEN s
        ELSE IF bound THEN RunVerdict(counted, op, report)
        ELSE StageVerdict(counted, report)

AnswerForgotten(s, k, report) ==
    LET op == s.ops[k]
        bound == HasOp(s, k) /\ op.run # NoRun
    IN  IF k \in s.processed \/ (bound /\ StaleRound(s, op)) THEN s
        ELSE IF bound THEN RunVerdict(s, op, report)
        ELSE StageVerdict(s, report)

ApplyGate(s, k, report) ==
    LET op == s.ops[k]
        bound == HasOp(s, k) /\ op.run # NoRun
        counted == [s EXCEPT !.processed = @ \cup {k}]
    IN  IF k \in s.processed \/ (bound /\ StaleRound(s, op)) THEN s
        ELSE IF bound THEN RunVerdict(counted, op, report)
        ELSE StageVerdict(counted, report)

ReleaseVerdict(s, k) == [s EXCEPT !.ops[k] = NoOp]

\* The checks of what the call has written, kept on its operation.
RunTaskInvariants(s, k, checks) ==
    IF HasOp(s, k) /\ s.ops[k].status = "running" /\ checks # "none"
    THEN [s EXCEPT !.ops[k].checks = checks]
    ELSE s

\* Mutant: a call that reports nothing keeps its operation.
SettleSilently(s, k, report, checks) ==
    IF report = NoReport THEN RunTaskInvariants(s, k, checks)
    ELSE ReleaseVerdict(ApplyGate(RunTaskInvariants(s, k, checks), k, report), k)

\* The after hook of the task tool: checks, verdict if there is one, release.
SettleResult(s, k, report, checks) ==
    LET checked == RunTaskInvariants(s, k, checks)
        judged == IF report = NoReport THEN checked ELSE ApplyGate(checked, k, report)
    IN  ReleaseVerdict(judged, k)
=============================================================================
