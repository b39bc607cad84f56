---------------------------- MODULE WorkflowGraph ----------------------------
(***************************************************************************)
(* The workflow graph of profiles/base/base.yaml and the engine that moves *)
(* a session through it (src/domain/engine.ts).  A session is a record;    *)
(* every operator here and in the modules that extend this one is a pure   *)
(* function of the session, as the code mutates one loaded object inside   *)
(* one executor transaction.                                               *)
(***************************************************************************)
EXTENDS Naturals, Sequences, FiniteSets

CONSTANTS
    Task,         \* task ids, task-0, task-1, ... as numbers: 1, 2, ...
    Call,         \* host call ids
    Gate,         \* the gates `verify` and `validation` wait for
    TaskRetries,  \* retryBudget.maximum of the loop
    CycleRetries  \* maxAttempts of the `cycles` budget

ASSUME TaskAssumption == Task \subseteq Nat \ {0} /\ IsFiniteSet(Task)
ASSUME BudgetAssumption == TaskRetries \in Nat \ {0} /\ CycleRetries \in Nat \ {0}

Verdict == {"passed", "failed"}
TaskStatus == {"pending", "running", "completed", "failed", "cancelled"}
OpenStatus == {"running", "awaiting_decision"}

\* An edge is taken when its guard holds and the operator has approved it.
Edge(from, to, guard) ==
    [from |-> from, to |-> to, guard |-> guard, consent |-> FALSE, retry |-> FALSE]

Edges == <<
    [Edge("planning", "tasks_ready", "planNamed") EXCEPT !.consent = TRUE],
    Edge("tasks_ready", "execution", "hasPendingTasks"),
    Edge("execution", "validation", "allTasksCompleted"),
    Edge("validation", "commit", "gatesPassed"),
    [Edge("validation", "execution", "rejectedWithRetry") EXCEPT !.retry = TRUE],
    Edge("validation", "failed", "rejectedExhausted"),
    Edge("commit", "done", "delivered") >>

LoopEdges == <<
    Edge("code", "verify", "checksPassed"),
    Edge("verify", "done", "gatesPassed"),
    [Edge("verify", "code", "gateFailed") EXCEPT !.retry = TRUE] >>

LoopStage == "execution"
FirstLoopStage == "code"
Stages == {Edges[i].from : i \in DOMAIN Edges} \cup {Edges[i].to : i \in DOMAIN Edges}
IsTerminal(stage) == \A i \in DOMAIN Edges : Edges[i].from # stage

\* The gates a stage declares, nested or outer.
DeclaredGates(stage) == IF stage \in {"verify", "validation"} THEN Gate ELSE {}

-----------------------------------------------------------------------------
(* Facts the guards read.                                                  *)

\* Tasks that are still to be finished; hasPendingTasks() asks for one.
Runnable(s) == {t \in s.list : s.status[t] \in {"pending", "running"}}

\* Mutant: a task that is worked on counts as completed.
NoTaskPending(s) == s.list # {} /\ \A t \in s.list : s.status[t] # "pending"

AllTasksCompleted(s) == s.list # {} /\ \A t \in s.list : s.status[t] = "completed"

AllPassed(gates) == \A g \in Gate : gates[g] = "passed"
AnyFailed(gates) == \E g \in Gate : gates[g] = "failed"

CyclesExhausted(s) == s.cycles >= CycleRetries

GuardHolds(guard, s) ==
    CASE guard = "planNamed"         -> s.plan
      [] guard = "hasPendingTasks"   -> Runnable(s) # {}
      [] guard = "allTasksCompleted" -> AllTasksCompleted(s)
      [] guard = "gatesPassed"       -> AllPassed(s.gates)
      [] guard = "rejectedWithRetry" -> AnyFailed(s.gates) /\ ~ CyclesExhausted(s)
      [] guard = "rejectedExhausted" -> AnyFailed(s.gates) /\ CyclesExhausted(s)
      [] guard = "delivered"         -> s.receipt

\* Inside the loop a guard reads the facts of the task's run.
TaskGuardHolds(guard, run) ==
    CASE guard = "checksPassed" -> run.checks = "passed"
      [] guard = "gatesPassed"  -> AllPassed(run.gates)
      [] guard = "gateFailed"   -> AnyFailed(run.gates)

\* The first of the edges, in schema order, or none.
First(edges, open) ==
    {edges[i] : i \in {j \in open : \A k \in open : j <= k}}

OpenEdges(s) ==
    First(Edges, {i \in DOMAIN Edges : /\ Edges[i].from = s.stage
                                       /\ GuardHolds(Edges[i].guard, s)
                                       /\ Edges[i].consent => s.approval = "granted"})

OpenLoopEdges(run) ==
    First(LoopEdges, {i \in DOMAIN LoopEdges : /\ LoopEdges[i].from = run.stage
                                               /\ TaskGuardHolds(LoopEdges[i].guard, run)})

-----------------------------------------------------------------------------
(* Moving the session.                                                     *)

NoGates == [g \in Gate |-> "none"]

\* A loop entered again is a new round of work: its tasks are pending again.
ResetLoopTasksOnEntry(s, stage) ==
    [s EXCEPT !.status = [t \in Task |-> IF stage = LoopStage /\ t \in s.list
                                         THEN "pending" ELSE @[t]]]

\* judged is history: the gates judged since validation was last entered.
TakeEdge(s, e) ==
    ResetLoopTasksOnEntry(
        [s EXCEPT !.stage = e.to,
                  !.checks = "none",
                  !.judged = IF e.to = "validation" THEN {} ELSE @,
                  !.cycles = IF e.retry THEN @ + 1 ELSE @],
        e.to)

\* tryApplyTransitions(): the first edge that is open, if any.
TryApplyTransitions(s) ==
    IF OpenEdges(s) = {} THEN s ELSE TakeEdge(s, CHOOSE e \in OpenEdges(s) : TRUE)

\* Mutant: the end is known by its name.
AfterToolDoneOnly(s) ==
    LET moved == TryApplyTransitions(s)
    IN  IF moved.stage # s.stage /\ moved.stage = "done"
        THEN [moved EXCEPT !.outcome = moved.stage]
        ELSE moved

\* WorkflowLifecycle.afterTool(): one transition, and the outcome when it led
\* to where the workflow ends.
AfterTool(s) ==
    LET moved == TryApplyTransitions(s)
    IN  IF moved.stage # s.stage /\ IsTerminal(moved.stage)
        THEN [moved EXCEPT !.outcome = moved.stage]
        ELSE moved
=============================================================================
