--------------------------- MODULE Workflow_proofs ---------------------------
(***************************************************************************)
(* What holds of a session under the base workflow for any tasks, calls,   *)
(* gates, budgets and bounds, whatever the environment does.  The handlers *)
(* are pure functions of the session, so the first part goes operator by   *)
(* operator: what each leaves of a session that is sound, and what it may  *)
(* change.  The second is about the state: the invariant that ties the     *)
(* session to the calls of the host, what each step does to both, and the  *)
(* theorems that follow.                                                   *)
(***************************************************************************)
EXTENDS Workflow, SequenceTheorems, FiniteSetTheorems, TLAPS

-----------------------------------------------------------------------------
(* The graph.                                                              *)

StageNames == {"planning", "tasks_ready", "execution", "validation", "commit", "done", "failed"}

\* The edges of the base workflow and what the proofs need of them.
LEMMA GraphFacts ==
    /\ DOMAIN Edges = 1 .. 7
    /\ Stages = StageNames
    /\ \A i \in 1 .. 7 : /\ Edges[i].from \in StageNames /\ Edges[i].to \in StageNames
                         /\ Edges[i].from # Edges[i].to
                         /\ Edges[i].from = LoopStage => Edges[i].guard = "allTasksCompleted"
                         /\ Edges[i].retry \in BOOLEAN
    /\ \A stage \in StageNames : IsTerminal(stage) <=> stage \in {"done", "failed"}
<1>1. /\ DOMAIN Edges = 1 .. 7
      /\ Edges[1].from = "planning" /\ Edges[1].to = "tasks_ready" /\ Edges[1].retry = FALSE
      /\ Edges[2].from = "tasks_ready" /\ Edges[2].to = "execution" /\ Edges[2].retry = FALSE
      /\ Edges[3].from = "execution" /\ Edges[3].to = "validation" /\ Edges[3].retry = FALSE
      /\ Edges[3].guard = "allTasksCompleted"
      /\ Edges[4].from = "validation" /\ Edges[4].to = "commit" /\ Edges[4].retry = FALSE
      /\ Edges[5].from = "validation" /\ Edges[5].to = "execution" /\ Edges[5].retry = TRUE
      /\ Edges[6].from = "validation" /\ Edges[6].to = "failed" /\ Edges[6].retry = FALSE
      /\ Edges[7].from = "commit" /\ Edges[7].to = "done" /\ Edges[7].retry = FALSE
    BY DEF Edges, Edge
<1> HIDE DEF Edges
<1>2. Stages = StageNames
    BY <1>1 DEF Stages, StageNames
<1>3. \A i \in 1 .. 7 : i \in {1, 2, 3, 4, 5, 6, 7}
    OBVIOUS
<1>4. \A i \in 1 .. 7 : /\ Edges[i].from \in StageNames /\ Edges[i].to \in StageNames
                        /\ Edges[i].from # Edges[i].to
                        /\ Edges[i].from = LoopStage => Edges[i].guard = "allTasksCompleted"
                        /\ Edges[i].retry \in BOOLEAN
    BY <1>1, <1>3 DEF StageNames, LoopStage
<1>5. \A stage \in StageNames : IsTerminal(stage) <=> stage \in {"done", "failed"}
    BY <1>1, <1>3 DEF IsTerminal, StageNames
<1> QED
    BY <1>1, <1>2, <1>4, <1>5

\* A transition follows an edge of the stage whose guard holds, if any does.
LEMMA TransitionFollowsAnEdge ==
    ASSUME NEW s
    PROVE  \/ TryApplyTransitions(s) = s
           \/ \E i \in DOMAIN Edges : /\ Edges[i].from = s.stage
                                      /\ GuardHolds(Edges[i].guard, s)
                                      /\ TryApplyTransitions(s) = TakeEdge(s, Edges[i])
<1>1. CASE OpenEdges(s) = {}
    BY <1>1 DEF TryApplyTransitions
<1>2. CASE OpenEdges(s) # {}
    <2> DEFINE e == CHOOSE edge \in OpenEdges(s) : TRUE
    <2>1. e \in OpenEdges(s)
        BY <1>2
    <2>2. \E i \in DOMAIN Edges : e = Edges[i] /\ Edges[i].from = s.stage /\ GuardHolds(Edges[i].guard, s)
        BY <2>1 DEF OpenEdges, First
    <2>3. TryApplyTransitions(s) = TakeEdge(s, e)
        BY <1>2 DEF TryApplyTransitions
    <2> QED
        BY <2>2, <2>3
<1> QED
    BY <1>1, <1>2

\* What a transition leaves alone, and what lets it leave a stage.
SameWork(s, u) ==
    /\ u.list = s.list /\ u.gates = s.gates /\ u.runs = s.runs /\ u.ops = s.ops
    /\ u.decisions = s.decisions /\ u.processed = s.processed

Moves(s, u) ==
    /\ SameWork(s, u)
    /\ u.stage = s.stage => u.status = s.status
    /\ u.stage # s.stage => /\ ~ IsTerminal(s.stage)
                            /\ s.stage = LoopStage => AllTasksCompleted(s)
                            /\ u.stage = LoopStage => \A t \in s.list : u.status[t] = "pending"
                            /\ \E i \in 1 .. 7 : Edges[i].from = s.stage /\ Edges[i].to = u.stage
    /\ \A t \in Task : u.status[t] \in {s.status[t], "pending"}

\* The fields the proofs look at.
LEMMA Fields ==
    ASSUME NEW s \in SessionType
    PROVE  /\ s.stage \in StageNames /\ s.list \in SUBSET Task /\ s.status \in [Task -> TaskStatus]
           /\ s.gates \in [Gate -> Checks] /\ s.judged \in SUBSET Gate /\ s.cycles \in Nat
           /\ s.runs \in Seq(RunType) /\ s.ops \in [Call -> OpType \cup {NoOp}]
           /\ s.attempts \in [Task -> Nat] /\ s.maximum \in [Task -> Nat]
           /\ s.decisions \in SUBSET [task : Task, run : Nat] /\ s.processed \in SUBSET Call
           /\ s.permit \in SUBSET Call /\ s.outcome \in {"none"} \cup StageNames
BY GraphFacts, ZenonT(60) DEF SessionType

\* A transition takes one edge, or leaves the session as it is.
LEMMA TransitionMoves ==
    ASSUME NEW s \in SessionType
    PROVE  /\ TryApplyTransitions(s) \in SessionType
           /\ Moves(s, TryApplyTransitions(s))
           /\ TryApplyTransitions(s).outcome = s.outcome
<1>1. CASE TryApplyTransitions(s) = s
    BY <1>1, Fields DEF Moves, SameWork
<1>2. ASSUME NEW i \in DOMAIN Edges, Edges[i].from = s.stage, GuardHolds(Edges[i].guard, s),
             TryApplyTransitions(s) = TakeEdge(s, Edges[i])
      PROVE  /\ TryApplyTransitions(s) \in SessionType
             /\ Moves(s, TryApplyTransitions(s))
             /\ TryApplyTransitions(s).outcome = s.outcome
    <2> DEFINE e == Edges[i]
               u == TakeEdge(s, e)
               judged == IF e.to = "validation" THEN {} ELSE s.judged
               cycles == IF e.retry THEN s.cycles + 1 ELSE s.cycles
               status == [t \in Task |-> IF e.to = LoopStage /\ t \in s.list THEN "pending" ELSE s.status[t]]
    <2>1. /\ e.from = s.stage /\ e.to \in Stages /\ e.to # s.stage /\ e.retry \in BOOLEAN
          /\ s.stage = LoopStage => e.guard = "allTasksCompleted"
          /\ ~ IsTerminal(s.stage)
        BY <1>2, GraphFacts DEF IsTerminal
    <2>2. s.stage = LoopStage => AllTasksCompleted(s)
        BY <1>2, <2>1 DEF GuardHolds
    <2> HIDE DEF e
    <2>3. judged \in SUBSET Gate /\ cycles \in Nat /\ status \in [Task -> TaskStatus] /\ "none" \in Checks
        BY <2>1, Fields DEF TaskStatus, Checks
    <2>4. u = [s EXCEPT !.stage = e.to, !.checks = "none", !.judged = judged, !.cycles = cycles,
                        !.status = status]
        BY <2>1, Zenon DEF TakeEdge, ResetLoopTasksOnEntry, SessionType
    <2> HIDE DEF u, judged, cycles
    <2>5. u \in SessionType
        BY <2>1, <2>3, <2>4, ZenonT(60) DEF SessionType
    <2>6. /\ SameWork(s, u) /\ u.stage = e.to /\ u.outcome = s.outcome /\ u.status = status
        BY <2>4, ZenonT(60) DEF SessionType, SameWork
    <2>7. /\ \A t \in Task : u.status[t] \in {s.status[t], "pending"}
          /\ u.stage = LoopStage => \A t \in s.list : u.status[t] = "pending"
        BY <2>6, Fields
    <2>8. i \in 1 .. 7
        BY GraphFacts
    <2> QED
        BY <1>2, <2>1, <2>2, <2>5, <2>6, <2>7, <2>8 DEF e, u, Moves
<1> QED
    BY <1>1, <1>2, TransitionFollowsAnEdge

\* WorkflowLifecycle.afterTool(): the transition, and the outcome at the end.
LEMMA AfterToolMoves ==
    ASSUME NEW s \in SessionType
    PROVE  /\ AfterTool(s) \in SessionType
           /\ Moves(s, AfterTool(s))
           /\ AfterTool(s).outcome = IF AfterTool(s).stage # s.stage /\ IsTerminal(AfterTool(s).stage)
                                     THEN AfterTool(s).stage ELSE s.outcome
<1> DEFINE moved == TryApplyTransitions(s)
           over == [moved EXCEPT !.outcome = moved.stage]
<1>1. moved \in SessionType /\ Moves(s, moved) /\ moved.outcome = s.outcome
    BY TransitionMoves
<1>2. AfterTool(s) = IF moved.stage # s.stage /\ IsTerminal(moved.stage) THEN over ELSE moved
    BY DEF AfterTool
<1> HIDE DEF moved
<1>3. moved.stage \in {"none"} \cup Stages
    BY <1>1, ZenonT(60) DEF SessionType
<1>4. over \in SessionType
    BY <1>1, <1>3, ZenonT(60) DEF SessionType
<1>5. /\ SameWork(moved, over) /\ over.stage = moved.stage /\ over.status = moved.status
      /\ over.outcome = moved.stage
    BY <1>1, ZenonT(60) DEF SessionType, SameWork
<1> HIDE DEF over
<1> QED
    BY <1>1, <1>2, <1>4, <1>5 DEF Moves, SameWork

-----------------------------------------------------------------------------
(* A sound session, and what keeps it sound.                               *)

\* What an operation or a decision names is there; one run is open at most,
\* of a task that is listed and was not stopped.
Sound(s) ==
    /\ s \in SessionType
    /\ \A k \in Call : HasOp(s, k) => s.ops[k].run \in 0 .. Len(s.runs)
    /\ \A d \in s.decisions : d.run \in DOMAIN s.runs
    /\ \A r, q \in OpenRuns(s) : r = q
    /\ \A r \in OpenRuns(s) : /\ s.runs[r].task \in s.list
                              /\ s.status[s.runs[r].task] \notin {"failed", "cancelled"}

\* The operations of u are operations of s, about the same.
OpsOf(s, u) ==
    \A k \in Call : HasOp(u, k) => /\ HasOp(s, k)
                                   /\ u.ops[k].kind = s.ops[k].kind
                                   /\ u.ops[k].run = s.ops[k].run
                                   /\ u.ops[k].round = s.ops[k].round
                                   /\ u.ops[k].expired = s.ops[k].expired

\* One run is replaced by another state of it.
ReplacesRun(s, u, r, x) ==
    /\ r \in DOMAIN s.runs /\ x \in RunType /\ x.task = s.runs[r].task
    /\ u.runs = [s.runs EXCEPT ![r] = x]

\* Replacing one run leaves the others where they are.
LEMMA ReplacedRuns ==
    ASSUME NEW runs \in Seq(RunType), NEW r \in DOMAIN runs, NEW x \in RunType
    PROVE  /\ [runs EXCEPT ![r] = x] \in Seq(RunType)
           /\ DOMAIN [runs EXCEPT ![r] = x] = DOMAIN runs
           /\ Len([runs EXCEPT ![r] = x]) = Len(runs)
           /\ [runs EXCEPT ![r] = x][r] = x
           /\ \A q \in DOMAIN runs : q # r => [runs EXCEPT ![r] = x][q] = runs[q]
<1>1. DOMAIN runs = 1 .. Len(runs) /\ Len(runs) \in Nat /\ runs \in [1 .. Len(runs) -> RunType]
    BY LenProperties
<1>2. [runs EXCEPT ![r] = x] \in [1 .. Len(runs) -> RunType]
    BY <1>1
<1>3. [runs EXCEPT ![r] = x] \in Seq(RunType) /\ Len([runs EXCEPT ![r] = x]) = Len(runs)
    BY <1>1, <1>2, LenProperties, SeqDef
<1> QED
    BY <1>1, <1>3

\* A run that is there has the type of a run, and a number above zero.
LEMMA RunIsThere ==
    ASSUME NEW s \in SessionType, NEW r \in DOMAIN s.runs
    PROVE  /\ s.runs[r] \in RunType /\ s.runs[r].task \in Task /\ s.runs[r].round \in Nat
           /\ s.runs[r].gates \in [Gate -> Checks] /\ s.runs[r].checks \in Checks
           /\ s.runs[r].stage \in {"code", "verify"}
           /\ s.runs[r].status \in OpenStatus \cup {"completed", "failed", "cancelled"}
           /\ r \in Nat \ {0} /\ r <= Len(s.runs)
<1>1. s.runs \in Seq(RunType)
    BY Fields
<1>2. s.runs[r] \in RunType /\ r \in 1 .. Len(s.runs)
    BY <1>1, LenProperties, ElementOfSeq
<1>3. /\ s.runs[r].task \in Task /\ s.runs[r].round \in Nat
      /\ s.runs[r].gates \in [Gate -> Checks] /\ s.runs[r].checks \in Checks
      /\ s.runs[r].stage \in {"code", "verify"}
      /\ s.runs[r].status \in OpenStatus \cup {"completed", "failed", "cancelled"}
    BY <1>2, Zenon DEF RunType
<1> QED
    BY <1>1, <1>2, <1>3, LenProperties

\* A step that leaves runs, list and stopped tasks alone.
LEMMA SoundKept ==
    ASSUME NEW s, Sound(s), NEW u \in SessionType,
           u.runs = s.runs, OpsOf(s, u), u.decisions \subseteq s.decisions, u.list = s.list,
           \A t \in Task : u.status[t] # s.status[t] => u.status[t] \notin {"failed", "cancelled"}
    PROVE  Sound(u)
<1>1. OpenRuns(u) = OpenRuns(s)
    BY DEF OpenRuns
<1>2. \A r \in OpenRuns(s) : s.runs[r].task \in Task
    BY RunIsThere DEF Sound, OpenRuns
<1> QED
    BY <1>1, <1>2 DEF Sound, OpsOf

\* A step that changes one run, opens none, and touches its task alone.
LEMMA SoundReplaced ==
    ASSUME NEW s, Sound(s), NEW u \in SessionType, NEW r, NEW x, ReplacesRun(s, u, r, x),
           OpsOf(s, u), \A d \in u.decisions : d \in s.decisions \/ d.run = r, u.list = s.list,
           x.status \in OpenStatus => r \in OpenRuns(s),
           \A t \in Task : \/ u.status[t] = s.status[t]
                           \/ u.status[t] \notin {"failed", "cancelled"}
                           \/ x.status \notin OpenStatus /\ t = x.task /\ r \in OpenRuns(s)
    PROVE  Sound(u)
<1>1. /\ DOMAIN u.runs = DOMAIN s.runs /\ Len(u.runs) = Len(s.runs) /\ u.runs[r] = x
      /\ \A q \in DOMAIN s.runs : q # r => u.runs[q] = s.runs[q]
    BY ReplacedRuns, Fields DEF ReplacesRun, Sound
<1>2. OpenRuns(u) \subseteq OpenRuns(s) /\ (x.status \notin OpenStatus => r \notin OpenRuns(u))
    BY <1>1 DEF OpenRuns, ReplacesRun
<1>3. \A q \in OpenRuns(u) : /\ u.runs[q].task = s.runs[q].task /\ s.runs[q].task \in Task
                             /\ q \in OpenRuns(s)
    BY <1>1, <1>2, RunIsThere DEF OpenRuns, ReplacesRun, Sound
<1>4. \A q \in OpenRuns(u) : u.status[u.runs[q].task] \notin {"failed", "cancelled"}
    BY <1>2, <1>3 DEF Sound
<1>5. \A k \in Call : HasOp(u, k) => u.ops[k].run \in 0 .. Len(u.runs)
    BY <1>1 DEF Sound, OpsOf
<1>6. \A d \in u.decisions : d.run \in DOMAIN u.runs
    BY <1>1 DEF Sound, ReplacesRun
<1> QED
    BY <1>2, <1>3, <1>4, <1>5, <1>6 DEF Sound

-----------------------------------------------------------------------------
(* Operations.                                                             *)

\* What no operator on operations and runs touches.
SameFrame(s, u) ==
    /\ u.stage = s.stage /\ u.list = s.list /\ u.gates = s.gates
    /\ u.processed = s.processed /\ u.outcome = s.outcome

SameRuns(s, u) == u.runs = s.runs /\ u.status = s.status /\ u.decisions = s.decisions

\* Writing the operations touches nothing else of the session.
LEMMA OpsReplaced ==
    ASSUME NEW s \in SessionType, NEW ops \in [Call -> OpType \cup {NoOp}]
    PROVE  /\ [s EXCEPT !.ops = ops] \in SessionType
           /\ [s EXCEPT !.ops = ops].ops = ops
           /\ SameFrame(s, [s EXCEPT !.ops = ops])
           /\ SameRuns(s, [s EXCEPT !.ops = ops])
BY ZenonT(60) DEF SessionType, SameFrame, SameRuns

\* An operation is never taken for none.
LEMMA NoOpIsNone == \A op \in OpType : op # NoOp /\ op.kind \in {"task", "mutation"}
BY DEF OpType, NoOp

\* Operations that are dropped leave everything else.
LEMMA DropOpsKeeps ==
    ASSUME NEW s, Sound(s), NEW dead
    PROVE  /\ Sound(DropOps(s, dead))
           /\ SameFrame(s, DropOps(s, dead)) /\ SameRuns(s, DropOps(s, dead))
           /\ OpsOf(s, DropOps(s, dead))
           /\ \A k \in Call : /\ HasOp(DropOps(s, dead), k) <=> HasOp(s, k) /\ k \notin dead
                              /\ k \notin dead => DropOps(s, dead).ops[k] = s.ops[k]
<1> DEFINE ops == [k \in Call |-> IF k \in dead THEN NoOp ELSE s.ops[k]]
           u == DropOps(s, dead)
<1>1. s \in SessionType
    BY DEF Sound
<1>2. ops \in [Call -> OpType \cup {NoOp}]
    BY <1>1, Fields
<1>3. u = [s EXCEPT !.ops = ops]
    BY <1>1, Zenon DEF DropOps, SessionType
<1>4. /\ u \in SessionType /\ u.ops = ops /\ SameFrame(s, u) /\ SameRuns(s, u)
    BY <1>1, <1>2, <1>3, OpsReplaced, ZenonT(60)
<1> HIDE DEF u
<1>5. \A k \in Call : /\ HasOp(u, k) <=> HasOp(s, k) /\ k \notin dead
                      /\ k \notin dead => u.ops[k] = s.ops[k]
    BY <1>4 DEF HasOp
<1>6. OpsOf(s, u)
    BY <1>5 DEF OpsOf
<1>7. Sound(u)
    BY <1>4, <1>6, SoundKept DEF SameFrame, SameRuns
<1> QED
    BY <1>4, <1>5, <1>6, <1>7 DEF u

\* One operation is dropped, as EXCEPT writes it.
LEMMA ReleaseKeeps ==
    ASSUME NEW s, Sound(s), NEW k \in Call, NEW u, u = [s EXCEPT !.ops[k] = NoOp]
    PROVE  /\ Sound(u) /\ SameFrame(s, u) /\ SameRuns(s, u) /\ OpsOf(s, u) /\ ~ HasOp(u, k)
           /\ \A j \in Call \ {k} : u.ops[j] = s.ops[j]
<1>1. s \in SessionType
    BY DEF Sound
<1> DEFINE ops == [s.ops EXCEPT ![k] = NoOp]
<1>2. u = [s EXCEPT !.ops = ops] /\ ops \in [Call -> OpType \cup {NoOp}]
    BY <1>1, Fields, ZenonT(60) DEF SessionType
<1>3. /\ u \in SessionType /\ u.ops = ops /\ SameFrame(s, u) /\ SameRuns(s, u)
    BY <1>1, <1>2, OpsReplaced, ZenonT(60)
<1>4. /\ u.ops[k] = NoOp /\ \A j \in Call \ {k} : u.ops[j] = s.ops[j]
    BY <1>1, <1>3, Fields
<1>5. ~ HasOp(u, k) /\ OpsOf(s, u)
    BY <1>4 DEF OpsOf, HasOp
<1> QED
    BY <1>3, <1>4, <1>5, SoundKept DEF SameFrame, SameRuns

\* One operation changes, and is still about the same.
LEMMA OpChangeKeeps ==
    ASSUME NEW s, Sound(s), NEW k \in Call, HasOp(s, k), NEW op \in OpType,
           op.kind = s.ops[k].kind, op.run = s.ops[k].run, op.round = s.ops[k].round,
           op.expired = s.ops[k].expired,
           NEW u, u = [s EXCEPT !.ops = [s.ops EXCEPT ![k] = op]]
    PROVE  /\ Sound(u) /\ SameFrame(s, u) /\ SameRuns(s, u) /\ OpsOf(s, u) /\ OpsOf(u, s)
           /\ u.ops[k] = op /\ \A j \in Call \ {k} : u.ops[j] = s.ops[j]
<1>1. s \in SessionType
    BY DEF Sound
<1> DEFINE ops == [s.ops EXCEPT ![k] = op]
<1>2. ops \in [Call -> OpType \cup {NoOp}]
    BY <1>1, Fields
<1>3. /\ u \in SessionType /\ u.ops = ops /\ SameFrame(s, u) /\ SameRuns(s, u)
    BY <1>1, <1>2, OpsReplaced
<1>4. /\ u.ops[k] = op /\ \A j \in Call \ {k} : u.ops[j] = s.ops[j]
    BY <1>1, <1>3, Fields
<1>5. OpsOf(s, u) /\ OpsOf(u, s)
    BY <1>4, NoOpIsNone DEF OpsOf, HasOp
<1> QED
    BY <1>3, <1>4, <1>5, SoundKept DEF SameFrame, SameRuns

\* A run is opened for a task that waits, where no other is open.
LEMMA OpenRunOpens ==
    ASSUME NEW s, Sound(s), OpenRuns(s) = {}, NEW t \in s.list
    PROVE  /\ Sound(OpenRun(s, t))
           /\ SameFrame(s, OpenRun(s, t))
           /\ OpenRun(s, t).ops = s.ops /\ OpenRun(s, t).decisions = s.decisions
           /\ Len(OpenRun(s, t).runs) = Len(s.runs) + 1
           /\ DOMAIN OpenRun(s, t).runs = DOMAIN s.runs \cup {Len(s.runs) + 1}
           /\ Len(s.runs) + 1 \notin DOMAIN s.runs
           /\ OpenRuns(OpenRun(s, t)) = {Len(s.runs) + 1}
           /\ \A r \in DOMAIN s.runs : OpenRun(s, t).runs[r] = s.runs[r]
           /\ OpenRun(s, t).runs[Len(s.runs) + 1] =
                [task |-> t, stage |-> FirstLoopStage, status |-> "running",
                 gates |-> NoGates, round |-> 0, checks |-> "none"]
           /\ OpenRun(s, t).status = [s.status EXCEPT ![t] = "running"]
<1> DEFINE new == [task |-> t, stage |-> FirstLoopStage, status |-> "running",
                   gates |-> NoGates, round |-> 0, checks |-> "none"]
           runs == Append(s.runs, new)
           status == [s.status EXCEPT ![t] = "running"]
           n == Len(s.runs) + 1
           u == OpenRun(s, t)
<1>1. s \in SessionType /\ t \in Task
    BY Fields DEF Sound
<1>2. new \in RunType
    <2>1. NoGates \in [Gate -> Checks] /\ "none" \in Checks
        BY DEF NoGates, Checks
    <2> QED
        BY <1>1, <2>1, Zenon DEF RunType, FirstLoopStage, OpenStatus
<1>3. new.status = "running" /\ new.task = t
    OBVIOUS
<1>4. u = [s EXCEPT !.runs = runs, !.status = status]
    BY <1>1, Zenon DEF OpenRun, SessionType
<1> HIDE DEF new
<1>5. /\ runs \in Seq(RunType) /\ Len(runs) = n /\ runs[n] = new
      /\ \A r \in 1 .. Len(s.runs) : runs[r] = s.runs[r]
      /\ DOMAIN s.runs = 1 .. Len(s.runs) /\ Len(s.runs) \in Nat
      /\ DOMAIN runs = 1 .. n
    BY <1>1, <1>2, Fields, AppendProperties, LenProperties
<1>6. status \in [Task -> TaskStatus]
    BY <1>1, Fields DEF TaskStatus
<1> HIDE DEF runs, status
<1>7. u \in SessionType
    BY <1>1, <1>4, <1>5, <1>6, ZenonT(60) DEF SessionType
<1>8. /\ u.runs = runs /\ u.status = status /\ u.ops = s.ops /\ u.decisions = s.decisions
      /\ SameFrame(s, u)
    BY <1>1, <1>4, ZenonT(60) DEF SessionType, SameFrame
<1> HIDE DEF u
<1>9. /\ DOMAIN runs = DOMAIN s.runs \cup {n} /\ n \notin DOMAIN s.runs
    BY <1>5
<1>10. OpenRuns(u) = {n}
    BY <1>3, <1>5, <1>8, <1>9 DEF OpenRuns, OpenStatus
<1>11. u.status[t] = "running"
    BY <1>1, <1>8, Fields DEF status
<1>12. /\ \A k \in Call : HasOp(u, k) => u.ops[k].run \in 0 .. Len(u.runs)
       /\ \A d \in u.decisions : d.run \in DOMAIN u.runs
    BY <1>5, <1>8, <1>9 DEF Sound, HasOp
<1>13. Sound(u)
    BY <1>3, <1>5, <1>7, <1>8, <1>10, <1>11, <1>12 DEF Sound, SameFrame
<1> QED
    BY <1>5, <1>8, <1>9, <1>10, <1>13 DEF u, new, status

\* An operation is added, about a run that is there or about none.
LEMMA SoundAdds ==
    ASSUME NEW s, Sound(s), NEW u \in SessionType, NEW k \in Call,
           u.runs = s.runs, u.status = s.status, u.decisions = s.decisions, u.list = s.list,
           u.ops[k].run \in 0 .. Len(s.runs), \A j \in Call \ {k} : u.ops[j] = s.ops[j]
    PROVE  Sound(u)
<1>1. OpenRuns(u) = OpenRuns(s)
    BY DEF OpenRuns
<1> QED
    BY <1>1 DEF Sound, HasOp

\* What is written when a call begins is an operation.
LEMMA OperationType ==
    ASSUME NEW kind \in {"task", "mutation"}, NEW run \in Nat, NEW round \in Nat,
           NEW agent \in Agent \cup {"session-guard"}
    PROVE  /\ Operation(kind, run, round, agent) \in OpType
           /\ Operation(kind, run, round, agent).kind = kind
           /\ Operation(kind, run, round, agent).run = run
           /\ Operation(kind, run, round, agent).round = round
           /\ ~ Operation(kind, run, round, agent).expired
<1>1. "none" \in Checks
    BY DEF Checks
<1> QED
    BY <1>1, Zenon DEF Operation, OpType

\* What u has made of the runs of s: at most their gates are void, and a new
\* one is running.
RunsGoOn(s, u) ==
    /\ \A r \in DOMAIN s.runs :
         /\ r \in DOMAIN u.runs
         /\ u.runs[r].task = s.runs[r].task /\ u.runs[r].status = s.runs[r].status
         /\ u.runs[r].round = s.runs[r].round
         /\ \A g \in Gate : u.runs[r].gates[g] \in {"none", s.runs[r].gates[g]}
    /\ \A r \in DOMAIN u.runs \ DOMAIN s.runs :
         /\ u.runs[r].status = "running" /\ u.status[u.runs[r].task] = "running"
         /\ OpenRuns(s) = {}
    /\ \A t \in Task : \/ u.status[t] = s.status[t]
                       \/ t \in Runnable(s) /\ u.status[t] = "running" /\ OpenRuns(s) = {}

\* Opening a run leaves every other as it is.
LEMMA OpenRunGoesOn ==
    ASSUME NEW s, Sound(s), OpenRuns(s) = {}, NEW t \in Runnable(s)
    PROVE  RunsGoOn(s, OpenRun(s, t))
<1>1. s \in SessionType /\ t \in s.list /\ t \in Task
    BY Fields DEF Sound, Runnable
<1> DEFINE u == OpenRun(s, t)
           new == [task |-> t, stage |-> FirstLoopStage, status |-> "running",
                   gates |-> NoGates, round |-> 0, checks |-> "none"]
<1>4. new.status = "running" /\ new.task = t
    OBVIOUS
<1> HIDE DEF u
<1>5. /\ DOMAIN u.runs = DOMAIN s.runs \cup {Len(s.runs) + 1}
      /\ \A r \in DOMAIN s.runs : u.runs[r] = s.runs[r]
      /\ u.runs[Len(s.runs) + 1] = new
      /\ u.status = [s.status EXCEPT ![t] = "running"]
    BY <1>1, OpenRunOpens DEF u
<1> HIDE DEF new
<1>2. u.runs[Len(s.runs) + 1].status = "running" /\ u.runs[Len(s.runs) + 1].task = t
    BY <1>4, <1>5
<1>3. /\ u.status[t] = "running" /\ \A q \in Task \ {t} : u.status[q] = s.status[q]
    BY <1>1, <1>5, Fields
<1> QED
    BY <1>2, <1>3, <1>5 DEF u, RunsGoOn

\* The domain's beginMutation().
LEMMA BeginMutationBegins ==
    ASSUME NEW s, Sound(s), NEW k \in Call, ~ HasOp(s, k)
    PROVE  /\ Sound(BeginMutation(s, k)) /\ SameFrame(s, BeginMutation(s, k))
           /\ RunsGoOn(s, BeginMutation(s, k))
           /\ BeginMutation(s, k).decisions = s.decisions
           /\ HasOp(BeginMutation(s, k), k) /\ BeginMutation(s, k).ops[k].kind = "mutation"
           /\ ~ BeginMutation(s, k).ops[k].expired
           /\ \A j \in Call \ {k} : BeginMutation(s, k).ops[j] = s.ops[j]
<1> DEFINE m == ResolveMutationRun(s)
           r == OwnerOf(m)
           u == BeginMutation(s, k)
<1>1. /\ Sound(m) /\ SameFrame(s, m) /\ m.decisions = s.decisions /\ m.ops = s.ops
      /\ RunsGoOn(s, m)
    <2>1. CASE OpenRuns(s) # {} \/ Runnable(s) = {}
        BY <2>1 DEF ResolveMutationRun, SameFrame, RunsGoOn
    <2>2. CASE OpenRuns(s) = {} /\ Runnable(s) # {}
        <3>1. PICK t \in Runnable(s) : m = OpenRun(s, t)
            BY <2>2 DEF ResolveMutationRun
        <3>2. t \in s.list
            BY DEF Runnable
        <3>3. RunsGoOn(s, OpenRun(s, t))
            BY <2>2, OpenRunGoesOn
        <3>4. /\ Sound(OpenRun(s, t)) /\ SameFrame(s, OpenRun(s, t))
              /\ OpenRun(s, t).ops = s.ops /\ OpenRun(s, t).decisions = s.decisions
            BY <2>2, <3>2, OpenRunOpens
        <3> HIDE DEF m
        <3> QED
            BY <3>1, <3>3, <3>4
    <2> QED
        BY <2>1, <2>2
<1>2. r = NoRun \/ r \in OpenRuns(m)
    BY DEF OwnerOf
<1>3. u = IF r = NoRun
          THEN [m EXCEPT !.ops[k] = Operation("mutation", NoRun, 0, "session-guard"), !.checks = "none"]
          ELSE [m EXCEPT !.ops[k] = Operation("mutation", r, m.runs[r].round, "session-guard"),
                         !.runs[r].gates = NoGates]
    BY DEF BeginMutation
<1> HIDE DEF m, r, u
<1>4. m \in SessionType /\ m.ops \in [Call -> OpType \cup {NoOp}] /\ m.runs \in Seq(RunType)
    BY <1>1, Fields DEF Sound
<1>5. CASE r = NoRun
    <2> DEFINE op == Operation("mutation", NoRun, 0, "session-guard")
               ops == [m.ops EXCEPT ![k] = op]
    <2>1. op \in OpType /\ op.kind = "mutation" /\ op.run = NoRun /\ ~ op.expired
        BY OperationType DEF NoRun
    <2>2. u = [m EXCEPT !.ops = ops, !.checks = "none"]
        BY <1>3, <1>4, <1>5, ZenonT(60) DEF SessionType
    <2> HIDE DEF op
    <2>3. ops \in [Call -> OpType \cup {NoOp}] /\ ops[k] = op /\ \A j \in Call \ {k} : ops[j] = m.ops[j]
        BY <1>4, <2>1
    <2> HIDE DEF ops
    <2>4. "none" \in Checks
        BY DEF Checks
    <2>5. u \in SessionType
        BY <1>4, <2>2, <2>3, <2>4, ZenonT(60) DEF SessionType
    <2>6. u.ops = ops /\ SameFrame(m, u) /\ SameRuns(m, u)
        BY <1>4, <2>2, ZenonT(60) DEF SessionType, SameFrame, SameRuns
    <2>7. Len(m.runs) \in Nat
        BY <1>4, LenProperties
    <2>8. Sound(u)
        BY <1>1, <2>1, <2>3, <2>5, <2>6, <2>7, SoundAdds DEF SameFrame, SameRuns, NoRun
    <2>9. HasOp(u, k) /\ u.ops[k].kind = "mutation" /\ ~ u.ops[k].expired /\ \A j \in Call \ {k} : u.ops[j] = s.ops[j]
        BY <1>1, <2>1, <2>3, <2>6, NoOpIsNone DEF HasOp
    <2> QED
        BY <1>1, <2>6, <2>8, <2>9 DEF u, SameFrame, SameRuns, RunsGoOn
<1>6. CASE r # NoRun
    <2> DEFINE op == Operation("mutation", r, m.runs[r].round, "session-guard")
               ops == [m.ops EXCEPT ![k] = op]
               x == [m.runs[r] EXCEPT !.gates = NoGates]
               runs == [m.runs EXCEPT ![r] = x]
               v == [m EXCEPT !.ops = ops]
    <2>1. r \in DOMAIN m.runs /\ r \in OpenRuns(m)
        BY <1>2, <1>6 DEF OpenRuns
    <2>2. /\ m.runs[r] \in RunType /\ m.runs[r].round \in Nat /\ r \in Nat \ {0} /\ r <= Len(m.runs)
        BY <1>4, <2>1, RunIsThere
    <2>3. op \in OpType /\ op.kind = "mutation" /\ op.run = r /\ ~ op.expired
        BY <2>2, OperationType
    <2>4. NoGates \in [Gate -> Checks]
        BY DEF NoGates, Checks
    <2>5. x \in RunType
        BY <2>2, <2>4, Zenon DEF RunType
    <2>6. x.task = m.runs[r].task /\ x.status = m.runs[r].status /\ x.round = m.runs[r].round
          /\ x.gates = NoGates
        BY <2>2, Zenon DEF RunType
    <2>7. u = [v EXCEPT !.runs = runs]
        BY <1>3, <1>4, <1>6, <2>1, ZenonT(60) DEF SessionType
    <2> HIDE DEF op, x
    <2>8. ops \in [Call -> OpType \cup {NoOp}] /\ ops[k] = op /\ \A j \in Call \ {k} : ops[j] = m.ops[j]
        BY <1>4, <2>3
    <2>9. v \in SessionType /\ v.ops = ops /\ SameFrame(m, v) /\ SameRuns(m, v)
        BY <1>4, <2>8, OpsReplaced
    <2>10. runs \in Seq(RunType)
        BY <1>4, <2>1, <2>5, ReplacedRuns
    <2> HIDE DEF ops, v, runs
    <2>11. u \in SessionType
        BY <2>7, <2>9, <2>10, ZenonT(60) DEF SessionType
    <2>12. u.runs = runs /\ u.ops = ops /\ SameFrame(v, u) /\ u.status = v.status /\ u.decisions = v.decisions
        BY <2>7, <2>9, ZenonT(60) DEF SessionType, SameFrame
    <2>13. Sound(v)
        BY <1>1, <2>2, <2>3, <2>8, <2>9, SoundAdds DEF SameFrame, SameRuns
    <2>14. ReplacesRun(v, u, r, x)
        BY <2>1, <2>5, <2>6, <2>9, <2>12 DEF ReplacesRun, SameRuns, runs
    <2>15. OpenRuns(v) = OpenRuns(m) /\ OpsOf(v, u) /\ r \in OpenRuns(v)
        BY <2>1, <2>9, <2>12 DEF OpenRuns, SameRuns, OpsOf, HasOp
    <2>16. Sound(u)
        BY <2>11, <2>12, <2>13, <2>14, <2>15, SoundReplaced DEF SameFrame
    <2>17. HasOp(u, k) /\ u.ops[k].kind = "mutation" /\ ~ u.ops[k].expired /\ \A j \in Call \ {k} : u.ops[j] = s.ops[j]
        BY <1>1, <2>3, <2>8, <2>12, NoOpIsNone DEF HasOp
    <2>18. /\ DOMAIN u.runs = DOMAIN m.runs /\ u.runs[r] = x
           /\ \A q \in DOMAIN m.runs : q # r => u.runs[q] = m.runs[q]
        BY <1>4, <2>1, <2>5, <2>12, ReplacedRuns DEF runs
    <2>19. RunsGoOn(m, u)
        BY <2>6, <2>9, <2>12, <2>18 DEF RunsGoOn, NoGates, SameRuns
    <2>20. \A q \in DOMAIN u.runs : u.runs[q].task = m.runs[q].task /\ u.runs[q].status = m.runs[q].status
        BY <2>6, <2>18
    <2>21. RunsGoOn(s, u)
        BY <1>1, <2>9, <2>12, <2>18, <2>19, <2>20 DEF RunsGoOn, SameRuns
    <2>22. SameFrame(s, u) /\ u.decisions = s.decisions
        BY <1>1, <2>9, <2>12 DEF SameFrame, SameRuns
    <2> QED
        BY <2>16, <2>17, <2>21, <2>22 DEF u
<1> QED
    BY <1>5, <1>6

\* The state of a run is written, and nothing else.
WithRun(s, r, x) == [s EXCEPT !.runs = [s.runs EXCEPT ![r] = x]]
Checked(s, r, checks) == [s EXCEPT !.runs[r].checks = checks]
CheckedRun(run, checks) == [run EXCEPT !.checks = checks]

\* Writing one run touches nothing else of the session.
LEMMA RunWritten ==
    ASSUME NEW s \in SessionType, NEW r \in DOMAIN s.runs, NEW x \in RunType,
           NEW u, u = WithRun(s, r, x)
    PROVE  /\ u \in SessionType /\ u.runs = [s.runs EXCEPT ![r] = x]
           /\ SameFrame(s, u)
           /\ u.ops = s.ops /\ u.decisions = s.decisions /\ u.status = s.status
           /\ u.attempts = s.attempts /\ u.maximum = s.maximum
<1> DEFINE runs == [s.runs EXCEPT ![r] = x]
<1>1. runs \in Seq(RunType)
    BY Fields, ReplacedRuns
<1>2. u = [s EXCEPT !.runs = runs]
    BY DEF WithRun
<1> HIDE DEF runs
<1>3. u \in SessionType /\ u.runs = runs
    BY <1>1, <1>2, ZenonT(60) DEF SessionType
<1>4. /\ SameFrame(s, u) /\ u.ops = s.ops /\ u.decisions = s.decisions /\ u.status = s.status
      /\ u.attempts = s.attempts /\ u.maximum = s.maximum
    BY <1>2, ZenonT(60) DEF SessionType, SameFrame
<1> QED
    BY <1>3, <1>4 DEF runs

\* The checks of a run are written: the run is where it was.
LEMMA ChecksWritten ==
    ASSUME NEW s, Sound(s), NEW r \in DOMAIN s.runs, NEW checks \in Checks,
           NEW u, u = Checked(s, r, checks)
    PROVE  /\ Sound(u) /\ SameFrame(s, u) /\ RunsGoOn(s, u)
           /\ u.ops = s.ops /\ u.decisions = s.decisions /\ u.status = s.status
           /\ u.attempts = s.attempts /\ u.maximum = s.maximum
           /\ DOMAIN u.runs = DOMAIN s.runs
           /\ ReplacesRun(s, u, r, CheckedRun(s.runs[r], checks))
<1> DEFINE x == CheckedRun(s.runs[r], checks)
<1>1. s \in SessionType
    BY DEF Sound
<1>2. s.runs[r] \in RunType /\ s.runs \in Seq(RunType)
    BY <1>1, RunIsThere, Fields
<1>3. x \in RunType
    BY <1>2, Zenon DEF RunType, CheckedRun
<1>4. x.task = s.runs[r].task /\ x.status = s.runs[r].status /\ x.round = s.runs[r].round
      /\ x.gates = s.runs[r].gates
    BY <1>2, Zenon DEF RunType, CheckedRun
<1>5. u = WithRun(s, r, x)
    BY <1>1, ZenonT(60) DEF SessionType, Checked, WithRun, CheckedRun
<1> HIDE DEF x
<1>6. /\ u \in SessionType /\ u.runs = [s.runs EXCEPT ![r] = x] /\ SameFrame(s, u)
      /\ u.ops = s.ops /\ u.decisions = s.decisions /\ u.status = s.status
      /\ u.attempts = s.attempts /\ u.maximum = s.maximum
    BY <1>1, <1>3, <1>5, RunWritten
<1>7. ReplacesRun(s, u, r, x) /\ OpsOf(s, u)
    BY <1>3, <1>4, <1>6 DEF ReplacesRun, OpsOf, HasOp
<1>8. x.status \in OpenStatus => r \in OpenRuns(s)
    BY <1>4 DEF OpenRuns
<1>9. Sound(u)
    BY <1>6, <1>7, <1>8, SoundReplaced DEF SameFrame
<1>10. DOMAIN u.runs = DOMAIN s.runs /\ u.runs[r] = x
       /\ \A q \in DOMAIN s.runs : q # r => u.runs[q] = s.runs[q]
    BY <1>2, <1>3, <1>6, ReplacedRuns
<1>11. RunsGoOn(s, u)
    BY <1>4, <1>6, <1>10 DEF RunsGoOn
<1> QED
    BY <1>6, <1>7, <1>9, <1>10, <1>11 DEF x

\* The domain's finishMutation(): the operation is gone, no run has moved.
LEMMA FinishOperationEnds ==
    ASSUME NEW s, Sound(s), NEW k \in Call, NEW checks \in Checks
    PROVE  /\ Sound(FinishOperation(s, k, checks)) /\ SameFrame(s, FinishOperation(s, k, checks))
           /\ RunsGoOn(s, FinishOperation(s, k, checks))
           /\ FinishOperation(s, k, checks).decisions = s.decisions
           /\ FinishOperation(s, k, checks).status = s.status
           /\ DOMAIN FinishOperation(s, k, checks).runs = DOMAIN s.runs
           /\ OpsOf(s, FinishOperation(s, k, checks))
           /\ ~ HasOp(FinishOperation(s, k, checks), k)
           /\ \A j \in Call \ {k} : FinishOperation(s, k, checks).ops[j] = s.ops[j]
<1> DEFINE u == FinishOperation(s, k, checks)
           r == s.ops[k].run
           released == [s EXCEPT !.ops[k] = NoOp]
<1>1. CASE ~ HasOp(s, k)
    BY <1>1 DEF FinishOperation, SameFrame, RunsGoOn, OpsOf
<1>2. CASE HasOp(s, k)
    <2>1. /\ Sound(released) /\ SameFrame(s, released) /\ SameRuns(s, released)
          /\ OpsOf(s, released) /\ ~ HasOp(released, k)
          /\ \A j \in Call \ {k} : released.ops[j] = s.ops[j]
        BY ReleaseKeeps
    <2>2. u = IF r = NoRun THEN [released EXCEPT !.checks = checks]
              ELSE [released EXCEPT !.runs[r].checks = checks]
        BY <1>2 DEF FinishOperation
    <2>3. r \in 0 .. Len(s.runs) /\ s \in SessionType
        BY <1>2 DEF Sound
    <2> HIDE DEF u, released, r
    <2>4. CASE r = NoRun
        <3>1. released \in SessionType
            BY <2>1 DEF Sound
        <3>2. u = [released EXCEPT !.checks = checks]
            BY <2>2, <2>4
        <3>3. u \in SessionType
            BY <3>1, <3>2, ZenonT(60) DEF SessionType
        <3>4. SameFrame(released, u) /\ SameRuns(released, u) /\ u.ops = released.ops
            BY <3>1, <3>2, ZenonT(60) DEF SessionType, SameFrame, SameRuns
        <3>5. OpsOf(released, u)
            BY <3>4 DEF OpsOf, HasOp
        <3>6. Sound(u)
            BY <2>1, <3>3, <3>4, <3>5, SoundKept DEF SameFrame, SameRuns
        <3> QED
            BY <2>1, <3>4, <3>5, <3>6 DEF u, SameFrame, SameRuns, OpsOf, HasOp, RunsGoOn
    <2>5. CASE r # NoRun
        <3>1. r \in DOMAIN released.runs
            BY <2>1, <2>3, <2>5, Fields, LenProperties DEF NoRun, SameRuns
        <3>2. u = Checked(released, r, checks)
            BY <2>2, <2>5 DEF Checked
        <3>3. /\ Sound(u) /\ SameFrame(released, u) /\ RunsGoOn(released, u)
              /\ u.ops = released.ops /\ u.decisions = released.decisions /\ u.status = released.status
              /\ DOMAIN u.runs = DOMAIN released.runs
            BY <2>1, <3>1, <3>2, ChecksWritten
        <3>4. RunsGoOn(s, u)
            BY <2>1, <3>3 DEF RunsGoOn, SameRuns
        <3> QED
            BY <2>1, <3>3, <3>4 DEF u, SameFrame, SameRuns, OpsOf, HasOp
    <2> QED
        BY <2>4, <2>5
<1> QED
    BY <1>1, <1>2

\* clearOnError() and what handleEvent() marks then.
LEMMA InterruptKeeps ==
    ASSUME NEW s, Sound(s), NEW k \in Call, NEW alive,
           NEW u, u = MarkInterrupted(ClearOnError(s, alive, k), k)
    PROVE  /\ Sound(u) /\ SameFrame(s, u) /\ SameRuns(s, u) /\ OpsOf(s, u)
           /\ \A j \in Call \ {k} : u.ops[j] = s.ops[j]
           /\ k \in alive => ~ HasOp(u, k)
<1> DEFINE m == ClearOnError(s, alive, k)
<1>1. /\ Sound(m) /\ SameFrame(s, m) /\ SameRuns(s, m) /\ OpsOf(s, m)
      /\ \A j \in Call \ {k} : m.ops[j] = s.ops[j]
      /\ k \in alive => ~ HasOp(m, k)
    BY ReleaseKeeps DEF ClearOnError, SameFrame, SameRuns, OpsOf
<1>2. u = MarkInterrupted(m, k)
    OBVIOUS
<1> HIDE DEF m
<1>3. CASE ~ (HasOp(m, k) /\ m.ops[k].status = "running")
    BY <1>1, <1>2, <1>3 DEF MarkInterrupted
<1>4. CASE HasOp(m, k) /\ m.ops[k].status = "running"
    <2> DEFINE op == [m.ops[k] EXCEPT !.status = "interrupted"]
    <2>1. m \in SessionType
        BY <1>1 DEF Sound
    <2>2. m.ops[k] \in OpType
        BY <1>4, <2>1, Fields DEF HasOp
    <2>3. op \in OpType
        BY <2>2, Zenon DEF OpType
    <2>4. op.kind = m.ops[k].kind /\ op.run = m.ops[k].run /\ op.round = m.ops[k].round
          /\ op.expired = m.ops[k].expired
        BY <2>2, Zenon DEF OpType
    <2>5. u = [m EXCEPT !.ops = [m.ops EXCEPT ![k] = op]]
        BY <1>2, <1>4, <2>1, Zenon DEF MarkInterrupted, SessionType
    <2> HIDE DEF op
    <2>6. /\ Sound(u) /\ SameFrame(m, u) /\ SameRuns(m, u) /\ OpsOf(m, u)
          /\ \A j \in Call \ {k} : u.ops[j] = m.ops[j]
        BY <1>1, <1>4, <2>3, <2>4, <2>5, OpChangeKeeps
    <2> QED
        BY <1>1, <1>4, <2>6 DEF SameFrame, SameRuns, OpsOf
<1> QED
    BY <1>3, <1>4

-----------------------------------------------------------------------------
(* Verdicts.                                                               *)

\* What a verdict makes of a run: it is noted, or the run is completed, waits
\* for a decision, or goes on in its next round.
Advances(s, u, r) ==
    \E x \in RunType :
        /\ ReplacesRun(s, u, r, x)
        /\ \/ /\ x.status = s.runs[r].status /\ x.round = s.runs[r].round
              /\ u.status = s.status /\ u.decisions = s.decisions
           \/ /\ x.status = "completed" /\ x.round = s.runs[r].round
              /\ u.status = [s.status EXCEPT ![x.task] = "completed"] /\ u.decisions = s.decisions
           \/ /\ x.status = "awaiting_decision" /\ x.round = s.runs[r].round + 1
              /\ u.status = s.status
              /\ u.decisions = IF \E d \in s.decisions : d.task = x.task THEN s.decisions
                               ELSE s.decisions \cup {[task |-> x.task, run |-> r]}
           \/ /\ x.status = "running" /\ x.round = s.runs[r].round + 1
              /\ u.status = [s.status EXCEPT ![x.task] = "running"] /\ u.decisions = s.decisions

\* The edges of the loop lead to its stages or out of it.
LEMMA LoopEdgeFacts ==
    ASSUME NEW run, NEW e \in OpenLoopEdges(run)
    PROVE  e.to \in {"code", "verify", "done"} /\ e.retry \in BOOLEAN
<1>1. PICK i \in DOMAIN LoopEdges : e = LoopEdges[i]
    BY DEF OpenLoopEdges, First
<1>2. /\ DOMAIN LoopEdges = 1 .. 3
      /\ LoopEdges[1].to = "verify" /\ LoopEdges[1].retry = FALSE
      /\ LoopEdges[2].to = "done" /\ LoopEdges[2].retry = FALSE
      /\ LoopEdges[3].to = "code" /\ LoopEdges[3].retry = TRUE
    BY DEF LoopEdges, Edge
<1>3. i \in {1, 2, 3}
    BY <1>2
<1> QED
    BY <1>1, <1>2, <1>3

\* A task that is done completes its run.
LEMMA CompleteRunAdvances ==
    ASSUME NEW s \in SessionType, NEW r \in DOMAIN s.runs, NEW u, u = CompleteRun(s, r)
    PROVE  u \in SessionType /\ SameFrame(s, u) /\ u.ops = s.ops /\ Advances(s, u, r)
<1> DEFINE x == [s.runs[r] EXCEPT !.status = "completed"]
           status == [s.status EXCEPT ![s.runs[r].task] = "completed"]
           m == WithRun(s, r, x)
<1>1. s.runs[r] \in RunType /\ s.runs[r].task \in Task /\ s.runs \in Seq(RunType)
      /\ s.status \in [Task -> TaskStatus]
    BY RunIsThere, Fields
<1>2. x \in RunType
    BY <1>1, Zenon DEF RunType
<1>3. x.task = s.runs[r].task /\ x.status = "completed" /\ x.round = s.runs[r].round
    BY <1>1, Zenon DEF RunType
<1>4. status \in [Task -> TaskStatus]
    BY <1>1 DEF TaskStatus
<1>5. u = [m EXCEPT !.status = status]
    BY ZenonT(60) DEF SessionType, CompleteRun, WithRun
<1> HIDE DEF x, status
<1>6. /\ m \in SessionType /\ m.runs = [s.runs EXCEPT ![r] = x] /\ SameFrame(s, m)
      /\ m.ops = s.ops /\ m.decisions = s.decisions
    BY <1>2, RunWritten
<1> HIDE DEF m
<1>7. u \in SessionType
    BY <1>4, <1>5, <1>6, ZenonT(60) DEF SessionType
<1>8. u.status = status /\ u.runs = m.runs /\ SameFrame(m, u) /\ u.ops = m.ops
      /\ u.decisions = m.decisions
    BY <1>5, <1>6, ZenonT(60) DEF SessionType, SameFrame
<1>9. ReplacesRun(s, u, r, x)
    BY <1>2, <1>3, <1>6, <1>8 DEF ReplacesRun
<1>10. u.status = [s.status EXCEPT ![x.task] = "completed"]
    BY <1>3, <1>8 DEF status
<1>11. Advances(s, u, r)
    BY <1>2, <1>3, <1>6, <1>8, <1>9, <1>10 DEF Advances
<1>12. SameFrame(s, u) /\ u.ops = s.ops
    BY <1>6, <1>8 DEF SameFrame
<1> QED
    BY <1>7, <1>11, <1>12

\* A run that moves goes on, or is put on hold when its retries are spent.
LEMMA MoveRunAdvances ==
    ASSUME NEW s \in SessionType, NEW r \in DOMAIN s.runs, NEW failed,
           NEW e, e.to \in {"code", "verify"}, NEW u, u = MoveRun(s, r, e, failed)
    PROVE  u \in SessionType /\ SameFrame(s, u) /\ u.ops = s.ops /\ Advances(s, u, r)
<1> DEFINE t == s.runs[r].task
           spends == failed \/ e.retry
           spent == IF spends THEN SpendTaskAttempt(s, t) ELSE s
           y == [s.runs[r] EXCEPT !.stage = e.to, !.gates = NoGates, !.round = @ + 1]
           moved == EnterStage(spent, r, e.to)
<1>1. s.runs[r] \in RunType /\ t \in Task /\ s.runs[r].round \in Nat /\ s.runs \in Seq(RunType)
      /\ s.status \in [Task -> TaskStatus] /\ s.attempts \in [Task -> Nat]
      /\ s.decisions \in SUBSET [task : Task, run : Nat] /\ r \in Nat
    BY RunIsThere, Fields
<1>2. /\ spent \in SessionType /\ spent.runs = s.runs /\ spent.status = s.status
      /\ spent.decisions = s.decisions /\ spent.ops = s.ops /\ SameFrame(s, spent)
    <2> DEFINE attempts == [s.attempts EXCEPT ![t] = @ + 1]
               v == SpendTaskAttempt(s, t)
    <2>1. attempts \in [Task -> Nat]
        BY <1>1
    <2>2. v = [s EXCEPT !.attempts = attempts]
        BY ZenonT(60) DEF SessionType, SpendTaskAttempt
    <2> HIDE DEF attempts, v
    <2>3. v \in SessionType
        BY <2>1, <2>2, ZenonT(60) DEF SessionType
    <2>4. v.runs = s.runs /\ v.status = s.status /\ v.decisions = s.decisions /\ v.ops = s.ops
          /\ SameFrame(s, v)
        BY <2>2, ZenonT(60) DEF SessionType, SameFrame
    <2>5. s.runs = s.runs /\ SameFrame(s, s)
        BY DEF SameFrame
    <2> QED
        BY <2>3, <2>4, <2>5 DEF v
<1> HIDE DEF spent
<1>3. NoGates \in [Gate -> Checks]
    BY DEF NoGates, Checks
<1>30. s.runs[r].round + 1 \in Nat
    BY <1>1
<1>4. y \in RunType
    BY <1>1, <1>3, <1>30, Zenon DEF RunType
<1>5. y.task = t /\ y.round = s.runs[r].round + 1
    BY <1>1, Zenon DEF RunType
<1>6. moved = WithRun(spent, r, y)
    BY <1>2, ZenonT(60) DEF SessionType, EnterStage, WithRun
<1>7. /\ moved \in SessionType /\ moved.runs = [s.runs EXCEPT ![r] = y] /\ SameFrame(spent, moved)
      /\ moved.ops = s.ops /\ moved.decisions = s.decisions /\ moved.status = s.status
    <2> HIDE DEF moved, y
    <2> QED
        BY <1>2, <1>4, <1>6, RunWritten
<1>8. moved.runs[r] = y /\ r \in DOMAIN moved.runs
      /\ \A x \in RunType : [moved.runs EXCEPT ![r] = x] = [s.runs EXCEPT ![r] = x]
    <2> HIDE DEF moved, y
    <2> QED
        BY <1>1, <1>4, <1>7, ReplacedRuns
<1> DEFINE stops == spends /\ TaskExhausted(spent, t)
           waiting == [moved EXCEPT !.runs[r].status = "awaiting_decision"]
           running == [moved EXCEPT !.runs[r].status = "running", !.status[t] = "running"]
<1>9. u = IF stops THEN UpsertPendingDecision(waiting, t, r) ELSE running
    BY DEF MoveRun, spent
<1> HIDE DEF moved, y
<1>10. CASE stops
    <2> DEFINE x == [y EXCEPT !.status = "awaiting_decision"]
    <2>1. x \in RunType
        BY <1>4, Zenon DEF RunType, OpenStatus
    <2>2. x.task = t /\ x.status = "awaiting_decision" /\ x.round = s.runs[r].round + 1
        BY <1>4, <1>5, Zenon DEF RunType
    <2>3. waiting = WithRun(moved, r, x)
        BY <1>7, <1>8, ZenonT(60) DEF SessionType, WithRun
    <2> HIDE DEF x, waiting
    <2>4. /\ waiting \in SessionType /\ waiting.runs = [s.runs EXCEPT ![r] = x]
          /\ SameFrame(moved, waiting) /\ waiting.ops = s.ops
          /\ waiting.decisions = s.decisions /\ waiting.status = s.status
        BY <1>7, <1>8, <2>1, <2>3, RunWritten
    <2> DEFINE decisions == IF \E d \in s.decisions : d.task = t THEN s.decisions
                            ELSE s.decisions \cup {[task |-> t, run |-> r]}
    <2>5. decisions \in SUBSET [task : Task, run : Nat]
        BY <1>1
    <2>6. u = [waiting EXCEPT !.decisions = decisions]
        <3>1. CASE \E d \in s.decisions : d.task = t
            <4>1. u = waiting /\ decisions = waiting.decisions
                BY <1>9, <1>10, <2>4, <3>1 DEF UpsertPendingDecision
            <4> HIDE DEF decisions
            <4> QED
                BY <2>4, <4>1, ZenonT(60) DEF SessionType
        <3>2. CASE ~ \E d \in s.decisions : d.task = t
            <4>1. u = [waiting EXCEPT !.decisions = @ \cup {[task |-> t, run |-> r]}]
                BY <1>9, <1>10, <2>4, <3>2, Zenon DEF UpsertPendingDecision
            <4>2. decisions = waiting.decisions \cup {[task |-> t, run |-> r]}
                BY <2>4, <3>2
            <4> HIDE DEF decisions
            <4> QED
                BY <2>4, <4>1, <4>2, ZenonT(60) DEF SessionType
        <3> QED
            BY <3>1, <3>2
    <2>7. decisions = IF \E d \in s.decisions : d.task = x.task THEN s.decisions
                      ELSE s.decisions \cup {[task |-> x.task, run |-> r]}
        BY <2>2
    <2> HIDE DEF decisions
    <2>8. u \in SessionType
        BY <2>4, <2>5, <2>6, ZenonT(60) DEF SessionType
    <2>9. u.decisions = decisions /\ u.runs = waiting.runs /\ u.status = waiting.status
          /\ u.ops = waiting.ops /\ SameFrame(waiting, u)
        BY <2>4, <2>6, ZenonT(60) DEF SessionType, SameFrame
    <2>10. ReplacesRun(s, u, r, x)
        BY <2>1, <2>2, <2>4, <2>9 DEF ReplacesRun
    <2>11. Advances(s, u, r)
        BY <2>1, <2>2, <2>4, <2>7, <2>9, <2>10 DEF Advances
    <2> QED
        BY <1>2, <1>7, <2>4, <2>8, <2>9, <2>11 DEF SameFrame
<1>11. CASE ~ stops
    <2> DEFINE x == [y EXCEPT !.status = "running"]
               status == [s.status EXCEPT ![t] = "running"]
               m == WithRun(moved, r, x)
    <2>1. x \in RunType
        BY <1>4, Zenon DEF RunType, OpenStatus
    <2>2. x.task = t /\ x.status = "running" /\ x.round = s.runs[r].round + 1
        BY <1>4, <1>5, Zenon DEF RunType
    <2>3. u = [m EXCEPT !.status = status]
        BY <1>7, <1>8, <1>9, <1>11, ZenonT(60) DEF SessionType, WithRun
    <2>4. status \in [Task -> TaskStatus]
        BY <1>1 DEF TaskStatus
    <2> HIDE DEF x, status
    <2>5. /\ m \in SessionType /\ m.runs = [s.runs EXCEPT ![r] = x] /\ SameFrame(moved, m)
          /\ m.ops = s.ops /\ m.decisions = s.decisions
        BY <1>7, <1>8, <2>1, RunWritten
    <2> HIDE DEF m
    <2>6. u \in SessionType
        BY <2>3, <2>4, <2>5, ZenonT(60) DEF SessionType
    <2>7. u.status = status /\ u.runs = m.runs /\ SameFrame(m, u) /\ u.ops = m.ops
          /\ u.decisions = m.decisions
        BY <2>3, <2>5, ZenonT(60) DEF SessionType, SameFrame
    <2>8. ReplacesRun(s, u, r, x)
        BY <2>1, <2>2, <2>5, <2>7 DEF ReplacesRun
    <2>9. u.status = [s.status EXCEPT ![x.task] = "running"]
        BY <2>2, <2>7 DEF status
    <2>10. Advances(s, u, r)
        BY <2>1, <2>2, <2>5, <2>7, <2>8, <2>9 DEF Advances
    <2> QED
        BY <1>2, <1>7, <2>5, <2>6, <2>7, <2>10 DEF SameFrame
<1> QED
    BY <1>10, <1>11

\* A task moved along an edge of the loop advances by that run alone.
LEMMA MoveTaskAdvances ==
    ASSUME NEW s \in SessionType, NEW r \in DOMAIN s.runs, NEW failed, NEW u, u = MoveTask(s, r, failed)
    PROVE  u \in SessionType /\ SameFrame(s, u) /\ u.ops = s.ops /\ (u = s \/ Advances(s, u, r))
<1> DEFINE open == OpenLoopEdges(s.runs[r])
           e == CHOOSE edge \in open : TRUE
<1>1. CASE open = {}
    BY <1>1 DEF MoveTask, SameFrame
<1>2. CASE open # {} /\ e.to = "done"
    BY <1>2, CompleteRunAdvances DEF MoveTask
<1>3. CASE open # {} /\ e.to # "done"
    <2>1. e \in open
        BY <1>3
    <2>2. e.to \in {"code", "verify"}
        BY <1>3, <2>1, LoopEdgeFacts
    <2>3. u = MoveRun(s, r, e, failed)
        BY <1>3 DEF MoveTask
    <2> HIDE DEF e
    <2> QED
        BY <2>2, <2>3, MoveRunAdvances
<1> QED
    BY <1>1, <1>2, <1>3

\* A run is only written on: it neither moves nor ends.
Notes(s, u, r) ==
    /\ \E x \in RunType : /\ ReplacesRun(s, u, r, x)
                          /\ x.status = s.runs[r].status /\ x.round = s.runs[r].round
    /\ u.status = s.status /\ u.decisions = s.decisions

\* Nothing may be noted.
LEMMA NotesNothing ==
    ASSUME NEW s \in SessionType, NEW r \in DOMAIN s.runs
    PROVE  Notes(s, s, r)
<1>1. s.runs[r] \in RunType /\ s.runs \in Seq(RunType)
    BY RunIsThere, Fields
<1>2. s.runs = [s.runs EXCEPT ![r] = s.runs[r]]
    BY <1>1
<1> QED
    BY <1>1, <1>2 DEF Notes, ReplacesRun

\* What is noted on a run before it moves does not change how it moves.
LEMMA NotesThenAdvances ==
    ASSUME NEW s \in SessionType, NEW m \in SessionType, NEW u, NEW r \in DOMAIN s.runs,
           Notes(s, m, r), u = m \/ Advances(m, u, r)
    PROVE  Advances(s, u, r)
<1>1. PICK x \in RunType : /\ ReplacesRun(s, m, r, x)
                           /\ x.status = s.runs[r].status /\ x.round = s.runs[r].round
    BY DEF Notes
<1>2. m.status = s.status /\ m.decisions = s.decisions
    BY DEF Notes
<1>3. s.runs \in Seq(RunType)
    BY Fields
<1>4. m.runs[r] = x /\ m.runs = [s.runs EXCEPT ![r] = x]
    BY <1>1, <1>3, ReplacedRuns DEF ReplacesRun
<1>5. CASE u = m
    BY <1>1, <1>2, <1>5 DEF Advances
<1>6. CASE Advances(m, u, r)
    <2>1. PICK y \in RunType :
            /\ ReplacesRun(m, u, r, y)
            /\ \/ /\ y.status = m.runs[r].status /\ y.round = m.runs[r].round
                  /\ u.status = m.status /\ u.decisions = m.decisions
               \/ /\ y.status = "completed" /\ y.round = m.runs[r].round
                  /\ u.status = [m.status EXCEPT ![y.task] = "completed"] /\ u.decisions = m.decisions
               \/ /\ y.status = "awaiting_decision" /\ y.round = m.runs[r].round + 1
                  /\ u.status = m.status
                  /\ u.decisions = IF \E d \in m.decisions : d.task = y.task THEN m.decisions
                                   ELSE m.decisions \cup {[task |-> y.task, run |-> r]}
               \/ /\ y.status = "running" /\ y.round = m.runs[r].round + 1
                  /\ u.status = [m.status EXCEPT ![y.task] = "running"] /\ u.decisions = m.decisions
        BY <1>6 DEF Advances
    <2>2. u.runs = [s.runs EXCEPT ![r] = y]
        BY <1>3, <1>4, <2>1 DEF ReplacesRun
    <2>3. ReplacesRun(s, u, r, y)
        BY <1>1, <1>4, <2>1, <2>2 DEF ReplacesRun
    <2> QED
        BY <1>1, <1>2, <1>4, <2>1, <2>3, ZenonT(60) DEF Advances
<1> QED
    BY <1>5, <1>6

\* The verdict of a call that was dispatched for a run.
LEMMA RunVerdictAdvances ==
    ASSUME NEW s, Sound(s), NEW op \in OpType, op.run \in DOMAIN s.runs,
           NEW report, report.verdict \in Verdict, NEW u, u = RunVerdict(s, op, report)
    PROVE  u \in SessionType /\ SameFrame(s, u) /\ u.ops = s.ops /\ Advances(s, u, op.run)
<1> DEFINE r == op.run
           declared == DeclaredGates(s.runs[r].stage)
           noted == WithChecks(s, op)
           marked == IF declared = {} THEN noted
                     ELSE [noted EXCEPT !.runs[r].gates[report.gate] = report.verdict]
           gates == marked.runs[r].gates
           failed == IF declared = {} THEN report.verdict = "failed" ELSE AnyFailed(gates)
           decided == declared = {} \/ failed \/ AllPassed(gates)
<1>1. s \in SessionType /\ r \in DOMAIN s.runs /\ op.checks \in Checks
    BY Zenon DEF Sound, OpType
<1>2. /\ noted \in SessionType /\ SameFrame(s, noted) /\ noted.ops = s.ops /\ Notes(s, noted, r)
    <2>1. CASE op.checks = "none"
        BY <1>1, <2>1, NotesNothing DEF WithChecks, SameFrame
    <2>2. CASE op.checks # "none"
        <3> DEFINE x == CheckedRun(s.runs[r], op.checks)
        <3>1. s.runs[r] \in RunType
            BY <1>1, RunIsThere
        <3>2. x.status = s.runs[r].status /\ x.round = s.runs[r].round
            BY <3>1, Zenon DEF RunType, CheckedRun
        <3> HIDE DEF x
        <3>3. noted = Checked(s, r, op.checks)
            BY <2>2 DEF WithChecks, Checked
        <3>4. /\ Sound(noted) /\ SameFrame(s, noted) /\ noted.ops = s.ops
              /\ noted.decisions = s.decisions /\ noted.status = s.status
              /\ ReplacesRun(s, noted, r, x)
            <4> HIDE DEF noted, r
            <4> QED
                BY <1>1, <3>3, ChecksWritten DEF x
        <3>5. Notes(s, noted, r)
            BY <3>2, <3>4 DEF Notes, ReplacesRun
        <3> QED
            BY <3>4, <3>5 DEF Sound
    <2> QED
        BY <2>1, <2>2
<1>3. r \in DOMAIN noted.runs
    <2> HIDE DEF noted, r
    <2> QED
        BY <1>1, <1>2, Fields, ReplacedRuns DEF Notes, ReplacesRun
<1> HIDE DEF noted
<1>4. CASE declared # {} /\ report.gate \notin declared
    <2>1. u = s
        BY <1>4 DEF RunVerdict
    <2>2. Advances(s, s, r)
        BY <1>1, NotesNothing, NotesThenAdvances
    <2> QED
        BY <1>1, <2>1, <2>2 DEF SameFrame
<1>5. CASE declared = {} \/ report.gate \in declared
    <2>1. /\ marked \in SessionType /\ SameFrame(noted, marked) /\ marked.ops = noted.ops
          /\ Notes(noted, marked, r)
        <3>1. CASE declared = {}
            BY <1>2, <1>3, <3>1, NotesNothing DEF SameFrame
        <3>2. CASE declared # {}
            <4> DEFINE now == [noted.runs[r].gates EXCEPT ![report.gate] = report.verdict]
                       x == [noted.runs[r] EXCEPT !.gates = now]
            <4>1. report.gate \in Gate
                BY <1>5, <3>2 DEF DeclaredGates
            <4>2. noted.runs[r] \in RunType /\ noted.runs[r].gates \in [Gate -> Checks]
                BY <1>2, <1>3, RunIsThere
            <4>3. now \in [Gate -> Checks]
                BY <4>2 DEF Checks
            <4>4. marked = [noted EXCEPT !.runs[r].gates[report.gate] = report.verdict]
                BY <3>2
            <4>5. marked = WithRun(noted, r, x)
                BY <1>2, <1>3, <4>2, <4>4, ZenonT(60) DEF SessionType, WithRun
            <4> HIDE DEF now, marked
            <4>6. x \in RunType
                BY <4>2, <4>3, Zenon DEF RunType
            <4>7. x.task = noted.runs[r].task /\ x.status = noted.runs[r].status
                  /\ x.round = noted.runs[r].round
                BY <4>2, Zenon DEF RunType
            <4> HIDE DEF x
            <4>8. /\ marked \in SessionType /\ marked.runs = [noted.runs EXCEPT ![r] = x]
                  /\ SameFrame(noted, marked) /\ marked.ops = noted.ops
                  /\ marked.decisions = noted.decisions /\ marked.status = noted.status
                BY <1>2, <1>3, <4>5, <4>6, RunWritten
            <4> QED
                BY <1>3, <4>6, <4>7, <4>8 DEF Notes, ReplacesRun
        <3> QED
            BY <3>1, <3>2
    <2>2. u = IF op.status = "running" /\ decided THEN MoveTask(marked, r, failed) ELSE marked
        BY <1>5 DEF RunVerdict, noted
    <2> HIDE DEF marked, decided, failed, declared
    <2>3. r \in DOMAIN marked.runs
        BY <1>2, <1>3, <2>1, Fields, ReplacedRuns DEF Notes, ReplacesRun
    <2>4. /\ u \in SessionType /\ SameFrame(marked, u) /\ u.ops = marked.ops
          /\ u = marked \/ Advances(marked, u, r)
        BY <2>1, <2>2, <2>3, MoveTaskAdvances DEF SameFrame
    <2>5. Advances(noted, u, r)
        BY <1>2, <1>3, <2>1, <2>4, NotesThenAdvances
    <2>6. Advances(s, u, r)
        BY <1>1, <1>2, <2>5, NotesThenAdvances
    <2> QED
        BY <1>2, <2>1, <2>4, <2>6 DEF SameFrame
<1> QED
    BY <1>4, <1>5

\* Only runs, statuses and decisions matter to what a verdict makes of a run.
LEMMA AdvancesSame ==
    ASSUME NEW s, NEW m, NEW u, NEW v, NEW r, SameRuns(s, m), SameRuns(u, v), Advances(m, u, r)
    PROVE  Advances(s, v, r)
BY ZenonT(60) DEF Advances, ReplacesRun, SameRuns

\* Whatever a verdict makes of the run that is open, the session stays sound.
LEMMA AdvancesSound ==
    ASSUME NEW s, Sound(s), NEW r \in OpenRuns(s), NEW u \in SessionType, u.list = s.list,
           OpsOf(s, u), Advances(s, u, r)
    PROVE  Sound(u)
<1>1. s \in SessionType /\ r \in DOMAIN s.runs
    BY DEF Sound, OpenRuns
<1>2. s.status \in [Task -> TaskStatus]
    BY <1>1, Fields
<1>3. PICK x \in RunType :
        /\ ReplacesRun(s, u, r, x)
        /\ \/ u.status = s.status
           \/ u.status = [s.status EXCEPT ![x.task] = "completed"]
           \/ u.status = [s.status EXCEPT ![x.task] = "running"]
        /\ \/ u.decisions = s.decisions
           \/ u.decisions = s.decisions \cup {[task |-> x.task, run |-> r]}
    BY DEF Advances
<1>4. \A d \in u.decisions : d \in s.decisions \/ d.run = r
    BY <1>3
<1>5. \A t \in Task : u.status[t] = s.status[t] \/ u.status[t] \notin {"failed", "cancelled"}
    BY <1>2, <1>3
<1> QED
    BY <1>3, <1>4, <1>5, SoundReplaced

\* The checks of what a call has written are kept on its operation.
LEMMA RunTaskInvariantsKeeps ==
    ASSUME NEW s, Sound(s), NEW k \in Call, NEW checks \in Checks,
           NEW u, u = RunTaskInvariants(s, k, checks)
    PROVE  /\ Sound(u) /\ SameFrame(s, u) /\ SameRuns(s, u) /\ OpsOf(s, u) /\ OpsOf(u, s)
           /\ \A j \in Call \ {k} : u.ops[j] = s.ops[j]
<1>1. CASE ~ (HasOp(s, k) /\ s.ops[k].status = "running" /\ checks # "none")
    BY <1>1 DEF RunTaskInvariants, SameFrame, SameRuns, OpsOf
<1>2. CASE HasOp(s, k) /\ s.ops[k].status = "running" /\ checks # "none"
    <2> DEFINE op == [s.ops[k] EXCEPT !.checks = checks]
    <2>1. s \in SessionType
        BY DEF Sound
    <2>2. s.ops[k] \in OpType
        BY <1>2, <2>1, Fields DEF HasOp
    <2>3. op \in OpType
        BY <2>2, Zenon DEF OpType
    <2>4. op.kind = s.ops[k].kind /\ op.run = s.ops[k].run /\ op.round = s.ops[k].round
          /\ op.expired = s.ops[k].expired
        BY <2>2, Zenon DEF OpType
    <2>5. u = [s EXCEPT !.ops = [s.ops EXCEPT ![k] = op]]
        BY <1>2, <2>1, Zenon DEF RunTaskInvariants, SessionType
    <2> HIDE DEF op
    <2> QED
        BY <1>2, <2>3, <2>4, <2>5, OpChangeKeeps
<1> QED
    BY <1>1, <1>2

\* What the first answer of a call does: nothing that counts, a verdict about
\* the run the call was dispatched for, or one about the stage.
Judges(s, u, k) ==
    \/ SameRuns(s, u) /\ u.gates = s.gates
    \/ /\ HasOp(s, k) /\ s.ops[k].run \in OpenRuns(s)
       /\ s.ops[k].round = s.runs[s.ops[k].run].round
       /\ k \notin s.processed /\ k \in u.processed
       /\ u.gates = s.gates
       /\ Advances(s, u, s.ops[k].run)
    \/ /\ ~ HasOp(s, k) \/ s.ops[k].run = NoRun
       /\ k \notin s.processed /\ k \in u.processed
       /\ SameRuns(s, u)

\* A verdict is counted for the run of its call, or for the stage.
LEMMA ApplyGateJudges ==
    ASSUME NEW s, Sound(s), NEW k \in Call, NEW report \in Reports, report # NoReport,
           NEW u, u = ApplyGate(s, k, report)
    PROVE  /\ Sound(u) /\ u.ops = s.ops /\ Judges(s, u, k)
           /\ u.stage = s.stage /\ u.list = s.list /\ u.outcome = s.outcome
<1> DEFINE op == s.ops[k]
           bound == HasOp(s, k) /\ op.run # NoRun
           counted == [s EXCEPT !.processed = @ \cup {k}]
<1>1. s \in SessionType /\ s.processed \in SUBSET Call
    BY Fields DEF Sound
<1>2. report.verdict \in Verdict
    BY DEF Reports, Report, NoReport
<1>3. CASE k \in s.processed \/ (bound /\ StaleRound(s, op))
    BY <1>3 DEF ApplyGate, Judges, SameRuns
<1>4. ASSUME ~ (k \in s.processed \/ (bound /\ StaleRound(s, op)))
      PROVE  /\ counted \in SessionType /\ counted.processed = s.processed \cup {k}
             /\ counted.ops = s.ops /\ SameRuns(s, counted) /\ counted.gates = s.gates
             /\ counted.stage = s.stage /\ counted.list = s.list /\ counted.outcome = s.outcome
             /\ Sound(counted) /\ k \notin s.processed
    <2> DEFINE processed == s.processed \cup {k}
    <2>1. processed \in SUBSET Call /\ counted = [s EXCEPT !.processed = processed]
        BY <1>1
    <2> HIDE DEF processed, counted
    <2>2. counted \in SessionType
        BY <1>1, <2>1, ZenonT(60) DEF SessionType
    <2>3. /\ counted.processed = processed /\ counted.ops = s.ops /\ SameRuns(s, counted)
          /\ counted.gates = s.gates /\ counted.stage = s.stage /\ counted.list = s.list
          /\ counted.outcome = s.outcome
        BY <1>1, <2>1, ZenonT(60) DEF SessionType, SameRuns
    <2>4. Sound(counted)
        BY <2>2, <2>3, SoundKept DEF SameRuns, OpsOf, HasOp
    <2> QED
        BY <1>4, <2>2, <2>3, <2>4 DEF processed
<1>5. CASE ~ (k \in s.processed \/ (bound /\ StaleRound(s, op))) /\ bound
    <2>1. u = RunVerdict(counted, op, report)
        BY <1>5 DEF ApplyGate
    <2> HIDE DEF counted
    <2>2. op \in OpType /\ op.run \in DOMAIN s.runs
        BY <1>1, <1>5, Fields, LenProperties DEF HasOp, Sound, NoRun
    <2>3. op.run \in OpenRuns(s) /\ op.round = s.runs[op.run].round
        BY <1>5, <2>2 DEF StaleRound, OpenRuns
    <2>4. u \in SessionType /\ SameFrame(counted, u) /\ u.ops = counted.ops /\ Advances(counted, u, op.run)
        BY <1>2, <1>4, <1>5, <2>1, <2>2, RunVerdictAdvances DEF SameRuns
    <2>5. Advances(s, u, op.run)
        BY <1>4, <1>5, <2>4, AdvancesSame DEF SameRuns
    <2>6. OpsOf(s, u) /\ u.list = s.list
        BY <1>4, <1>5, <2>4 DEF OpsOf, HasOp, SameFrame
    <2>7. Sound(u)
        BY <2>3, <2>4, <2>5, <2>6, AdvancesSound
    <2>8. k \notin s.processed /\ k \in u.processed /\ u.gates = s.gates
        BY <1>4, <1>5, <2>4 DEF SameFrame
    <2> QED
        BY <1>4, <1>5, <2>3, <2>4, <2>5, <2>7, <2>8 DEF Judges, SameFrame
<1>6. CASE ~ (k \in s.processed \/ (bound /\ StaleRound(s, op))) /\ ~ bound
    <2>1. u = StageVerdict(counted, report)
        BY <1>6 DEF ApplyGate
    <2> HIDE DEF counted
    <2>2. CASE report.gate \notin DeclaredGates(counted.stage)
        BY <1>4, <1>6, <2>1, <2>2 DEF StageVerdict, Judges
    <2>3. CASE report.gate \in DeclaredGates(counted.stage)
        <3> DEFINE gates == [counted.gates EXCEPT ![report.gate] = report.verdict]
                   judged == counted.judged \cup {report.gate}
        <3>1. u = [counted EXCEPT !.gates = gates, !.judged = judged]
            BY <1>4, <1>6, <2>1, <2>3, Zenon DEF StageVerdict, SessionType
        <3>2. report.gate \in Gate
            BY <2>3 DEF DeclaredGates
        <3>3. gates \in [Gate -> Checks] /\ judged \in SUBSET Gate
            BY <1>2, <1>4, <1>6, <3>2, Fields DEF Checks
        <3> HIDE DEF gates, judged
        <3>4. u \in SessionType
            BY <1>4, <1>6, <3>1, <3>3, ZenonT(60) DEF SessionType
        <3>5. /\ u.processed = counted.processed /\ u.ops = counted.ops /\ SameRuns(counted, u)
              /\ u.stage = counted.stage /\ u.list = counted.list /\ u.outcome = counted.outcome
            BY <1>4, <1>6, <3>1, ZenonT(60) DEF SessionType, SameRuns
        <3>6. Sound(u)
            BY <1>4, <1>6, <3>4, <3>5, SoundKept DEF SameRuns, OpsOf, HasOp
        <3> QED
            BY <1>4, <1>6, <3>5, <3>6 DEF Judges, SameRuns
    <2> QED
        BY <2>2, <2>3
<1> QED
    BY <1>3, <1>5, <1>6

\* The after hook of the task tool.
LEMMA SettleResultSettles ==
    ASSUME NEW s, Sound(s), NEW k \in Call, NEW report \in Reports, NEW checks \in Checks,
           NEW u, u = SettleResult(s, k, report, checks)
    PROVE  /\ Sound(u) /\ Judges(s, u, k)
           /\ u.stage = s.stage /\ u.list = s.list /\ u.outcome = s.outcome
           /\ OpsOf(s, u) /\ ~ HasOp(u, k) /\ \A j \in Call \ {k} : u.ops[j] = s.ops[j]
<1> DEFINE m == RunTaskInvariants(s, k, checks)
           judged == IF report = NoReport THEN m ELSE ApplyGate(m, k, report)
<1>1. /\ Sound(m) /\ SameFrame(s, m) /\ SameRuns(s, m) /\ OpsOf(s, m) /\ OpsOf(m, s)
      /\ \A j \in Call \ {k} : m.ops[j] = s.ops[j]
    BY RunTaskInvariantsKeeps
<1>2. u = [judged EXCEPT !.ops[k] = NoOp]
    BY DEF SettleResult, ReleaseVerdict
<1> HIDE DEF m
<1>3. /\ Sound(judged) /\ judged.ops = m.ops /\ Judges(m, judged, k)
      /\ judged.stage = m.stage /\ judged.list = m.list /\ judged.outcome = m.outcome
    <2>1. CASE report = NoReport
        BY <1>1, <2>1 DEF Judges, SameRuns
    <2>2. CASE report # NoReport
        BY <1>1, <2>2, ApplyGateJudges
    <2> QED
        BY <2>1, <2>2
<1> HIDE DEF judged
<1>4. Judges(s, judged, k)
    <2>1. HasOp(m, k) <=> HasOp(s, k)
        BY <1>1 DEF OpsOf
    <2>2. HasOp(m, k) => m.ops[k].run = s.ops[k].run /\ m.ops[k].round = s.ops[k].round
        BY <1>1, <2>1 DEF OpsOf
    <2>3. /\ m.runs = s.runs /\ m.status = s.status /\ m.decisions = s.decisions
          /\ m.gates = s.gates /\ m.processed = s.processed /\ OpenRuns(m) = OpenRuns(s)
        BY <1>1 DEF SameRuns, SameFrame, OpenRuns
    <2>4. \A r \in OpenRuns(s) : Advances(m, judged, r) => Advances(s, judged, r)
        BY <1>1, AdvancesSame DEF SameRuns
    <2>5. CASE SameRuns(m, judged) /\ judged.gates = m.gates
        BY <2>3, <2>5 DEF Judges, SameRuns
    <2>6. CASE /\ HasOp(m, k) /\ m.ops[k].run \in OpenRuns(m)
               /\ m.ops[k].round = m.runs[m.ops[k].run].round
               /\ k \notin m.processed /\ k \in judged.processed
               /\ judged.gates = m.gates
               /\ Advances(m, judged, m.ops[k].run)
        BY <2>1, <2>2, <2>3, <2>4, <2>6 DEF Judges
    <2>7. CASE /\ ~ HasOp(m, k) \/ m.ops[k].run = NoRun
               /\ k \notin m.processed /\ k \in judged.processed
               /\ SameRuns(m, judged)
        BY <2>1, <2>2, <2>3, <2>7 DEF Judges, SameRuns
    <2> QED
        BY <1>3, <2>5, <2>6, <2>7 DEF Judges
<1>5. /\ Sound(u) /\ SameFrame(judged, u) /\ SameRuns(judged, u) /\ OpsOf(judged, u) /\ ~ HasOp(u, k)
      /\ \A j \in Call \ {k} : u.ops[j] = judged.ops[j]
    BY <1>2, <1>3, ReleaseKeeps
<1>6. Judges(s, u, k)
    <2>1. /\ u.runs = judged.runs /\ u.status = judged.status /\ u.decisions = judged.decisions
          /\ u.gates = judged.gates /\ u.processed = judged.processed
        BY <1>5 DEF SameRuns, SameFrame
    <2>2. \A r \in OpenRuns(s) : Advances(s, judged, r) => Advances(s, u, r)
        BY <1>5, AdvancesSame DEF SameRuns
    <2> QED
        BY <1>4, <2>1, <2>2 DEF Judges, SameRuns
<1> QED
    BY <1>1, <1>3, <1>5, <1>6 DEF SameFrame, OpsOf, HasOp

-----------------------------------------------------------------------------
(* The other parts of a handler.                                           *)

\* Only the plan, what was answered, the permit or the receipt has changed.
Quiet(s, u) ==
    /\ SameRuns(s, u) /\ u.ops = s.ops
    /\ u.stage = s.stage /\ u.list = s.list /\ u.gates = s.gates /\ u.outcome = s.outcome

\* A quiet step keeps a session sound.
LEMMA QuietKeeps ==
    ASSUME NEW s, Sound(s), NEW u \in SessionType, Quiet(s, u)
    PROVE  Sound(u)
BY SoundKept DEF Quiet, SameRuns, OpsOf, HasOp

\* A call begins: what was known of another call of that name is forgotten.
LEMMA ForgetKeeps ==
    ASSUME NEW s, Sound(s), NEW k \in Call
    PROVE  Sound(Forget(s, k)) /\ Quiet(s, Forget(s, k))
<1> DEFINE processed == s.processed \ {k}
           u == Forget(s, k)
<1>1. s \in SessionType /\ processed \in SUBSET Call
    BY Fields DEF Sound
<1>2. u = [s EXCEPT !.processed = processed]
    BY <1>1, Zenon DEF Forget, SessionType
<1> HIDE DEF processed, u
<1>3. u \in SessionType /\ Quiet(s, u)
    BY <1>1, <1>2, ZenonT(60) DEF SessionType, Quiet, SameRuns
<1> QED
    BY <1>3, QuietKeeps DEF u

\* The plan is asked for or answered.
LEMMA PlanKeeps ==
    ASSUME NEW s, Sound(s), NEW approval \in {"none", "pending", "granted"}, NEW plan \in BOOLEAN,
           NEW u, u = [s EXCEPT !.approval = approval, !.plan = plan]
    PROVE  Sound(u) /\ Quiet(s, u)
<1>1. s \in SessionType
    BY DEF Sound
<1>2. u \in SessionType /\ Quiet(s, u)
    BY <1>1, ZenonT(60) DEF SessionType, Quiet, SameRuns
<1> QED
    BY <1>2, QuietKeeps

\* A commit is permitted, or has been made.
LEMMA PermitKeeps ==
    ASSUME NEW s, Sound(s), NEW permit \in SUBSET Call, NEW receipt \in BOOLEAN,
           NEW u, u = [s EXCEPT !.permit = permit, !.receipt = receipt]
    PROVE  Sound(u) /\ Quiet(s, u)
<1>1. s \in SessionType
    BY DEF Sound
<1>2. u \in SessionType /\ Quiet(s, u)
    BY <1>1, ZenonT(60) DEF SessionType, Quiet, SameRuns
<1> QED
    BY <1>2, QuietKeeps

\* One or two transitions: a loop is left for good only with its tasks done,
\* and a stopped task of a session that stays where it is stays stopped.
Goes(s, u) ==
    /\ SameWork(s, u)
    /\ u.stage # s.stage /\ s.stage = LoopStage => AllTasksCompleted(s)
    /\ u.stage = s.stage => \A t \in s.list : s.status[t] \in {"failed", "cancelled"}
                                              => u.status[t] = s.status[t]
    /\ \A t \in Task : u.status[t] \in {s.status[t], "pending"}

\* A transition keeps a session sound.
LEMMA GoesSound ==
    ASSUME NEW s, Sound(s), NEW u \in SessionType, Goes(s, u)
    PROVE  Sound(u)
<1>1. \A t \in Task : u.status[t] # s.status[t] => u.status[t] \notin {"failed", "cancelled"}
    BY DEF Goes
<1>2. OpsOf(s, u)
    BY DEF Goes, SameWork, OpsOf, HasOp
<1> QED
    BY <1>1, <1>2, SoundKept DEF Goes, SameWork

\* There is one way from a stage and back: out of the loop and into it again.
LEMMA WayBack ==
    ASSUME NEW i \in 1 .. 7, NEW j \in 1 .. 7,
           Edges[i].to = Edges[j].from, Edges[j].to = Edges[i].from
    PROVE  Edges[i].from = LoopStage \/ Edges[i].to = LoopStage
<1>1. /\ Edges[1].from = "planning" /\ Edges[1].to = "tasks_ready"
      /\ Edges[2].from = "tasks_ready" /\ Edges[2].to = "execution"
      /\ Edges[3].from = "execution" /\ Edges[3].to = "validation"
      /\ Edges[4].from = "validation" /\ Edges[4].to = "commit"
      /\ Edges[5].from = "validation" /\ Edges[5].to = "execution"
      /\ Edges[6].from = "validation" /\ Edges[6].to = "failed"
      /\ Edges[7].from = "commit" /\ Edges[7].to = "done"
    BY DEF Edges, Edge
<1>2. i \in {1, 2, 3, 4, 5, 6, 7} /\ j \in {1, 2, 3, 4, 5, 6, 7}
    OBVIOUS
<1> HIDE DEF Edges
<1> QED
    BY <1>1, <1>2 DEF LoopStage

\* One transition goes, and so do two.
LEMMA MovesGo ==
    ASSUME NEW s, Sound(s), NEW m \in SessionType, NEW u \in SessionType, Moves(s, m)
    PROVE  /\ Goes(s, m) /\ Sound(m)
           /\ Moves(m, u) => Goes(s, u) /\ Sound(u)
<1>1. /\ s \in SessionType /\ s.list \subseteq Task /\ s.status \in [Task -> TaskStatus]
    BY Fields DEF Sound
<1>2. Goes(s, m) /\ Sound(m)
    BY <1>1, GoesSound DEF Goes, Moves
<1>3. ASSUME Moves(m, u)
      PROVE  Goes(s, u) /\ Sound(u)
    <2>1. SameWork(s, u) /\ m.list = s.list
        BY <1>3 DEF Moves, SameWork
    <2>2. \A t \in Task : u.status[t] \in {s.status[t], "pending"}
        BY <1>3 DEF Moves
    <2>3. ASSUME u.stage # s.stage, s.stage = LoopStage
          PROVE  AllTasksCompleted(s)
        <3>1. CASE m.stage # s.stage
            BY <2>3, <3>1 DEF Moves
        <3>2. CASE m.stage = s.stage
            BY <1>3, <2>1, <2>3, <3>2 DEF Moves, AllTasksCompleted
        <3> QED
            BY <3>1, <3>2
    <2>4. ASSUME u.stage = s.stage, NEW t \in s.list, s.status[t] \in {"failed", "cancelled"}
          PROVE  u.status[t] = s.status[t]
        <3>1. CASE m.stage = s.stage
            BY <1>3, <2>4, <3>1 DEF Moves
        <3>2. CASE m.stage # s.stage
            <4>1. PICK i \in 1 .. 7 : Edges[i].from = s.stage /\ Edges[i].to = m.stage
                BY <3>2 DEF Moves
            <4>2. PICK j \in 1 .. 7 : Edges[j].from = m.stage /\ Edges[j].to = u.stage
                BY <1>3, <2>4, <3>2 DEF Moves
            <4>3. s.stage = LoopStage \/ m.stage = LoopStage
                BY <2>4, <4>1, <4>2, WayBack
            <4>4. CASE s.stage = LoopStage
                BY <2>4, <3>2, <4>4 DEF Moves, AllTasksCompleted
            <4>5. CASE m.stage = LoopStage
                <5>1. m.status[t] = "pending"
                    BY <2>4, <3>2, <4>5 DEF Moves
                <5>2. AllTasksCompleted(m)
                    BY <1>3, <2>4, <3>2, <4>5 DEF Moves
                <5> QED
                    BY <2>1, <5>1, <5>2 DEF AllTasksCompleted
            <4> QED
                BY <4>3, <4>4, <4>5
        <3> QED
            BY <3>1, <3>2
    <2>5. Goes(s, u)
        BY <2>1, <2>2, <2>3, <2>4 DEF Goes
    <2> QED
        BY <2>5, GoesSound
<1> QED
    BY <1>2, <1>3

\* A finished workflow that has its outcome keeps it.
KeepsOutcome(s, u) ==
    (IsTerminal(s.stage) => s.outcome = s.stage) => (IsTerminal(u.stage) => u.outcome = u.stage)

\* The end of every after hook.
LEMMA AfterToolGoes ==
    ASSUME NEW s, Sound(s)
    PROVE  Goes(s, AfterTool(s)) /\ Sound(AfterTool(s)) /\ KeepsOutcome(s, AfterTool(s))
<1>1. s \in SessionType
    BY DEF Sound
<1> DEFINE u == AfterTool(s)
<1>2. /\ u \in SessionType /\ Moves(s, u)
      /\ u.outcome = IF u.stage # s.stage /\ IsTerminal(u.stage) THEN u.stage ELSE s.outcome
    BY <1>1, AfterToolMoves
<1> HIDE DEF u
<1>3. KeepsOutcome(s, u)
    BY <1>2 DEF KeepsOutcome
<1>4. Goes(s, u) /\ Sound(u)
    BY <1>2, MovesGo
<1> QED
    BY <1>3, <1>4 DEF u

\* The after hook of a mutation: its operation ends, and the session may move
\* twice.
LEMMA FinishMutationGoes ==
    ASSUME NEW s, Sound(s), NEW k \in Call, NEW checks \in Checks,
           NEW u, u = AfterTool(FinishMutation(s, k, checks))
    PROVE  \E m : /\ Sound(m) /\ SameFrame(s, m) /\ RunsGoOn(s, m)
                  /\ m.decisions = s.decisions /\ DOMAIN m.runs = DOMAIN s.runs
                  /\ OpsOf(s, m) /\ ~ HasOp(m, k) /\ \A j \in Call \ {k} : m.ops[j] = s.ops[j]
                  /\ Goes(m, u) /\ Sound(u)
<1> DEFINE m == FinishOperation(s, k, checks)
           v == FinishMutation(s, k, checks)
<1>1. /\ Sound(m) /\ SameFrame(s, m) /\ RunsGoOn(s, m) /\ m.decisions = s.decisions
      /\ DOMAIN m.runs = DOMAIN s.runs
      /\ OpsOf(s, m) /\ ~ HasOp(m, k) /\ \A j \in Call \ {k} : m.ops[j] = s.ops[j]
    BY FinishOperationEnds
<1>2. v = IF HasOp(s, k) THEN TryApplyTransitions(m) ELSE s
    BY DEF FinishMutation
<1>3. ~ HasOp(s, k) => m = s
    BY DEF FinishOperation
<1>4. u = AfterTool(v)
    OBVIOUS
<1> HIDE DEF m, v
<1>5. Goes(m, u) /\ Sound(u)
    <2>1. CASE ~ HasOp(s, k)
        BY <1>1, <1>2, <1>3, <1>4, <2>1, AfterToolGoes
    <2>2. CASE HasOp(s, k)
        <3>1. v \in SessionType /\ Moves(m, v)
            BY <1>1, <1>2, <2>2, TransitionMoves DEF Sound
        <3>2. u \in SessionType /\ Moves(v, u)
            BY <1>4, <3>1, AfterToolMoves
        <3> QED
            BY <1>1, <3>1, <3>2, MovesGo
    <2> QED
        BY <2>1, <2>2
<1> QED
    BY <1>1, <1>5

-----------------------------------------------------------------------------
(* Dispatching, editing and the controller.                                *)

InPlace(s, u) ==
    u.stage = s.stage /\ u.list = s.list /\ u.gates = s.gates /\ u.outcome = s.outcome

\* A call is dispatched for a run: that is its operation.
LEMMA DispatchDispatches ==
    ASSUME NEW s, Sound(s), NEW k \in Call, NEW r \in DOMAIN s.runs, NEW agent \in Agent,
           NEW u, u = Dispatch(s, k, r, agent)
    PROVE  /\ Sound(u) /\ InPlace(s, u) /\ SameRuns(s, u) /\ HasOp(u, k)
           /\ u.ops[k].kind = "task" /\ u.ops[k].run = r /\ u.ops[k].round = s.runs[r].round
           /\ ~ u.ops[k].expired
           /\ \A j \in Call \ {k} : u.ops[j] = s.ops[j]
<1> DEFINE m == Forget(s, k)
           op == Operation("task", r, s.runs[r].round, agent)
           ops == [m.ops EXCEPT ![k] = op]
<1>0. Quiet(s, m) /\ Sound(m)
    BY ForgetKeeps
<1>1. /\ m \in SessionType /\ Quiet(s, m) /\ Sound(m)
    BY <1>0 DEF Sound
<1>2. s \in SessionType /\ s.runs[r].round \in Nat /\ r \in Nat \ {0} /\ r <= Len(s.runs)
    BY RunIsThere DEF Sound
<1>3. op \in OpType /\ op.kind = "task" /\ op.run = r /\ op.round = s.runs[r].round /\ ~ op.expired
    BY <1>2, OperationType
<1>4. u = [m EXCEPT !.ops[k] = op]
    BY DEF Dispatch
<1> HIDE DEF m, op
<1>5. u = [m EXCEPT !.ops = ops]
    BY <1>1, <1>4, ZenonT(60) DEF SessionType
<1>6. ops \in [Call -> OpType \cup {NoOp}] /\ ops[k] = op /\ \A j \in Call \ {k} : ops[j] = m.ops[j]
    BY <1>1, <1>3, Fields
<1> HIDE DEF ops
<1>7. /\ u \in SessionType /\ u.ops = ops /\ SameFrame(m, u) /\ SameRuns(m, u)
    BY <1>1, <1>5, <1>6, OpsReplaced
<1>8. /\ InPlace(s, u) /\ SameRuns(s, u)
    BY <1>1, <1>7 DEF Quiet, SameRuns, SameFrame, InPlace
<1>9. /\ \A j \in Call \ {k} : u.ops[j] = s.ops[j]
      /\ u.ops[k] = op
    BY <1>1, <1>6, <1>7 DEF Quiet
<1>10. r \in 0 .. Len(s.runs)
    BY <1>2, Fields, LenProperties
<1>11. Sound(u)
    BY <1>3, <1>7, <1>8, <1>9, <1>10, SoundAdds DEF InPlace, SameRuns
<1> QED
    BY <1>3, <1>8, <1>9, <1>11, NoOpIsNone DEF HasOp

\* Before an edit begins the operations are dropped that are dead: a mutation
\* this process has not begun, and whatever has outlived the TTL.
LEMMA UnlockedKeeps ==
    ASSUME NEW s, Sound(s), NEW k \in Call, ~ HasOp(s, k), NEW alive
    PROVE  /\ Sound(Unlocked(s, alive, k)) /\ OpsOf(s, Unlocked(s, alive, k))
           /\ SameFrame(s, Unlocked(s, alive, k)) /\ SameRuns(s, Unlocked(s, alive, k))
           /\ \A j \in Call : HasOp(Unlocked(s, alive, k), j) <=>
                /\ HasOp(s, j)
                /\ s.ops[j].kind = "mutation" => j \in alive
                /\ ~ s.ops[j].expired
           /\ \A j \in Call : HasOp(Unlocked(s, alive, k), j) => Unlocked(s, alive, k).ops[j] = s.ops[j]
<1> DEFINE dead == {j \in Call \ alive : /\ HasOp(s, j)
                                         /\ s.ops[j].kind = "task" => s.ops[j].expired}
           m == DropOps(s, dead)
           old == {j \in Call : HasOp(m, j) /\ m.ops[j].expired}
           u == DropOps(m, old)
<1>0. ReleaseInterruptedLock(s, alive, k) = m
    BY DEF ReleaseInterruptedLock
<1>1. u = Unlocked(s, alive, k)
    <2> HIDE DEF m
    <2> QED
        BY <1>0 DEF Unlocked, RemoveExpired
<1>2. /\ Sound(m) /\ SameFrame(s, m) /\ SameRuns(s, m) /\ OpsOf(s, m)
      /\ \A j \in Call : /\ HasOp(m, j) <=> HasOp(s, j) /\ j \notin dead
                         /\ j \notin dead => m.ops[j] = s.ops[j]
    BY DropOpsKeeps
<1> HIDE DEF m
<1>3. /\ Sound(u) /\ SameFrame(m, u) /\ SameRuns(m, u) /\ OpsOf(m, u)
      /\ \A j \in Call : /\ HasOp(u, j) <=> HasOp(m, j) /\ j \notin old
                         /\ j \notin old => u.ops[j] = m.ops[j]
    BY <1>2, DropOpsKeeps
<1> HIDE DEF u
<1>4. \A j \in Call : HasOp(s, j) => s.ops[j].kind \in {"task", "mutation"}
    BY Fields, NoOpIsNone DEF Sound, HasOp
<1>5. \A j \in Call : HasOp(u, j) <=> /\ HasOp(s, j)
                                      /\ s.ops[j].kind = "mutation" => j \in alive
                                      /\ ~ s.ops[j].expired
    BY <1>2, <1>3, <1>4
<1>6. \A j \in Call : HasOp(u, j) => u.ops[j] = s.ops[j]
    BY <1>2, <1>3
<1>7. SameFrame(s, u) /\ SameRuns(s, u) /\ OpsOf(s, u)
    BY <1>2, <1>3 DEF SameFrame, SameRuns, OpsOf
<1> QED
    BY <1>1, <1>3, <1>5, <1>6, <1>7

Relisted(s, list, status) == [s EXCEPT !.list = list, !.status = status]

\* Where no run is open, the list may be replaced.
LEMMA ListReplaced ==
    ASSUME NEW s, Sound(s), OpenRuns(s) = {}, NEW list \in SUBSET Task,
           NEW status \in [Task -> TaskStatus],
           NEW u, u = Relisted(s, list, status)
    PROVE  /\ Sound(u) /\ u.runs = s.runs /\ u.decisions = s.decisions /\ u.ops = s.ops
           /\ u.stage = s.stage /\ u.gates = s.gates /\ u.outcome = s.outcome
           /\ u.status = status
<1>1. s \in SessionType
    BY DEF Sound
<1>2. u \in SessionType
    BY <1>1, ZenonT(60) DEF SessionType, Relisted
<1>3. /\ u.runs = s.runs /\ u.decisions = s.decisions /\ u.ops = s.ops
      /\ u.stage = s.stage /\ u.gates = s.gates /\ u.outcome = s.outcome
      /\ u.status = status
    BY <1>1, ZenonT(60) DEF SessionType, Relisted
<1>4. OpenRuns(u) = {}
    BY <1>3 DEF OpenRuns
<1> QED
    BY <1>2, <1>3, <1>4 DEF Sound, HasOp

\* What the controller makes of the runs of a task it stops.
Closes(s, u, t) ==
    /\ DOMAIN u.runs = DOMAIN s.runs
    /\ \A r \in DOMAIN s.runs :
         /\ u.runs[r].task = s.runs[r].task /\ u.runs[r].round = s.runs[r].round
         /\ u.runs[r].gates = s.runs[r].gates
         /\ u.runs[r].status = IF r \in OpenRuns(s) /\ s.runs[r].task = t THEN "cancelled"
                               ELSE s.runs[r].status
    /\ \A j \in Call : HasOp(s, j) /\ ~ HasOp(u, j) => u.runs[s.ops[j].run].status = "cancelled"

\* The execution of a task that is stopped is closed.
LEMMA CloseExecutionCloses ==
    ASSUME NEW s, Sound(s), NEW t \in Task, NEW status \in [Task -> TaskStatus],
           \A q \in Task \ {t} : status[q] = s.status[q],
           NEW m, m = [s EXCEPT !.status = status], NEW u, u = CloseExecution(m, t)
    PROVE  /\ Sound(u) /\ SameFrame(s, u) /\ OpsOf(s, u) /\ Closes(s, u, t)
           /\ u.decisions = s.decisions /\ u.status = status
<1> DEFINE mine == {r \in OpenRuns(m) : m.runs[r].task = t}
           runs == [r \in DOMAIN s.runs |-> IF r \in mine THEN [s.runs[r] EXCEPT !.status = "cancelled"]
                                            ELSE s.runs[r]]
           dead == {k \in Call : HasOp(m, k) /\ m.ops[k].run \in mine}
           v == [m EXCEPT !.runs = runs]
<1>1. s \in SessionType
    BY DEF Sound
<1>2. /\ m \in SessionType
    BY <1>1, ZenonT(60) DEF SessionType
<1>3. /\ m.runs = s.runs /\ m.ops = s.ops /\ m.decisions = s.decisions /\ m.status = status
      /\ SameFrame(s, m)
    BY <1>1, ZenonT(60) DEF SessionType, SameFrame
<1>4. u = DropOps(v, dead)
    BY <1>3, Zenon DEF CloseExecution
<1>5. mine = {r \in OpenRuns(s) : s.runs[r].task = t}
    BY <1>3 DEF OpenRuns
<1> HIDE DEF mine
<1>6. \A r \in DOMAIN s.runs : /\ runs[r] \in RunType /\ runs[r].task = s.runs[r].task
                               /\ runs[r].round = s.runs[r].round /\ runs[r].gates = s.runs[r].gates
                               /\ runs[r].status = IF r \in mine THEN "cancelled" ELSE s.runs[r].status
    <2> SUFFICES ASSUME NEW r \in DOMAIN s.runs
                 PROVE  /\ runs[r] \in RunType /\ runs[r].task = s.runs[r].task
                        /\ runs[r].round = s.runs[r].round /\ runs[r].gates = s.runs[r].gates
                        /\ runs[r].status = IF r \in mine THEN "cancelled" ELSE s.runs[r].status
        OBVIOUS
    <2>1. s.runs[r] \in RunType
        BY <1>1, RunIsThere
    <2>2. CASE r \in mine
        <3> DEFINE x == [s.runs[r] EXCEPT !.status = "cancelled"]
        <3>1. x \in RunType
            BY <2>1, Zenon DEF RunType
        <3>2. x.task = s.runs[r].task /\ x.round = s.runs[r].round /\ x.gates = s.runs[r].gates
              /\ x.status = "cancelled"
            BY <2>1, Zenon DEF RunType
        <3>3. runs[r] = x
            BY <2>2
        <3> HIDE DEF x, runs
        <3> QED
            BY <2>2, <3>1, <3>2, <3>3
    <2>3. CASE r \notin mine
        <3>1. runs[r] = s.runs[r]
            BY <2>3
        <3> HIDE DEF runs
        <3> QED
            BY <2>1, <2>3, <3>1
    <2> QED
        BY <2>2, <2>3
<1>7. DOMAIN runs = DOMAIN s.runs
    OBVIOUS
<1> HIDE DEF runs
<1>8. runs \in Seq(RunType) /\ Len(runs) = Len(s.runs)
    <2>1. DOMAIN s.runs = 1 .. Len(s.runs) /\ Len(s.runs) \in Nat
        BY <1>1, Fields, LenProperties
    <2>2. runs = [r \in 1 .. Len(s.runs) |-> runs[r]]
        BY <2>1 DEF runs
    <2>3. runs \in [1 .. Len(s.runs) -> RunType]
        BY <1>6, <2>1, <2>2
    <2> QED
        BY <2>1, <2>3, LenProperties, SeqDef
<1>9. v \in SessionType
    BY <1>2, <1>8, ZenonT(60) DEF SessionType
<1>10. /\ v.runs = runs /\ v.ops = s.ops /\ v.decisions = s.decisions /\ v.status = status
       /\ SameFrame(s, v)
    BY <1>2, <1>3, ZenonT(60) DEF SessionType, SameFrame
<1> HIDE DEF v
<1>11. OpenRuns(v) = {r \in OpenRuns(s) : s.runs[r].task # t}
    BY <1>5, <1>6, <1>7, <1>10 DEF OpenRuns, OpenStatus
<1>12. \A r \in OpenRuns(s) : s.runs[r].task \in Task
    BY <1>1, RunIsThere DEF OpenRuns
<1>13. Sound(v)
    <2>1. \A r, q \in OpenRuns(v) : r = q
        BY <1>11 DEF Sound
    <2>2. \A r \in OpenRuns(v) : /\ v.runs[r].task \in v.list
                                 /\ v.status[v.runs[r].task] \notin {"failed", "cancelled"}
        BY <1>6, <1>10, <1>11, <1>12 DEF Sound, SameFrame, OpenRuns
    <2>3. /\ \A k \in Call : HasOp(v, k) => v.ops[k].run \in 0 .. Len(v.runs)
          /\ \A d \in v.decisions : d.run \in DOMAIN v.runs
        BY <1>7, <1>8, <1>10 DEF Sound, HasOp
    <2> QED
        BY <1>9, <2>1, <2>2, <2>3 DEF Sound
<1>14. /\ Sound(u) /\ SameFrame(v, u) /\ SameRuns(v, u) /\ OpsOf(v, u)
       /\ \A k \in Call : /\ HasOp(u, k) <=> HasOp(v, k) /\ k \notin dead
                          /\ k \notin dead => u.ops[k] = v.ops[k]
    <2> HIDE DEF dead
    <2>1. /\ Sound(DropOps(v, dead)) /\ SameFrame(v, DropOps(v, dead))
          /\ SameRuns(v, DropOps(v, dead)) /\ OpsOf(v, DropOps(v, dead))
          /\ \A k \in Call : /\ HasOp(DropOps(v, dead), k) <=> HasOp(v, k) /\ k \notin dead
                             /\ k \notin dead => DropOps(v, dead).ops[k] = v.ops[k]
        BY <1>13, DropOpsKeeps
    <2> QED
        BY <1>4, <2>1
<1>15. SameFrame(s, u) /\ OpsOf(s, u) /\ u.decisions = s.decisions /\ u.status = status
    BY <1>10, <1>14 DEF SameFrame, SameRuns, OpsOf, HasOp
<1>16. \A j \in Call : HasOp(s, j) /\ ~ HasOp(u, j) => s.ops[j].run \in mine
    BY <1>3, <1>10, <1>14 DEF HasOp
<1>17. Closes(s, u, t)
    BY <1>5, <1>6, <1>7, <1>10, <1>14, <1>16 DEF Closes, SameRuns, OpenRuns
<1> QED
    BY <1>14, <1>15, <1>17

\* The decision d is taken: its run goes on as x, its task as status says.
Decides(s, u, d, x, status) ==
    /\ x \in RunType /\ ReplacesRun(s, u, d.run, x)
    /\ x.round = s.runs[d.run].round /\ x.gates = s.runs[d.run].gates
    /\ u.decisions = s.decisions \ {d} /\ u.ops = s.ops
    /\ u.status = [s.status EXCEPT ![d.task] = status]

\* What a decision writes is sound: the run it is about was the one open.
LEMMA DecidesSound ==
    ASSUME NEW s, Sound(s), NEW d \in s.decisions, d.run \in OpenRuns(s), NEW u \in SessionType,
           NEW x, NEW status, Decides(s, u, d, x, status), u.list = s.list,
           status \in {"failed", "cancelled"} <=> x.status \notin OpenStatus
    PROVE  Sound(u)
<1>1. /\ s \in SessionType /\ s.runs \in Seq(RunType) /\ d.run \in DOMAIN s.runs /\ d.task \in Task
      /\ s.status \in [Task -> TaskStatus]
    BY Fields DEF Sound
<1>2. /\ DOMAIN u.runs = DOMAIN s.runs /\ Len(u.runs) = Len(s.runs) /\ u.runs[d.run] = x
      /\ \A q \in DOMAIN s.runs : q # d.run => u.runs[q] = s.runs[q]
    BY <1>1, ReplacedRuns DEF Decides, ReplacesRun
<1>3. OpenRuns(u) = IF x.status \in OpenStatus THEN {d.run} ELSE {}
    BY <1>1, <1>2 DEF OpenRuns, Sound
<1>4. \A q \in OpenRuns(u) : /\ u.runs[q].task \in u.list
                             /\ u.status[u.runs[q].task] \notin {"failed", "cancelled"}
    BY <1>1, <1>2, <1>3 DEF Decides, ReplacesRun, Sound
<1>5. /\ \A k \in Call : HasOp(u, k) => u.ops[k].run \in 0 .. Len(u.runs)
      /\ \A e \in u.decisions : e.run \in DOMAIN u.runs
    BY <1>2 DEF Sound, Decides, HasOp
<1> QED
    BY <1>3, <1>4, <1>5 DEF Sound

\* What the two resolutions write.
Granted(s, d, maximum) ==
    [s EXCEPT !.decisions = @ \ {d}, !.maximum[d.task] = maximum,
              !.runs[d.run].stage = FirstLoopStage, !.runs[d.run].status = "running",
              !.status[d.task] = "running"]

GivenUp(s, d, how) ==
    [s EXCEPT !.decisions = @ \ {d}, !.runs[d.run].status = how, !.status[d.task] = how]

\* workflow-resolve-decision: more retries.
LEMMA IncreaseRetriesDecides ==
    ASSUME NEW s, Sound(s), NEW d \in s.decisions, d.run \in OpenRuns(s), NEW maximum \in Nat,
           NEW u, u = Granted(s, d, maximum)
    PROVE  /\ Sound(u) /\ SameFrame(s, u)
           /\ \E x \in RunType : x.status = "running" /\ Decides(s, u, d, x, "running")
<1> DEFINE r == d.run
           x == [s.runs[r] EXCEPT !.stage = FirstLoopStage, !.status = "running"]
           runs == [s.runs EXCEPT ![r] = x]
           decisions == s.decisions \ {d}
           maxima == [s.maximum EXCEPT ![d.task] = maximum]
           status == [s.status EXCEPT ![d.task] = "running"]
<1>1. /\ s \in SessionType /\ s.runs \in Seq(RunType) /\ r \in DOMAIN s.runs /\ d.task \in Task
      /\ s.status \in [Task -> TaskStatus] /\ s.maximum \in [Task -> Nat]
      /\ s.decisions \in SUBSET [task : Task, run : Nat]
    BY Fields DEF Sound
<1>2. s.runs[r] \in RunType
    BY <1>1, RunIsThere
<1>3. x \in RunType
    BY <1>2, Zenon DEF RunType, FirstLoopStage, OpenStatus
<1>4. x.task = s.runs[r].task /\ x.round = s.runs[r].round /\ x.gates = s.runs[r].gates
      /\ x.status = "running"
    BY <1>2, Zenon DEF RunType
<1>5. u = [s EXCEPT !.decisions = decisions, !.maximum = maxima, !.runs = runs, !.status = status]
    <2> DEFINE y == [s.runs[r] EXCEPT !.stage = FirstLoopStage]
               m == [s EXCEPT !.decisions = decisions, !.maximum = maxima]
               v == [m EXCEPT !.runs = [s.runs EXCEPT ![r] = y]]
               w == [v EXCEPT !.runs = runs]
               z == [v EXCEPT !.runs[r].status = "running"]
    <2>1. u = [[[m EXCEPT !.runs[r].stage = FirstLoopStage] EXCEPT !.runs[r].status = "running"]
               EXCEPT !.status[d.task] = "running"]
        BY <1>1, Zenon DEF Granted, SessionType
    <2>2. m.runs = s.runs /\ m.status = s.status /\ DOMAIN m = DOMAIN s
        BY <1>1, ZenonT(60) DEF SessionType
    <2> HIDE DEF m
    <2>3. v = [m EXCEPT !.runs[r].stage = FirstLoopStage]
        BY <2>2, Zenon
    <2>4. v.runs = [s.runs EXCEPT ![r] = y] /\ v.status = s.status /\ v.runs[r] = y
        BY <1>1, <2>2, ZenonT(60) DEF SessionType
    <2>5. x = [y EXCEPT !.status = "running"]
        BY Zenon
    <2>6. [v.runs EXCEPT ![r] = x] = runs
        <3> HIDE DEF v, y, x
        <3> QED
            BY <1>1, <2>4
    <2>7. z = [v EXCEPT !.runs = [v.runs EXCEPT ![r] = x]]
        <3> HIDE DEF v, x, y
        <3> QED
            BY <2>4, <2>5, Zenon
    <2>8. u = [z EXCEPT !.status[d.task] = "running"]
        <3> HIDE DEF v
        <3> QED
            BY <2>1, <2>3, Zenon
    <2>9. z.status = v.status
        BY <1>1, <2>2, Zenon DEF m, SessionType
    <2>10. u = [[v EXCEPT !.runs = runs] EXCEPT !.status = status]
        <3> HIDE DEF z, v, x, y, runs
        <3> QED
            BY <2>4, <2>6, <2>7, <2>8, <2>9, Zenon
    <2>11. u = [[m EXCEPT !.runs = runs] EXCEPT !.status = status]
        <3> HIDE DEF status, runs
        <3> QED
            BY <1>1, <2>10, Zenon DEF m, SessionType
    <2> HIDE DEF runs, status, decisions, maxima
    <2> QED
        BY <2>11, Zenon DEF m
<1> HIDE DEF x
<1>6. /\ decisions \in SUBSET [task : Task, run : Nat] /\ maxima \in [Task -> Nat]
      /\ status \in [Task -> TaskStatus]
    BY <1>1 DEF TaskStatus
<1>7. runs \in Seq(RunType)
    BY <1>1, <1>3, ReplacedRuns
<1> HIDE DEF runs, decisions, maxima, status
<1>8. u \in SessionType
    BY <1>1, <1>5, <1>6, <1>7, ZenonT(60) DEF SessionType
<1>9. /\ u.runs = runs /\ u.decisions = decisions /\ u.status = status /\ u.ops = s.ops
      /\ SameFrame(s, u)
    BY <1>1, <1>5, ZenonT(60) DEF SessionType, SameFrame
<1>10. Decides(s, u, d, x, "running")
    BY <1>1, <1>3, <1>4, <1>9 DEF Decides, ReplacesRun, runs, decisions, status
<1>11. Sound(u)
    <2>1. "running" \in {"failed", "cancelled"} <=> x.status \notin OpenStatus
        BY <1>4 DEF OpenStatus
    <2> QED
        BY <1>8, <1>9, <1>10, <2>1, DecidesSound DEF SameFrame
<1> QED
    BY <1>3, <1>4, <1>9, <1>10, <1>11

\* workflow-resolve-decision: the task is given up.
LEMMA GiveUpDecides ==
    ASSUME NEW s, Sound(s), NEW d \in s.decisions, d.run \in OpenRuns(s),
           NEW how \in {"failed", "cancelled"},
           NEW u, u = GivenUp(s, d, how)
    PROVE  /\ Sound(u) /\ SameFrame(s, u)
           /\ \E x \in RunType : x.status = how /\ Decides(s, u, d, x, how)
<1> DEFINE r == d.run
           x == [s.runs[r] EXCEPT !.status = how]
           runs == [s.runs EXCEPT ![r] = x]
           decisions == s.decisions \ {d}
           status == [s.status EXCEPT ![d.task] = how]
<1>1. /\ s \in SessionType /\ s.runs \in Seq(RunType) /\ r \in DOMAIN s.runs /\ d.task \in Task
      /\ s.status \in [Task -> TaskStatus]
      /\ s.decisions \in SUBSET [task : Task, run : Nat]
    BY Fields DEF Sound
<1>2. s.runs[r] \in RunType
    BY <1>1, RunIsThere
<1>20. how \in OpenStatus \cup {"completed", "failed", "cancelled"}
    OBVIOUS
<1>3. x \in RunType
    BY <1>2, <1>20, Zenon DEF RunType
<1>4. x.task = s.runs[r].task /\ x.round = s.runs[r].round /\ x.gates = s.runs[r].gates
      /\ x.status = how
    BY <1>2, Zenon DEF RunType
<1>5. u = [s EXCEPT !.decisions = decisions, !.runs = runs, !.status = status]
    BY <1>1, <1>2, ZenonT(60) DEF SessionType, GivenUp
<1> HIDE DEF x
<1>6. /\ decisions \in SUBSET [task : Task, run : Nat] /\ status \in [Task -> TaskStatus]
    BY <1>1 DEF TaskStatus
<1>7. runs \in Seq(RunType)
    BY <1>1, <1>3, ReplacedRuns
<1> HIDE DEF runs, decisions, status
<1>8. u \in SessionType
    BY <1>1, <1>5, <1>6, <1>7, ZenonT(60) DEF SessionType
<1>9. /\ u.runs = runs /\ u.decisions = decisions /\ u.status = status /\ u.ops = s.ops
      /\ SameFrame(s, u)
    BY <1>1, <1>5, ZenonT(60) DEF SessionType, SameFrame
<1>10. Decides(s, u, d, x, how)
    BY <1>1, <1>3, <1>4, <1>9 DEF Decides, ReplacesRun, runs, decisions, status
<1>11. Sound(u)
    <2>1. how \in {"failed", "cancelled"} <=> x.status \notin OpenStatus
        BY <1>4 DEF OpenStatus
    <2> QED
        BY <1>8, <1>9, <1>10, <2>1, DecidesSound DEF SameFrame
<1> QED
    BY <1>3, <1>4, <1>9, <1>10, <1>11

\* The clock: an operation has outlived the TTL.
Aged(s, k) == [s EXCEPT !.ops[k].expired = TRUE]

\* An operation that ages is the same operation.
LEMMA ExpireKeeps ==
    ASSUME NEW s, Sound(s), NEW k \in Call, HasOp(s, k), NEW u, u = Aged(s, k)
    PROVE  /\ Sound(u) /\ SameFrame(s, u) /\ SameRuns(s, u)
           /\ u.ops[k].kind = s.ops[k].kind /\ u.ops[k].run = s.ops[k].run
           /\ u.ops[k].round = s.ops[k].round /\ HasOp(u, k)
           /\ \A j \in Call \ {k} : u.ops[j] = s.ops[j]
<1> DEFINE op == [s.ops[k] EXCEPT !.expired = TRUE]
           ops == [s.ops EXCEPT ![k] = op]
<1>1. s \in SessionType /\ s.ops[k] \in OpType /\ s.ops \in [Call -> OpType \cup {NoOp}]
    BY Fields DEF Sound, HasOp
<1>2. op \in OpType
    BY <1>1, Zenon DEF OpType
<1>3. op.kind = s.ops[k].kind /\ op.run = s.ops[k].run /\ op.round = s.ops[k].round
    BY <1>1, Zenon DEF OpType
<1>4. u = [s EXCEPT !.ops = ops]
    BY <1>1, ZenonT(60) DEF SessionType, Aged
<1> HIDE DEF op
<1>5. ops \in [Call -> OpType \cup {NoOp}] /\ ops[k] = op /\ \A j \in Call \ {k} : ops[j] = s.ops[j]
    BY <1>1, <1>2
<1> HIDE DEF ops
<1>6. /\ u \in SessionType /\ u.ops = ops /\ SameFrame(s, u) /\ SameRuns(s, u)
    BY <1>1, <1>4, <1>5, OpsReplaced
<1>7. s.ops[k].run \in 0 .. Len(s.runs)
    BY DEF Sound
<1>8. Sound(u)
    <2>1. u.ops[k].run \in 0 .. Len(s.runs) /\ \A j \in Call \ {k} : u.ops[j] = s.ops[j]
        BY <1>3, <1>5, <1>6, <1>7
    <2> QED
        BY <1>6, <2>1, SoundAdds DEF SameFrame, SameRuns
<1> QED
    BY <1>2, <1>3, <1>5, <1>6, <1>8, NoOpIsNone DEF HasOp

-----------------------------------------------------------------------------
(* The invariant.                                                          *)

\* What an operation knows of its call.  A mutation this process has begun is
\* one the host still runs; a task was dispatched for its run in its round.
Matched(k) ==
    \/ /\ session.ops[k].kind = "mutation" /\ calls[k].kind \in {"edit", "none"}
       /\ k \in live <=> calls[k].state = "running"
    \/ /\ session.ops[k].kind = "task" /\ calls[k].kind \in {"task", "none"}
       /\ calls[k].kind = "task" => /\ calls[k].run = session.ops[k].run
                                    /\ calls[k].round = session.ops[k].round

Inv ==
    /\ Sound(session)
    /\ live \subseteq Call
    /\ calls \in [Call -> CallType]
    /\ archive \in {"none", "deferred", "done"}
    /\ \A k \in Call : HasOp(session, k) => Matched(k)

\* What the host is running, when a call is over or a new one begins.
LEMMA CallFacts ==
    ASSUME NEW k \in Call, calls \in [Call -> CallType]
    PROVE  /\ Over(k) \in [Call -> CallType]
           /\ Over(k)[k].state # "running"
           /\ \A j \in Call \ {k} : Over(k)[j] = calls[j]
           /\ \A kind \in {"task", "verifier", "edit", "commit"}, run \in Nat, round \in Nat :
                LET begun == [calls EXCEPT ![k] = CallRecord(kind, run, round)]
                IN  /\ begun \in [Call -> CallType]
                    /\ begun[k].kind = kind /\ begun[k].state = "running"
                    /\ begun[k].run = run /\ begun[k].round = round
                    /\ \A j \in Call \ {k} : begun[j] = calls[j]
<1>1. NoCall \in CallType /\ NoCall.state = "free"
    BY DEF NoCall, CallType, NoRun
<1>2. calls[k] \in CallType
    OBVIOUS
<1>3. [calls[k] EXCEPT !.state = "over"] \in CallType /\ [calls[k] EXCEPT !.state = "over"].state = "over"
    BY <1>2 DEF CallType
<1>4. /\ Over(k) \in [Call -> CallType]
      /\ Over(k)[k].state # "running"
      /\ \A j \in Call \ {k} : Over(k)[j] = calls[j]
    BY <1>1, <1>3 DEF Over
<1>5. ASSUME NEW kind \in {"task", "verifier", "edit", "commit"}, NEW run \in Nat, NEW round \in Nat
      PROVE  /\ [calls EXCEPT ![k] = CallRecord(kind, run, round)] \in [Call -> CallType]
             /\ CallRecord(kind, run, round).kind = kind
             /\ CallRecord(kind, run, round).state = "running"
             /\ CallRecord(kind, run, round).run = run /\ CallRecord(kind, run, round).round = round
    BY DEF CallRecord, CallType
<1> QED
    BY <1>4, <1>5

-----------------------------------------------------------------------------
(* What a step does to the session.                                        *)

\* The work goes on: runs keep their place, a new one is opened in the loop
\* alone, and then the session may move.
Continues(s, u) ==
    \E m : /\ Sound(m) /\ InPlace(s, m) /\ RunsGoOn(s, m) /\ m.decisions = s.decisions
           /\ DOMAIN m.runs # DOMAIN s.runs => s.stage = LoopStage
           /\ Goes(m, u)

\* Where the work is not touched, it goes on.
LEMMA UntouchedContinues ==
    ASSUME NEW s, NEW m, Sound(m), InPlace(s, m), SameRuns(s, m), NEW u, u = m \/ Goes(m, u)
    PROVE  Continues(s, u)
<1>1. Goes(m, m)
    BY DEF Goes, SameWork
<1>2. RunsGoOn(s, m)
    BY DEF RunsGoOn, SameRuns
<1> QED
    BY <1>1, <1>2 DEF Continues, SameRuns

\* A handler that stays in place keeps the outcome, and so does its hook.
LEMMA InPlaceKeepsOutcome ==
    ASSUME NEW s, NEW m, InPlace(s, m), NEW u, u = m \/ KeepsOutcome(m, u)
    PROVE  KeepsOutcome(s, u)
BY DEF InPlace, KeepsOutcome

\* After a handler that has only changed the plan, the permit or what was
\* answered, with its hook or without.
LEMMA QuietContinues ==
    ASSUME NEW s, NEW m, Sound(m), Quiet(s, m), NEW u, u = m \/ u = AfterTool(m)
    PROVE  Sound(u) /\ Continues(s, u) /\ KeepsOutcome(s, u) /\ u.ops = s.ops
<1>1. Sound(u) /\ (u = m \/ Goes(m, u)) /\ (u = m \/ KeepsOutcome(m, u)) /\ u.ops = m.ops
    BY AfterToolGoes DEF Goes, SameWork
<1>2. InPlace(s, m) /\ SameRuns(s, m) /\ m.ops = s.ops
    BY DEF Quiet, InPlace
<1> QED
    BY <1>1, <1>2, UntouchedContinues, InPlaceKeepsOutcome

\* The plan, and any other tool.
LEMMA PlanSteps ==
    ASSUME Sound(session), AskPlan \/ (\E grant \in BOOLEAN : AnswerPlan(grant)) \/ OtherTool
    PROVE  /\ Sound(session') /\ Continues(session, session') /\ KeepsOutcome(session, session')
           /\ session'.ops = session.ops
<1>1. session \in SessionType /\ session.plan \in BOOLEAN
    BY Zenon DEF Sound, SessionType
<1>2. CASE AskPlan
    <2>1. session' = [session EXCEPT !.approval = "pending", !.plan = TRUE]
        BY <1>2 DEF AskPlan
    <2>2. Sound(session') /\ Quiet(session, session')
        BY <2>1, PlanKeeps
    <2> QED
        BY <2>2, QuietContinues
<1>3. ASSUME NEW grant \in BOOLEAN, AnswerPlan(grant)
      PROVE  /\ Sound(session') /\ Continues(session, session') /\ KeepsOutcome(session, session')
             /\ session'.ops = session.ops
    <2> DEFINE answer == IF grant THEN "granted" ELSE "none"
               m == [session EXCEPT !.approval = answer]
    <2>1. session' = AfterTool(m)
        BY <1>3 DEF AnswerPlan, AfterHook
    <2>2. m = [session EXCEPT !.approval = answer, !.plan = session.plan]
        <3> HIDE DEF answer
        <3> QED
            BY <1>1, ZenonT(60) DEF SessionType
    <2>3. answer \in {"none", "pending", "granted"}
        OBVIOUS
    <2> HIDE DEF m, answer
    <2>4. Sound(m) /\ Quiet(session, m)
        BY <1>1, <2>2, <2>3, PlanKeeps
    <2> QED
        BY <2>1, <2>4, QuietContinues
<1>4. CASE OtherTool
    <2>1. session' = AfterTool(session)
        BY <1>4 DEF OtherTool, AfterHook
    <2>2. Quiet(session, session)
        BY DEF Quiet, SameRuns
    <2> QED
        BY <2>1, <2>2, QuietContinues
<1> QED
    BY <1>2, <1>3, <1>4

\* A call about no task, and a commit.
LEMMA QuietCallSteps ==
    ASSUME Sound(session), NEW k \in Call,
           \/ DispatchVerifier(k) \/ BeginCommit(k)
           \/ \E head \in {"unmoved", "other", "expected"} : FinishCommit(k, head)
    PROVE  /\ Sound(session') /\ Continues(session, session') /\ KeepsOutcome(session, session')
           /\ session'.ops = session.ops
<1>1. session \in SessionType /\ session.receipt \in BOOLEAN
    BY Zenon DEF Sound, SessionType
<1>2. CASE DispatchVerifier(k)
    <2>1. session' = Forget(session, k)
        BY <1>2 DEF DispatchVerifier
    <2>2. Sound(session') /\ Quiet(session, session')
        BY <2>1, ForgetKeeps
    <2> QED
        BY <2>2, QuietContinues
<1>3. CASE BeginCommit(k)
    <2> DEFINE m == Forget(session, k)
               permit == {k}
    <2>1. session' = [m EXCEPT !.permit = permit]
        BY <1>3 DEF BeginCommit
    <2>2. Sound(m) /\ Quiet(session, m)
        BY ForgetKeeps
    <2> HIDE DEF m
    <2>3. m \in SessionType /\ m.receipt \in BOOLEAN
        BY <2>2, Zenon DEF Sound, SessionType
    <2>4. permit \in SUBSET Call
        OBVIOUS
    <2> HIDE DEF permit
    <2>5. session' = [m EXCEPT !.permit = permit, !.receipt = m.receipt]
        BY <2>1, <2>3, ZenonT(60) DEF SessionType
    <2>6. Sound(session') /\ Quiet(m, session')
        BY <2>2, <2>3, <2>4, <2>5, PermitKeeps
    <2>7. Quiet(session, session')
        BY <2>2, <2>6 DEF Quiet, SameRuns
    <2> QED
        BY <2>6, <2>7, QuietContinues
<1>4. ASSUME NEW head \in {"unmoved", "other", "expected"}, FinishCommit(k, head)
      PROVE  /\ Sound(session') /\ Continues(session, session') /\ KeepsOutcome(session, session')
             /\ session'.ops = session.ops
    <2> DEFINE m == HandleCommit(session, k, head)
    <2>1. session' = AfterTool(m)
        BY <1>4 DEF FinishCommit, AfterHook
    <2>2. Sound(m) /\ Quiet(session, m)
        <3>1. CASE m = session
            BY <3>1 DEF Quiet, SameRuns
        <3>2. CASE m # session
            <4> DEFINE receipt == (session.receipt \/ head = "expected")
            <4>1. receipt \in BOOLEAN
                BY <1>1, Zenon
            <4>2. m = [session EXCEPT !.permit = {}, !.receipt = receipt]
                BY <3>2, Zenon DEF HandleCommit
            <4>3. {} \in SUBSET Call
                OBVIOUS
            <4> HIDE DEF receipt, m
            <4> QED
                BY <4>1, <4>2, <4>3, PermitKeeps
        <3> QED
            BY <3>1, <3>2
    <2> HIDE DEF m
    <2> QED
        BY <2>1, <2>2, QuietContinues
<1> QED
    BY <1>2, <1>3, <1>4

\* A task is dispatched: the call works on the run it names, which is running.
LEMMA DispatchStep ==
    ASSUME Sound(session), NEW k \in Call, NEW t \in Task, NEW agent \in Agent, DispatchTask(k, t, agent)
    PROVE  /\ Sound(session') /\ Continues(session, session') /\ KeepsOutcome(session, session')
           /\ \A j \in Call \ {k} : session'.ops[j] = session.ops[j]
           /\ HasOp(session', k) /\ session'.ops[k].kind = "task" /\ ~ session'.ops[k].expired
           /\ session'.ops[k].run \in OpenRuns(session')
           /\ session'.runs[session'.ops[k].run].status = "running"
           /\ session'.ops[k].round = session'.runs[session'.ops[k].run].round
           /\ calls' = [calls EXCEPT ![k] = CallRecord("task", session'.ops[k].run, session'.ops[k].round)]
<1>1. session.stage = LoopStage /\ t \in session.list
    BY DEF DispatchTask
<1>2. CASE DispatchNext(k, t, agent)
    <2> DEFINE s == OpenRun(session, t)
               r == Len(s.runs)
               new == [task |-> t, stage |-> FirstLoopStage, status |-> "running",
                       gates |-> NoGates, round |-> 0, checks |-> "none"]
    <2>1. t \in Runnable(session) /\ OpenRuns(session) = {}
        BY <1>2 DEF DispatchNext, SerialAdmits
    <2>2. session' = Dispatch(s, k, r, agent) /\ calls' = [calls EXCEPT ![k] = CallRecord("task", r, 0)]
        BY <1>2 DEF DispatchNext
    <2>3. new.status = "running" /\ new.round = 0
        OBVIOUS
    <2> HIDE DEF s
    <2>4. /\ Sound(s) /\ SameFrame(session, s) /\ s.ops = session.ops /\ s.decisions = session.decisions
          /\ r = Len(session.runs) + 1
          /\ DOMAIN s.runs = DOMAIN session.runs \cup {Len(session.runs) + 1}
          /\ OpenRuns(s) = {Len(session.runs) + 1} /\ s.runs[Len(session.runs) + 1] = new
        BY <1>1, <2>1, OpenRunOpens DEF s
    <2> HIDE DEF new
    <2>5. RunsGoOn(session, s)
        BY <2>1, OpenRunGoesOn DEF s
    <2> HIDE DEF r
    <2>6. r \in DOMAIN s.runs /\ r \in OpenRuns(s) /\ s.runs[r].status = "running" /\ s.runs[r].round = 0
        BY <2>3, <2>4
    <2>7. /\ Sound(session') /\ InPlace(s, session') /\ SameRuns(s, session') /\ HasOp(session', k)
          /\ session'.ops[k].kind = "task" /\ session'.ops[k].run = r
          /\ session'.ops[k].round = s.runs[r].round
          /\ ~ session'.ops[k].expired
          /\ \A j \in Call \ {k} : session'.ops[j] = s.ops[j]
        BY <2>2, <2>4, <2>6, DispatchDispatches
    <2>8. RunsGoOn(session, session') /\ DOMAIN session'.runs = DOMAIN s.runs
        BY <2>5, <2>7 DEF RunsGoOn, SameRuns
    <2>9. InPlace(session, session') /\ session'.decisions = session.decisions
        BY <2>4, <2>7 DEF InPlace, SameFrame, SameRuns
    <2>10. Goes(session', session')
        BY DEF Goes, SameWork
    <2>11. Continues(session, session') /\ KeepsOutcome(session, session')
        BY <1>1, <2>7, <2>8, <2>9, <2>10, InPlaceKeepsOutcome DEF Continues
    <2>12. session'.runs = s.runs /\ OpenRuns(session') = OpenRuns(s)
        BY <2>7 DEF SameRuns, OpenRuns
    <2> QED
        BY <2>2, <2>4, <2>6, <2>7, <2>11, <2>12
<1>3. CASE DispatchAgain(k, t, agent)
    <2>1. PICK r \in OpenRunOf(t) :
            /\ session.runs[r].status = "running"
            /\ session' = Dispatch(session, k, r, agent)
            /\ calls' = [calls EXCEPT ![k] = CallRecord("task", r, session.runs[r].round)]
        BY <1>3 DEF DispatchAgain
    <2>2. r \in OpenRuns(session) /\ r \in DOMAIN session.runs
        BY DEF OpenRunOf, OpenRuns
    <2>3. /\ Sound(session') /\ InPlace(session, session') /\ SameRuns(session, session')
          /\ HasOp(session', k) /\ session'.ops[k].kind = "task" /\ session'.ops[k].run = r
          /\ session'.ops[k].round = session.runs[r].round
          /\ ~ session'.ops[k].expired
          /\ \A j \in Call \ {k} : session'.ops[j] = session.ops[j]
        BY <2>1, <2>2, DispatchDispatches
    <2>4. Continues(session, session') /\ KeepsOutcome(session, session')
        BY <2>3, UntouchedContinues, InPlaceKeepsOutcome
    <2>5. session'.runs = session.runs /\ OpenRuns(session') = OpenRuns(session)
        BY <2>3 DEF SameRuns, OpenRuns
    <2> QED
        BY <2>1, <2>2, <2>3, <2>4, <2>5
<1> QED
    BY <1>2, <1>3 DEF DispatchTask

\* An edit begins: what it drops was dead, or had outlived the TTL.
LEMMA BeginEditStep ==
    ASSUME Sound(session), NEW k \in Call, BeginEdit(k)
    PROVE  /\ Sound(session') /\ Continues(session, session') /\ KeepsOutcome(session, session')
           /\ \A j \in Call \ {k} : HasOp(session', j) =>
                HasOp(session, j) /\ session'.ops[j] = session.ops[j]
           /\ \A j \in Call \ {k} : HasOp(session, j) /\ ~ HasOp(session', j) =>
                (session.ops[j].kind = "mutation" /\ j \notin live) \/ session.ops[j].expired
           /\ HasOp(session', k) /\ session'.ops[k].kind = "mutation" /\ ~ session'.ops[k].expired
<1> DEFINE s == Unlocked(session, live, k)
           m == Forget(s, k)
<1>1. ~ HasOp(session, k) /\ session.stage = LoopStage
    BY DEF BeginEdit, Unused, EditDeclared
<1>2. session' = BeginMutation(m, k)
    BY DEF BeginEdit
<1>3. /\ Sound(s) /\ OpsOf(session, s) /\ SameFrame(session, s) /\ SameRuns(session, s)
      /\ \A j \in Call : HasOp(s, j) <=> /\ HasOp(session, j)
                                         /\ session.ops[j].kind = "mutation" => j \in live
                                         /\ ~ session.ops[j].expired
      /\ \A j \in Call : HasOp(s, j) => s.ops[j] = session.ops[j]
    BY <1>1, UnlockedKeeps
<1> HIDE DEF s
<1>4. Sound(m) /\ Quiet(s, m)
    BY <1>3, ForgetKeeps
<1> HIDE DEF m
<1>5. ~ HasOp(m, k) /\ m.ops = s.ops
    BY <1>1, <1>3, <1>4 DEF Quiet, HasOp
<1>6. /\ Sound(session') /\ SameFrame(m, session') /\ RunsGoOn(m, session')
      /\ session'.decisions = m.decisions
      /\ HasOp(session', k) /\ session'.ops[k].kind = "mutation" /\ ~ session'.ops[k].expired
      /\ \A j \in Call \ {k} : session'.ops[j] = m.ops[j]
    BY <1>2, <1>4, <1>5, BeginMutationBegins
<1>7. m.runs = session.runs /\ m.status = session.status /\ m.list = session.list
    BY <1>3, <1>4 DEF SameRuns, SameFrame, Quiet
<1>8. RunsGoOn(session, session')
    <2>1. OpenRuns(m) = OpenRuns(session) /\ Runnable(m) = Runnable(session)
        BY <1>7 DEF OpenRuns, Runnable
    <2> QED
        BY <1>6, <1>7, <2>1 DEF RunsGoOn
<1>9. InPlace(session, session') /\ session'.decisions = session.decisions
    BY <1>3, <1>4, <1>6 DEF InPlace, SameFrame, SameRuns, Quiet
<1>10. Goes(session', session')
    BY DEF Goes, SameWork
<1>11. Continues(session, session') /\ KeepsOutcome(session, session')
    BY <1>1, <1>6, <1>8, <1>9, <1>10, InPlaceKeepsOutcome DEF Continues
<1>12. \A j \in Call \ {k} : HasOp(session', j) <=> HasOp(s, j)
    BY <1>5, <1>6 DEF HasOp
<1> QED
    BY <1>3, <1>5, <1>6, <1>11, <1>12

\* A mutation, or whatever had this call for its own, ends.
LEMMA EndSteps ==
    ASSUME Sound(session), NEW k \in Call,
           \/ \E checks \in Verdict : FinishEdit(k, checks)
           \/ ToolFailure(k)
    PROVE  /\ Sound(session') /\ Continues(session, session')
           /\ ToolFailure(k) => KeepsOutcome(session, session')
           /\ ~ HasOp(session', k) /\ \A j \in Call \ {k} : session'.ops[j] = session.ops[j]
<1>0. Verdict \subseteq Checks
    BY DEF Checks
<1>1. ASSUME NEW checks \in Verdict, FinishEdit(k, checks)
      PROVE  /\ Sound(session') /\ Continues(session, session')
             /\ ~ HasOp(session', k) /\ \A j \in Call \ {k} : session'.ops[j] = session.ops[j]
    <2>1. session' = AfterTool(FinishMutation(session, k, checks))
        BY <1>1 DEF FinishEdit, AfterHook
    <2>2. PICK m : /\ Sound(m) /\ SameFrame(session, m) /\ RunsGoOn(session, m)
                   /\ m.decisions = session.decisions /\ DOMAIN m.runs = DOMAIN session.runs
                   /\ ~ HasOp(m, k) /\ \A j \in Call \ {k} : m.ops[j] = session.ops[j]
                   /\ Goes(m, session') /\ Sound(session')
        BY <1>0, <2>1, FinishMutationGoes
    <2>3. Continues(session, session')
        BY <2>2 DEF Continues, InPlace, SameFrame
    <2>4. session'.ops = m.ops
        BY <2>2 DEF Goes, SameWork
    <2> QED
        BY <2>2, <2>3, <2>4 DEF HasOp
<1>2. ASSUME ToolFailure(k)
      PROVE  /\ Sound(session') /\ Continues(session, session') /\ KeepsOutcome(session, session')
             /\ ~ HasOp(session', k) /\ \A j \in Call \ {k} : session'.ops[j] = session.ops[j]
    <2>1. session' = FinishOperation(session, k, "failed") /\ "failed" \in Checks
        BY <1>2 DEF ToolFailure, Checks, Verdict
    <2>2. /\ Sound(session') /\ SameFrame(session, session') /\ RunsGoOn(session, session')
          /\ session'.decisions = session.decisions /\ DOMAIN session'.runs = DOMAIN session.runs
          /\ ~ HasOp(session', k) /\ \A j \in Call \ {k} : session'.ops[j] = session.ops[j]
        BY <2>1, FinishOperationEnds
    <2>3. InPlace(session, session') /\ Goes(session', session')
        BY <2>2 DEF Goes, SameWork, InPlace, SameFrame
    <2>4. Continues(session, session') /\ KeepsOutcome(session, session')
        BY <2>2, <2>3, InPlaceKeepsOutcome DEF Continues
    <2> QED
        BY <2>2, <2>4
<1> QED
    BY <1>1, <1>2

\* A call fails, or ages.
LEMMA FailureSteps ==
    ASSUME Sound(session), NEW k \in Call, ErrorEvent(k) \/ Expire(k)
    PROVE  /\ Sound(session') /\ Continues(session, session') /\ KeepsOutcome(session, session')
           /\ \A j \in Call \ {k} : session'.ops[j] = session.ops[j]
           /\ HasOp(session', k) => /\ HasOp(session, k)
                                    /\ session'.ops[k].kind = session.ops[k].kind
                                    /\ session'.ops[k].run = session.ops[k].run
                                    /\ session'.ops[k].round = session.ops[k].round
           /\ ErrorEvent(k) => /\ k \in live => ~ HasOp(session', k)
                               /\ HasOp(session', k) => session'.ops[k].expired = session.ops[k].expired
           /\ Expire(k) => HasOp(session', k)
<1>1. ASSUME ErrorEvent(k)
      PROVE  /\ Sound(session') /\ SameFrame(session, session') /\ SameRuns(session, session')
             /\ OpsOf(session, session')
             /\ \A j \in Call \ {k} : session'.ops[j] = session.ops[j]
             /\ k \in live => ~ HasOp(session', k)
    <2>1. session' = MarkInterrupted(ClearOnError(session, live, k), k)
        BY <1>1 DEF ErrorEvent
    <2> QED
        BY <2>1, InterruptKeeps
<1>2. ASSUME Expire(k)
      PROVE  /\ Sound(session') /\ SameFrame(session, session') /\ SameRuns(session, session')
             /\ session'.ops[k].kind = session.ops[k].kind /\ session'.ops[k].run = session.ops[k].run
             /\ session'.ops[k].round = session.ops[k].round
             /\ HasOp(session', k) /\ HasOp(session, k)
             /\ \A j \in Call \ {k} : session'.ops[j] = session.ops[j]
    <2>1. session' = Aged(session, k) /\ HasOp(session, k)
        BY <1>2 DEF Expire, Aged
    <2> QED
        BY <2>1, ExpireKeeps
<1>3. Sound(session') /\ InPlace(session, session') /\ SameRuns(session, session')
    BY <1>1, <1>2 DEF InPlace, SameFrame
<1>4. Continues(session, session') /\ KeepsOutcome(session, session')
    BY <1>3, UntouchedContinues, InPlaceKeepsOutcome
<1> QED
    BY <1>1, <1>2, <1>3, <1>4 DEF OpsOf

\* The answer of a task's call: a verdict that counts or not, then the hook.
LEMMA ReturnStep ==
    ASSUME Sound(session), NEW k \in Call, NEW report \in Reports, NEW checks \in Checks,
           Return(k, report, checks)
    PROVE  /\ Sound(session') /\ KeepsOutcome(session, session')
           /\ ~ HasOp(session', k) /\ \A j \in Call \ {k} : session'.ops[j] = session.ops[j]
           /\ \E m : /\ Sound(m) /\ Judges(session, m, k) /\ m.stage = session.stage
                     /\ m.list = session.list /\ Goes(m, session')
<1> DEFINE m == SettleResult(session, k, report, checks)
<1>1. session' = AfterTool(m)
    BY DEF Return, AfterHook
<1>2. /\ Sound(m) /\ Judges(session, m, k)
      /\ m.stage = session.stage /\ m.list = session.list /\ m.outcome = session.outcome
      /\ ~ HasOp(m, k) /\ \A j \in Call \ {k} : m.ops[j] = session.ops[j]
    BY SettleResultSettles
<1> HIDE DEF m
<1>3. Sound(session') /\ Goes(m, session') /\ KeepsOutcome(m, session')
    BY <1>1, <1>2, AfterToolGoes
<1>4. KeepsOutcome(session, session')
    BY <1>2, <1>3 DEF KeepsOutcome
<1>5. session'.ops = m.ops
    BY <1>3 DEF Goes, SameWork
<1> QED
    BY <1>2, <1>3, <1>4, <1>5 DEF HasOp

\* The list is replaced only where no run is open.
Relists(s, u) ==
    /\ OpenRuns(s) = {} /\ u.runs = s.runs /\ u.decisions = s.decisions /\ u.ops = s.ops
    /\ u.stage = s.stage /\ u.gates = s.gates /\ u.outcome = s.outcome

\* Setting the tasks is such a step.
LEMMA SetTasksStep ==
    ASSUME Sound(session), NEW n \in 0 .. Cardinality(Task), SetTasks(n)
    PROVE  Sound(session') /\ Relists(session, session')
<1> DEFINE last == IF session.list = {} THEN 0
                   ELSE CHOOSE t \in session.list : \A u \in session.list : u <= t
           fresh == (last + 1) .. (last + n)
           status == [t \in Task |-> IF t \in fresh THEN "pending" ELSE session.status[t]]
<1>1. session \in SessionType /\ session.status \in [Task -> TaskStatus]
    BY Fields DEF Sound
<1>2. /\ OpenRuns(session) = {} /\ fresh \in SUBSET Task
      /\ session' = [session EXCEPT !.list = fresh,
                                    !.status = [t \in Task |-> IF t \in fresh THEN "pending"
                                                               ELSE @[t]]]
    BY DEF SetTasks
<1> HIDE DEF fresh
<1>3. status \in [Task -> TaskStatus]
    BY <1>1 DEF TaskStatus
<1>4. session' = [session EXCEPT !.list = fresh, !.status = status]
    BY <1>1, <1>2, ZenonT(60) DEF SessionType
<1>40. session' = Relisted(session, fresh, status)
    BY <1>4 DEF Relisted
<1> HIDE DEF status
<1>5. OpenRuns(session) = {} /\ fresh \in SUBSET Task
    BY <1>2
<1>6. /\ Sound(session') /\ session'.runs = session.runs /\ session'.decisions = session.decisions
      /\ session'.ops = session.ops /\ session'.stage = session.stage
      /\ session'.gates = session.gates /\ session'.outcome = session.outcome
    BY <1>3, <1>40, <1>5, ListReplaced
<1> QED
    BY <1>5, <1>6 DEF Relists

\* The controller sets a task's status, and closes what it stops.
Loosens(s, u) ==
    /\ SameFrame(s, u) /\ OpsOf(s, u) /\ u.decisions = s.decisions
    /\ DOMAIN u.runs = DOMAIN s.runs
    /\ \A r \in DOMAIN s.runs :
         /\ u.runs[r].task = s.runs[r].task /\ u.runs[r].round = s.runs[r].round
         /\ u.runs[r].gates = s.runs[r].gates
         /\ u.runs[r].status \in {s.runs[r].status, "cancelled"}
    /\ \A j \in Call : HasOp(s, j) /\ ~ HasOp(u, j) => u.runs[s.ops[j].run].status = "cancelled"

\* Setting the status of one task is such a step.
LEMMA SetTaskStatusStep ==
    ASSUME Sound(session), NEW t \in Task, NEW status \in TaskStatus, SetTaskStatus(t, status)
    PROVE  Sound(session') /\ Loosens(session, session')
<1> DEFINE now == [session.status EXCEPT ![t] = status]
           m == [session EXCEPT !.status = now]
<1>1. session \in SessionType /\ session.status \in [Task -> TaskStatus]
    BY Fields DEF Sound
<1>2. session' = IF status \in {"cancelled", "failed"} THEN CloseExecution(m, t) ELSE m
    BY DEF SetTaskStatus
<1>3. /\ now \in [Task -> TaskStatus] /\ now[t] = status
      /\ \A q \in Task \ {t} : now[q] = session.status[q]
    BY <1>1
<1> HIDE DEF now
<1>4. CASE status \in {"cancelled", "failed"}
    <2>1. session' = CloseExecution(m, t)
        BY <1>2, <1>4
    <2>2. /\ Sound(session') /\ SameFrame(session, session') /\ OpsOf(session, session')
          /\ Closes(session, session', t) /\ session'.decisions = session.decisions
        BY <1>3, <2>1, CloseExecutionCloses
    <2> QED
        BY <2>2 DEF Loosens, Closes
<1>5. CASE status \notin {"cancelled", "failed"}
    <2>1. session' = m
        BY <1>2, <1>5
    <2>2. m \in SessionType
        BY <1>1, <1>3, ZenonT(60) DEF SessionType
    <2>3. SameFrame(session, m) /\ m.runs = session.runs /\ m.decisions = session.decisions
          /\ m.ops = session.ops /\ m.status = now
        BY <1>1, ZenonT(60) DEF SessionType, SameFrame
    <2> HIDE DEF m
    <2>4. OpsOf(session, m)
        BY <2>3 DEF OpsOf, HasOp
    <2>5. \A q \in Task : m.status[q] # session.status[q] => m.status[q] \notin {"failed", "cancelled"}
        <3>1. m.status[t] \notin {"failed", "cancelled"}
            BY <1>3, <1>5, <2>3
        <3>2. \A q \in Task \ {t} : m.status[q] = session.status[q]
            BY <1>3, <2>3
        <3> QED
            BY <3>1, <3>2
    <2>6. Sound(m)
        BY <2>2, <2>3, <2>4, <2>5, SoundKept DEF SameFrame
    <2>7. Loosens(session, m)
        BY <2>3, <2>4 DEF Loosens, HasOp
    <2> QED
        BY <2>1, <2>6, <2>7
<1> QED
    BY <1>4, <1>5

\* The operator decides on a task that waits: its run goes on or is closed.
Resolves(s, u) ==
    /\ SameFrame(s, u)
    /\ \E d \in s.decisions, x \in RunType :
         /\ s.runs[d.run].status = "awaiting_decision"
         /\ x.status \in {"running", "failed", "cancelled"}
         /\ Decides(s, u, d, x, x.status)

\* More retries, and giving up, are such steps.
LEMMA DecisionSteps ==
    ASSUME Sound(session), NEW d \in session.decisions,
           \/ \E maximum \in 1 .. MaxMaximum : IncreaseRetries(d, maximum)
           \/ \E how \in {"failed", "cancelled"} : GiveUp(d, how)
    PROVE  Sound(session') /\ Resolves(session, session')
<1>1. d.run \in DOMAIN session.runs
    BY DEF Sound
<1>2. /\ session.runs[d.run].status = "awaiting_decision"
    BY DEF IncreaseRetries, GiveUp, Resolvable
<1>3. d.run \in OpenRuns(session)
    BY <1>1, <1>2 DEF OpenRuns, OpenStatus
<1>4. ASSUME NEW maximum \in 1 .. MaxMaximum, IncreaseRetries(d, maximum)
      PROVE  Sound(session') /\ Resolves(session, session')
    <2>1. session' = Granted(session, d, maximum)
        BY <1>4, Zenon DEF IncreaseRetries, Resolved, Granted
    <2>2. maximum \in Nat
        OBVIOUS
    <2>3. /\ Sound(session') /\ SameFrame(session, session')
          /\ \E x \in RunType : x.status = "running" /\ Decides(session, session', d, x, "running")
        BY <1>3, <2>1, <2>2, IncreaseRetriesDecides
    <2> QED
        BY <1>2, <2>3 DEF Resolves
<1>5. ASSUME NEW how \in {"failed", "cancelled"}, GiveUp(d, how)
      PROVE  Sound(session') /\ Resolves(session, session')
    <2>1. session' = GivenUp(session, d, how)
        BY <1>5, Zenon DEF GiveUp, Resolved, GivenUp
    <2>2. /\ Sound(session') /\ SameFrame(session, session')
          /\ \E x \in RunType : x.status = how /\ Decides(session, session', d, x, how)
        BY <1>3, <2>1, GiveUpDecides
    <2> QED
        BY <1>2, <2>2 DEF Resolves
<1> QED
    BY <1>4, <1>5

-----------------------------------------------------------------------------
(* The invariant is kept.                                                  *)

\* Only the call k may have another operation, or be another call.
OnlyCall(k) ==
    \A j \in Call \ {k} :
        /\ calls'[j] = calls[j] /\ (j \in live' <=> j \in live)
        /\ HasOp(session', j) => /\ HasOp(session, j)
                                 /\ session'.ops[j].kind = session.ops[j].kind
                                 /\ session'.ops[j].run = session.ops[j].run
                                 /\ session'.ops[j].round = session.ops[j].round

\* Then the others are matched as they were.
LEMMA OthersMatched ==
    ASSUME Inv, NEW k \in Call, OnlyCall(k), HasOp(session', k) => Matched(k)'
    PROVE  \A j \in Call : HasOp(session', j) => Matched(j)'
<1> SUFFICES ASSUME NEW j \in Call \ {k}, HasOp(session', j)
             PROVE  Matched(j)'
    OBVIOUS
<1>1. HasOp(session, j) /\ Matched(j)
    BY DEF Inv, OnlyCall
<1> QED
    BY <1>1 DEF OnlyCall, Matched

\* A call that is not known has no operation a call of its name could be
\* taken for.
LEMMA NoOpOf ==
    ASSUME Inv, NEW k \in Call, calls[k].kind \in {"verifier", "commit"}
    PROVE  ~ HasOp(session, k)
BY DEF Inv, Matched

\* Every call of the host keeps the invariant.
LEMMA CallStepInv ==
    ASSUME Inv, NEW k \in Call, CallStep(k)
    PROVE  Inv'
<1> USE DEF Inv
<1>0. ASSUME NEW j \in Call, HasOp(session, j)
      PROVE  session.ops[j].run \in Nat /\ session.ops[j].round \in Nat
    <2>1. session.ops[j] \in OpType
        BY <1>0, Fields DEF Sound, HasOp
    <2> QED
        BY <2>1, Zenon DEF OpType
<1>1. ASSUME NEW t \in Task, NEW agent \in Agent, DispatchTask(k, t, agent)
      PROVE  Inv'
    <2>1. /\ Sound(session')
          /\ \A j \in Call \ {k} : session'.ops[j] = session.ops[j]
          /\ HasOp(session', k) /\ session'.ops[k].kind = "task"
          /\ session'.ops[k].run \in OpenRuns(session')
          /\ session'.ops[k].round = session'.runs[session'.ops[k].run].round
          /\ calls' = [calls EXCEPT ![k] = CallRecord("task", session'.ops[k].run, session'.ops[k].round)]
        BY <1>1, DispatchStep
    <2>2. session'.ops[k].run \in Nat /\ session'.ops[k].round \in Nat
        BY <2>1, RunIsThere DEF Sound, OpenRuns
    <2>3. /\ calls' \in [Call -> CallType] /\ calls'[k].kind = "task" /\ calls'[k].state = "running"
          /\ calls'[k].run = session'.ops[k].run /\ calls'[k].round = session'.ops[k].round
          /\ \A j \in Call \ {k} : calls'[j] = calls[j]
        <3> DEFINE run == session'.ops[k].run
                   round == session'.ops[k].round
                   begun == [calls EXCEPT ![k] = CallRecord("task", run, round)]
        <3>1. run \in Nat /\ round \in Nat /\ calls' = begun /\ calls \in [Call -> CallType]
            BY <2>1, <2>2 DEF Inv
        <3> HIDE DEF run, round
        <3>2. /\ begun \in [Call -> CallType] /\ begun[k].kind = "task" /\ begun[k].state = "running"
              /\ begun[k].run = run /\ begun[k].round = round
              /\ \A j \in Call \ {k} : begun[j] = calls[j]
            BY <3>1, CallFacts
        <3> HIDE DEF begun
        <3> QED
            BY <3>1, <3>2 DEF run, round
    <2>4. live' = live /\ archive' = archive
        BY <1>1 DEF DispatchTask
    <2>5. OnlyCall(k) /\ Matched(k)'
        BY <2>1, <2>3, <2>4 DEF OnlyCall, Matched, HasOp
    <2> QED
        BY <2>1, <2>3, <2>4, <2>5, OthersMatched
<1>2. ASSUME DispatchVerifier(k) \/ BeginCommit(k)
      PROVE  Inv'
    <2>1. Sound(session') /\ session'.ops = session.ops
        BY <1>2, QuietCallSteps
    <2>2. /\ live' = live /\ archive' = archive /\ ~ HasOp(session, k)
          /\ \E kind \in {"verifier", "commit"} : calls' = [calls EXCEPT ![k] = CallRecord(kind, NoRun, 0)]
        BY <1>2 DEF DispatchVerifier, BeginCommit, Unused
    <2>3. /\ calls' \in [Call -> CallType] /\ \A j \in Call \ {k} : calls'[j] = calls[j]
        BY <2>2, CallFacts DEF NoRun
    <2>4. OnlyCall(k) /\ ~ HasOp(session', k)
        BY <2>1, <2>2, <2>3 DEF OnlyCall, HasOp
    <2> QED
        BY <2>1, <2>2, <2>3, <2>4, OthersMatched
<1>3. ASSUME NEW report \in Reports, NEW checks \in Checks, Return(k, report, checks)
      PROVE  Inv'
    <2>1. /\ Sound(session') /\ ~ HasOp(session', k)
          /\ \A j \in Call \ {k} : session'.ops[j] = session.ops[j]
        BY <1>3, ReturnStep
    <2>2. calls' = Over(k) /\ live' = live /\ archive' \in {"none", "deferred", "done"}
        BY <1>3 DEF Return, AfterHook
    <2>3. calls' \in [Call -> CallType] /\ \A j \in Call \ {k} : calls'[j] = calls[j]
        BY <2>2, CallFacts
    <2>4. OnlyCall(k)
        BY <2>1, <2>2, <2>3 DEF OnlyCall, HasOp
    <2> QED
        BY <2>1, <2>2, <2>3, <2>4, OthersMatched
<1>4. ASSUME BeginEdit(k)
      PROVE  Inv'
    <2>1. /\ Sound(session')
          /\ \A j \in Call \ {k} : HasOp(session', j) =>
               HasOp(session, j) /\ session'.ops[j] = session.ops[j]
          /\ HasOp(session', k) /\ session'.ops[k].kind = "mutation"
        BY <1>4, BeginEditStep
    <2>2. live' = live \cup {k} /\ calls' = [calls EXCEPT ![k] = CallRecord("edit", NoRun, 0)]
          /\ archive' = archive
        BY <1>4 DEF BeginEdit
    <2>3. /\ calls' \in [Call -> CallType] /\ calls'[k].kind = "edit" /\ calls'[k].state = "running"
          /\ \A j \in Call \ {k} : calls'[j] = calls[j]
        BY <2>2, CallFacts DEF NoRun
    <2>4. OnlyCall(k) /\ Matched(k)'
        BY <2>1, <2>2, <2>3 DEF OnlyCall, Matched
    <2> QED
        BY <2>1, <2>2, <2>3, <2>4, OthersMatched
<1>5. ASSUME NEW checks \in Verdict, FinishEdit(k, checks)
      PROVE  Inv'
    <2>1. /\ Sound(session') /\ ~ HasOp(session', k)
          /\ \A j \in Call \ {k} : session'.ops[j] = session.ops[j]
        BY <1>5, EndSteps
    <2>2. calls' = Over(k) /\ live' = live \ {k} /\ archive' \in {"none", "deferred", "done"}
        BY <1>5 DEF FinishEdit, AfterHook
    <2>3. calls' \in [Call -> CallType] /\ \A j \in Call \ {k} : calls'[j] = calls[j]
        BY <2>2, CallFacts
    <2>4. OnlyCall(k)
        BY <2>1, <2>2, <2>3 DEF OnlyCall, HasOp
    <2> QED
        BY <2>1, <2>2, <2>3, <2>4, OthersMatched
<1>6. ASSUME NEW head \in {"unmoved", "other", "expected"}, FinishCommit(k, head)
      PROVE  Inv'
    <2>1. Sound(session') /\ session'.ops = session.ops
        BY <1>6, QuietCallSteps
    <2>2. calls' = Over(k) /\ live' = live /\ archive' \in {"none", "deferred", "done"}
          /\ calls[k].kind = "commit"
        BY <1>6 DEF FinishCommit, AfterHook
    <2>3. calls' \in [Call -> CallType] /\ \A j \in Call \ {k} : calls'[j] = calls[j]
        BY <2>2, CallFacts
    <2>4. OnlyCall(k) /\ ~ HasOp(session', k)
        BY <2>1, <2>2, <2>3, NoOpOf DEF OnlyCall, HasOp
    <2> QED
        BY <2>1, <2>2, <2>3, <2>4, OthersMatched
<1>7. ASSUME ErrorEvent(k)
      PROVE  Inv'
    <2>1. /\ Sound(session')
          /\ k \in live => ~ HasOp(session', k)
          /\ \A j \in Call \ {k} : session'.ops[j] = session.ops[j]
          /\ HasOp(session', k) => /\ HasOp(session, k)
                                   /\ session'.ops[k].kind = session.ops[k].kind
                                   /\ session'.ops[k].run = session.ops[k].run
                                   /\ session'.ops[k].round = session.ops[k].round
        BY <1>7, FailureSteps
    <2>2. /\ calls' = [calls EXCEPT ![k].state = "failed"] /\ live' = live \ {k} /\ archive' = archive
        BY <1>7 DEF ErrorEvent
    <2>3. [calls[k] EXCEPT !.state = "failed"] \in CallType
        BY DEF CallType
    <2>4. /\ calls' \in [Call -> CallType] /\ \A j \in Call \ {k} : calls'[j] = calls[j]
          /\ calls'[k].kind = calls[k].kind /\ calls'[k].state = "failed"
          /\ calls'[k].run = calls[k].run /\ calls'[k].round = calls[k].round
        BY <2>2, <2>3 DEF CallType
    <2>5. OnlyCall(k) /\ (HasOp(session', k) => Matched(k)')
        BY <2>1, <2>2, <2>4 DEF OnlyCall, HasOp, Matched
    <2> QED
        BY <2>1, <2>2, <2>4, <2>5, OthersMatched
<1>8. ASSUME ToolFailure(k)
      PROVE  Inv'
    <2>1. /\ Sound(session') /\ ~ HasOp(session', k)
          /\ \A j \in Call \ {k} : session'.ops[j] = session.ops[j]
        BY <1>8, EndSteps
    <2>2. calls' = Over(k) /\ live' = live /\ archive' = archive
        BY <1>8 DEF ToolFailure
    <2>3. calls' \in [Call -> CallType] /\ \A j \in Call \ {k} : calls'[j] = calls[j]
        BY <2>2, CallFacts
    <2>4. OnlyCall(k)
        BY <2>1, <2>2, <2>3 DEF OnlyCall, HasOp
    <2> QED
        BY <2>1, <2>2, <2>3, <2>4, OthersMatched
<1>9. ASSUME Expire(k)
      PROVE  Inv'
    <2>1. /\ Sound(session')
          /\ \A j \in Call \ {k} : session'.ops[j] = session.ops[j]
          /\ HasOp(session', k) => /\ HasOp(session, k)
                                   /\ session'.ops[k].kind = session.ops[k].kind
                                   /\ session'.ops[k].run = session.ops[k].run
                                   /\ session'.ops[k].round = session.ops[k].round
        BY <1>9, FailureSteps
    <2>2. calls' = calls /\ live' = live /\ archive' = archive
        BY <1>9 DEF Expire
    <2>3. OnlyCall(k) /\ (HasOp(session', k) => Matched(k)')
        BY <2>1, <2>2 DEF OnlyCall, HasOp, Matched
    <2> QED
        BY <2>1, <2>2, <2>3, OthersMatched
<1> QED
    BY <1>1, <1>2, <1>3, <1>4, <1>5, <1>6, <1>7, <1>8, <1>9 DEF CallStep

\* What only the session sees keeps it.
LEMMA ControllerStepInv ==
    ASSUME Inv, ControllerStep
    PROVE  Inv'
<1> USE DEF Inv
<1>1. CASE AskPlan \/ (\E grant \in BOOLEAN : AnswerPlan(grant)) \/ OtherTool
    <2>1. Sound(session') /\ session'.ops = session.ops
        BY <1>1, PlanSteps
    <2>2. calls' = calls /\ live' = live /\ archive' \in {"none", "deferred", "done"}
        BY <1>1 DEF AskPlan, AnswerPlan, OtherTool, AfterHook
    <2> QED
        BY <2>1, <2>2 DEF Matched, HasOp
<1>2. ASSUME NEW n \in 0 .. Cardinality(Task), SetTasks(n)
      PROVE  Inv'
    <2>1. Sound(session') /\ session'.ops = session.ops
        BY <1>2, SetTasksStep DEF Relists
    <2>2. calls' = calls /\ live' = live /\ archive' = archive
        BY <1>2 DEF SetTasks
    <2> QED
        BY <2>1, <2>2 DEF Matched, HasOp
<1>3. ASSUME NEW t \in Task, NEW status \in TaskStatus, SetTaskStatus(t, status)
      PROVE  Inv'
    <2>1. Sound(session') /\ OpsOf(session, session')
        BY <1>3, SetTaskStatusStep DEF Loosens
    <2>2. calls' = calls /\ live' = live /\ archive' = archive
        BY <1>3 DEF SetTaskStatus
    <2> QED
        BY <2>1, <2>2 DEF Matched, OpsOf
<1>4. ASSUME NEW d \in session.decisions,
             \/ \E maximum \in 1 .. MaxMaximum : IncreaseRetries(d, maximum)
             \/ \E how \in {"failed", "cancelled"} : GiveUp(d, how)
      PROVE  Inv'
    <2>1. Sound(session') /\ session'.ops = session.ops
        BY <1>4, DecisionSteps DEF Resolves, Decides
    <2>2. calls' = calls /\ live' = live /\ archive' = archive
        BY <1>4 DEF IncreaseRetries, GiveUp
    <2> QED
        BY <2>1, <2>2 DEF Matched, HasOp
<1> QED
    BY <1>1, <1>2, <1>3, <1>4 DEF ControllerStep

\* Every step keeps it: a restart forgets what was live and every call.
LEMMA NextInv == Inv /\ [Next]_vars => Inv'
<1> SUFFICES ASSUME Inv, [Next]_vars
             PROVE  Inv'
    OBVIOUS
<1>1. CASE \E k \in Call : CallStep(k)
    BY <1>1, CallStepInv
<1>2. CASE ControllerStep
    BY <1>2, ControllerStepInv
<1>3. CASE Archive
    BY <1>3 DEF Archive, Inv, Matched
<1>4. CASE Restart
    <2>1. NoCall \in CallType /\ NoCall.kind = "none" /\ NoCall.state = "free"
        BY DEF NoCall, CallType, NoRun
    <2>2. \A k \in Call : HasOp(session, k) => session.ops[k].kind \in {"task", "mutation"}
        BY Fields, NoOpIsNone DEF Inv, Sound, HasOp
    <2> QED
        BY <1>4, <2>1, <2>2 DEF Restart, Inv, Matched
<1>5. CASE UNCHANGED vars
    BY <1>5 DEF vars, Inv, Matched
<1> QED
    BY <1>1, <1>2, <1>3, <1>4, <1>5 DEF Next

\* A new session is planning: nothing has begun.
LEMMA InitInv == Init => Inv
<1> SUFFICES ASSUME Init
             PROVE  Inv
    OBVIOUS
<1> DEFINE status == [t \in Task |-> "pending"]
           ops == [k \in Call |-> NoOp]
           attempts == [t \in Task |-> 0]
           maximum == [t \in Task |-> TaskRetries]
<1>1. session = [stage |-> "planning", plan |-> FALSE, approval |-> "none",
                 list |-> {}, status |-> status,
                 gates |-> NoGates, judged |-> {}, cycles |-> 0, checks |-> "none",
                 runs |-> <<>>, ops |-> ops,
                 attempts |-> attempts, maximum |-> maximum,
                 decisions |-> {}, processed |-> {},
                 permit |-> {}, receipt |-> FALSE, outcome |-> "none"]
    BY DEF Init
<1>2. /\ status \in [Task -> TaskStatus] /\ ops \in [Call -> OpType \cup {NoOp}]
      /\ attempts \in [Task -> Nat] /\ maximum \in [Task -> Nat]
      /\ NoGates \in [Gate -> Checks] /\ "none" \in Checks
    BY BudgetAssumption DEF TaskStatus, NoGates, Checks
<1>3. \A k \in Call : ops[k] = NoOp
    OBVIOUS
<1> HIDE DEF status, ops, attempts, maximum
<1>4. <<>> \in Seq(RunType) /\ "planning" \in Stages /\ 0 \in Nat /\ DOMAIN <<>> = {}
    BY GraphFacts, EmptySeq DEF StageNames
<1>5. session \in SessionType
    BY <1>1, <1>2, <1>4, ZenonT(60) DEF SessionType
<1>6. /\ session.ops = ops /\ session.runs = <<>> /\ session.decisions = {}
    BY <1>1
<1>7. Sound(session) /\ \A k \in Call : ~ HasOp(session, k)
    BY <1>3, <1>4, <1>5, <1>6 DEF Sound, HasOp, OpenRuns
<1>8. calls \in [Call -> CallType] /\ live = {} /\ archive = "none"
    BY DEF Init, NoCall, CallType, NoRun
<1> QED
    BY <1>7, <1>8 DEF Inv

\* The invariant of the whole system, whatever the environment does.
THEOREM Invariant == Spec => []Inv
BY InitInv, NextInv, PTL DEF Spec

-----------------------------------------------------------------------------
(* What follows from it.                                                   *)

\* Every state has its type, and whatever names a run names one that is there.
THEOREM TypeCorrect == Spec => []TypeOK
<1>1. Inv => TypeOK
    BY DEF Inv, Sound, TypeOK
<1> QED
    BY <1>1, Invariant, PTL

\* dispatch: serial.  One run is open at most, whoever opens it: a dispatch or
\* an edit that comes without one.
THEOREM OneRunIsOpen == Spec => []OneOpenRun
<1>1. ASSUME Inv
      PROVE  OneOpenRun
    <2>1. \A r, q \in OpenRuns(session) : r = q
        BY <1>1 DEF Inv, Sound
    <2>2. CASE OpenRuns(session) = {}
        BY <2>2, FS_EmptySet DEF OneOpenRun
    <2>3. CASE OpenRuns(session) # {}
        <3>1. PICK r \in OpenRuns(session) : OpenRuns(session) = {r}
            BY <2>1, <2>3
        <3>2. Cardinality({r}) = 1
            BY FS_Singleton
        <3> QED
            BY <3>1, <3>2 DEF OneOpenRun
    <2> QED
        BY <2>2, <2>3
<1> QED
    BY <1>1, Invariant, PTL

\* The list is never replaced under a run that is open.
THEOREM OpenRunsStayListed == Spec => []OpenRunsAreListed
<1>1. Inv => OpenRunsAreListed
    BY DEF Inv, Sound, OpenRunsAreListed
<1> QED
    BY <1>1, Invariant, PTL

\* An edit is refused for another one only while the host still runs that: no
\* failure, no restart and no lost event leaves a lock behind.
THEOREM NoLockIsLeft == Spec => []DeadEditsDoNotBlock
<1>1. ASSUME Inv
      PROVE  DeadEditsDoNotBlock
    <2> SUFFICES ASSUME NEW k \in Call, Unused(k),
                        NEW j \in Call, HasOp(Unlocked(session, live, k), j),
                        Unlocked(session, live, k).ops[j].kind = "mutation"
                 PROVE  calls[j].state = "running"
        BY DEF DeadEditsDoNotBlock
    <2>1. Sound(session) /\ ~ HasOp(session, k)
        BY <1>1 DEF Inv, Unused
    <2>2. /\ HasOp(session, j) /\ Unlocked(session, live, k).ops[j] = session.ops[j]
          /\ session.ops[j].kind = "mutation" => j \in live
        BY <2>1, UnlockedKeeps
    <2> QED
        BY <1>1, <2>2 DEF Inv, Matched
<1> QED
    BY <1>1, Invariant, PTL

-----------------------------------------------------------------------------
(* What a step may do.                                                     *)

\* The call k was answered: the verdict, if it counted, and then the hook.
Returned(k) ==
    /\ calls[k].kind \in TaskKind /\ Answered(k)
    /\ \E m : /\ Sound(m) /\ Judges(session, m, k) /\ m.stage = session.stage
              /\ m.list = session.list /\ Goes(m, session')

\* A step lets the work go on, is the answer of a call, or is the controller's.
LEMMA StepEffects ==
    ASSUME Inv, Next
    PROVE  \/ Continues(session, session')
           \/ \E k \in Call : Returned(k)
           \/ /\ calls' = calls
              /\ \/ Relists(session, session')
                 \/ "controller" \in Feature /\ Loosens(session, session')
                 \/ Resolves(session, session')
<1>0. Sound(session)
    BY DEF Inv
<1>1. ASSUME NEW k \in Call, CallStep(k)
      PROVE  Continues(session, session') \/ Returned(k)
    <2>1. ASSUME NEW report \in Reports, NEW checks \in Checks, Return(k, report, checks)
          PROVE  Returned(k)
        BY <1>0, <2>1, ReturnStep DEF Returned, Return
    <2>2. ASSUME NEW t \in Task, NEW agent \in Agent, DispatchTask(k, t, agent)
          PROVE  Continues(session, session')
        BY <1>0, <2>2, DispatchStep
    <2>3. ASSUME BeginEdit(k)
          PROVE  Continues(session, session')
        BY <1>0, <2>3, BeginEditStep
    <2>4. ASSUME \/ DispatchVerifier(k) \/ BeginCommit(k)
                 \/ \E head \in {"unmoved", "other", "expected"} : FinishCommit(k, head)
          PROVE  Continues(session, session')
        BY <1>0, <2>4, QuietCallSteps
    <2>5. ASSUME ToolFailure(k) \/ \E checks \in Verdict : FinishEdit(k, checks)
          PROVE  Continues(session, session')
        BY <1>0, <2>5, EndSteps
    <2>6. ASSUME ErrorEvent(k) \/ Expire(k)
          PROVE  Continues(session, session')
        BY <1>0, <2>6, FailureSteps
    <2> QED
        BY <1>1, <2>1, <2>2, <2>3, <2>4, <2>5, <2>6 DEF CallStep
<1>2. ASSUME ControllerStep
      PROVE  \/ Continues(session, session')
             \/ /\ calls' = calls
                /\ \/ Relists(session, session')
                   \/ "controller" \in Feature /\ Loosens(session, session')
                   \/ Resolves(session, session')
    <2>1. ASSUME AskPlan \/ (\E grant \in BOOLEAN : AnswerPlan(grant)) \/ OtherTool
          PROVE  Continues(session, session')
        BY <1>0, <2>1, PlanSteps
    <2>2. ASSUME NEW n \in 0 .. Cardinality(Task), SetTasks(n)
          PROVE  calls' = calls /\ Relists(session, session')
        BY <1>0, <2>2, SetTasksStep DEF SetTasks
    <2>3. ASSUME NEW t \in Task, NEW status \in TaskStatus, SetTaskStatus(t, status)
          PROVE  calls' = calls /\ "controller" \in Feature /\ Loosens(session, session')
        BY <1>0, <2>3, SetTaskStatusStep DEF SetTaskStatus
    <2>4. ASSUME NEW d \in session.decisions,
                 \/ \E maximum \in 1 .. MaxMaximum : IncreaseRetries(d, maximum)
                 \/ \E how \in {"failed", "cancelled"} : GiveUp(d, how)
          PROVE  calls' = calls /\ Resolves(session, session')
        BY <1>0, <2>4, DecisionSteps DEF IncreaseRetries, GiveUp
    <2> QED
        BY <1>2, <2>1, <2>2, <2>3, <2>4 DEF ControllerStep
<1>3. ASSUME Archive \/ Restart
      PROVE  Continues(session, session')
    <2>1. session' = session
        BY <1>3 DEF Archive, Restart
    <2>2. InPlace(session, session) /\ SameRuns(session, session)
        BY DEF InPlace, SameRuns
    <2>3. Continues(session, session)
        BY <1>0, <2>2, UntouchedContinues
    <2> QED
        BY <2>1, <2>3
<1> QED
    BY <1>1, <1>2, <1>3 DEF Next

\* Of the runs a step that lets the work go on judges none.
LEMMA RunsUnjudged ==
    ASSUME Inv, NEW r \in DOMAIN session.runs,
           \/ Continues(session, session')
           \/ Relists(session, session') \/ Loosens(session, session') \/ Resolves(session, session')
    PROVE  ~ Judged(r)
<1>1. CASE Continues(session, session')
    <2>1. PICK m : RunsGoOn(session, m) /\ session'.runs = m.runs
        BY <1>1 DEF Continues, Goes, SameWork
    <2> QED
        BY <2>1 DEF Judged, RunsGoOn
<1>2. CASE Relists(session, session')
    BY <1>2 DEF Judged, Relists
<1>3. CASE Loosens(session, session')
    BY <1>3 DEF Judged, Loosens
<1>4. CASE Resolves(session, session')
    <2>1. PICK d \in session.decisions, x \in RunType :
            /\ x.status \in {"running", "failed", "cancelled"}
            /\ Decides(session, session', d, x, x.status)
        BY <1>4 DEF Resolves
    <2>2. /\ session.runs \in Seq(RunType) /\ d.run \in DOMAIN session.runs
          /\ session'.runs = [session.runs EXCEPT ![d.run] = x]
          /\ x.round = session.runs[d.run].round /\ x.gates = session.runs[d.run].gates
        BY <2>1, Fields DEF Decides, ReplacesRun, Inv, Sound
    <2>3. /\ session'.runs[d.run] = x
          /\ r # d.run => session'.runs[r] = session.runs[r]
        BY <2>2, ReplacedRuns
    <2> QED
        BY <2>1, <2>2, <2>3 DEF Judged
<1> QED
    BY <1>1, <1>2, <1>3, <1>4

\* A run takes a verdict, or moves, only with the first answer of a call that
\* was dispatched for it in the very round it is in: late, repeated and
\* overtaken answers, edits, failures and the controller never count for one.
THEOREM VerdictsBelong == Spec => VerdictBelongsToItsRound
<1> DEFINE Belongs == \A r \in DOMAIN session.runs : Judged(r) =>
                          \E k \in Call : /\ AnswersFirst(k)
                                          /\ calls[k].kind = "task"
                                          /\ calls[k].run = r
                                          /\ calls[k].round = session.runs[r].round
<1>1. Inv /\ [Next]_vars => [Belongs]_vars
    <2> SUFFICES ASSUME Inv, Next, NEW r \in DOMAIN session.runs, Judged(r)
                 PROVE  \E k \in Call : /\ AnswersFirst(k)
                                        /\ calls[k].kind = "task"
                                        /\ calls[k].run = r
                                        /\ calls[k].round = session.runs[r].round
        OBVIOUS
    <2>1. PICK k \in Call : Returned(k)
        BY StepEffects, RunsUnjudged
    <2>2. PICK m : Judges(session, m, k) /\ Goes(m, session')
        BY <2>1 DEF Returned
    <2>3. session'.runs = m.runs /\ session'.processed = m.processed
        BY <2>2 DEF Goes, SameWork
    <2>4. ~ SameRuns(session, m)
        BY <2>3 DEF SameRuns, Judged
    <2>5. /\ HasOp(session, k) /\ session.ops[k].round = session.runs[session.ops[k].run].round
          /\ k \notin session.processed /\ k \in m.processed
          /\ Advances(session, m, session.ops[k].run)
        BY <2>2, <2>4 DEF Judges
    <2>6. r = session.ops[k].run
        <3>1. PICK x \in RunType : ReplacesRun(session, m, session.ops[k].run, x)
            BY <2>5 DEF Advances
        <3>2. session.runs \in Seq(RunType)
            BY Fields DEF Inv, Sound
        <3>3. r # session.ops[k].run => session'.runs[r] = session.runs[r]
            BY <2>3, <3>1, <3>2, ReplacedRuns DEF ReplacesRun
        <3> QED
            BY <3>3 DEF Judged
    <2>7. /\ calls[k].kind = "task" /\ calls[k].run = session.ops[k].run
          /\ calls[k].round = session.ops[k].round
        BY <2>1, <2>5 DEF Returned, TaskKind, Inv, Matched
    <2>8. AnswersFirst(k)
        BY <2>3, <2>5 DEF AnswersFirst
    <2> QED
        BY <2>5, <2>6, <2>7, <2>8
<1> QED
    BY <1>1, Invariant, PTL DEF Spec, VerdictBelongsToItsRound

\* A task that was stopped stays stopped: no answer, edit or failure of a call
\* that is still out changes its status while the session stays in its stage.
THEOREM StoppedTasksStay == Spec => StoppedTaskStaysStopped
<1> DEFINE Stays == \A t \in session.list :
                        /\ session.status[t] \in {"failed", "cancelled"}
                        /\ session'.status[t] # session.status[t]
                        => calls' = calls \/ session'.stage # session.stage
<1>1. Inv /\ [Next]_vars => [Stays]_vars
    <2> SUFFICES ASSUME Inv, Next, NEW t \in session.list,
                        session.status[t] \in {"failed", "cancelled"},
                        calls' # calls, session'.stage = session.stage
                 PROVE  session'.status[t] = session.status[t]
        OBVIOUS
    <2>0. t \in Task /\ session.status \in [Task -> TaskStatus]
        BY Fields DEF Inv, Sound
    <2>1. CASE Continues(session, session')
        <3>1. PICK m : /\ InPlace(session, m) /\ RunsGoOn(session, m) /\ Goes(m, session')
            BY <2>1 DEF Continues
        <3>2. m.status[t] = session.status[t]
            BY <2>0, <3>1 DEF RunsGoOn, Runnable
        <3> QED
            BY <3>1, <3>2 DEF Goes, InPlace
    <2>2. ASSUME NEW k \in Call, Returned(k)
          PROVE  session'.status[t] = session.status[t]
        <3>1. PICK m : /\ Judges(session, m, k) /\ m.stage = session.stage
                       /\ m.list = session.list /\ Goes(m, session')
            BY <2>2 DEF Returned
        <3>2. m.status[t] = session.status[t]
            <4>1. CASE SameRuns(session, m)
                BY <4>1 DEF SameRuns
            <4>2. CASE ~ SameRuns(session, m)
                <5>1. /\ session.ops[k].run \in OpenRuns(session)
                      /\ Advances(session, m, session.ops[k].run)
                    BY <3>1, <4>2 DEF Judges
                <5>2. PICK x \in RunType :
                        /\ x.task = session.runs[session.ops[k].run].task
                        /\ \/ m.status = session.status
                           \/ m.status = [session.status EXCEPT ![x.task] = "completed"]
                           \/ m.status = [session.status EXCEPT ![x.task] = "running"]
                    BY <5>1 DEF Advances, ReplacesRun
                <5>3. x.task # t
                    BY <5>1, <5>2 DEF Inv, Sound
                <5> QED
                    BY <2>0, <5>2, <5>3
            <4> QED
                BY <4>1, <4>2
        <3> QED
            BY <3>1, <3>2 DEF Goes
    <2> QED
        BY <2>1, <2>2, StepEffects
<1> QED
    BY <1>1, Invariant, PTL DEF Spec, StoppedTaskStaysStopped

\* While the host runs a call its operation is taken away by nothing but the
\* end of the call, its age, or the controller closing the run it works on:
\* what an edit clears before it begins is never the operation of a live call.
THEOREM RunningCallsKeepTheirs == Spec => RunningCallKeepsItsOperation
<1> DEFINE Kept(k) == HasOp(session, k) /\ calls[k].state = "running" /\ ~ HasOp(session', k)
                      => \/ calls'[k].state # "running"
                         \/ session.ops[k].expired
                         \/ session'.runs[session.ops[k].run].status = "cancelled"
<1>1. Inv /\ [Next]_vars => [\A k \in Call : Kept(k)]_vars
    <2> SUFFICES ASSUME Inv, Next, NEW k \in Call,
                        HasOp(session, k), calls[k].state = "running", ~ HasOp(session', k)
                 PROVE  \/ calls'[k].state # "running"
                        \/ session.ops[k].expired
                        \/ session'.runs[session.ops[k].run].status = "cancelled"
        OBVIOUS
    <2>0. Sound(session) /\ calls \in [Call -> CallType] /\ Matched(k)
        BY DEF Inv
    <2>1. ASSUME NEW j \in Call, CallStep(j)
          PROVE  calls'[k].state # "running" \/ session.ops[k].expired
        <3>1. ASSUME NEW report \in Reports, NEW checks \in Checks, Return(j, report, checks)
              PROVE  calls'[k].state # "running"
            BY <2>0, <3>1, ReturnStep, CallFacts DEF Return, HasOp
        <3>2. ASSUME NEW t \in Task, NEW agent \in Agent, DispatchTask(j, t, agent)
              PROVE  FALSE
            BY <2>0, <3>2, DispatchStep DEF HasOp
        <3>3. ASSUME BeginEdit(j)
              PROVE  session.ops[k].expired
            BY <2>0, <3>3, BeginEditStep DEF Matched
        <3>4. ASSUME \/ DispatchVerifier(j) \/ BeginCommit(j)
                     \/ \E head \in {"unmoved", "other", "expected"} : FinishCommit(j, head)
              PROVE  FALSE
            BY <2>0, <3>4, QuietCallSteps DEF HasOp
        <3>5. ASSUME ToolFailure(j) \/ \E checks \in Verdict : FinishEdit(j, checks)
              PROVE  calls'[k].state # "running"
            <4>1. k = j
                BY <2>0, <3>5, EndSteps DEF HasOp
            <4> QED
                BY <2>0, <3>5, <4>1, CallFacts DEF ToolFailure, FinishEdit
        <3>6. ASSUME ErrorEvent(j) \/ Expire(j)
              PROVE  calls'[k].state # "running"
            <4>1. k = j /\ ErrorEvent(j)
                BY <2>0, <3>6, FailureSteps DEF HasOp
            <4> QED
                BY <2>0, <4>1 DEF ErrorEvent, CallType
        <3> QED
            BY <2>1, <3>1, <3>2, <3>3, <3>4, <3>5, <3>6 DEF CallStep
    <2>2. ASSUME ControllerStep
          PROVE  session'.runs[session.ops[k].run].status = "cancelled"
        <3>1. ASSUME AskPlan \/ (\E grant \in BOOLEAN : AnswerPlan(grant)) \/ OtherTool
              PROVE  FALSE
            BY <2>0, <3>1, PlanSteps DEF HasOp
        <3>2. ASSUME NEW n \in 0 .. Cardinality(Task), SetTasks(n)
              PROVE  FALSE
            BY <2>0, <3>2, SetTasksStep DEF HasOp, Relists
        <3>3. ASSUME NEW t \in Task, NEW status \in TaskStatus, SetTaskStatus(t, status)
              PROVE  session'.runs[session.ops[k].run].status = "cancelled"
            BY <2>0, <3>3, SetTaskStatusStep DEF Loosens
        <3>4. ASSUME NEW d \in session.decisions,
                     \/ \E maximum \in 1 .. MaxMaximum : IncreaseRetries(d, maximum)
                     \/ \E how \in {"failed", "cancelled"} : GiveUp(d, how)
              PROVE  FALSE
            BY <2>0, <3>4, DecisionSteps DEF HasOp, Resolves, Decides
        <3> QED
            BY <2>2, <3>1, <3>2, <3>3, <3>4 DEF ControllerStep
    <2>3. ASSUME Archive \/ Restart
          PROVE  FALSE
        BY <2>3 DEF Archive, Restart
    <2> QED
        BY <2>1, <2>2, <2>3 DEF Next
<1> QED
    BY <1>1, Invariant, PTL DEF Spec, RunningCallKeepsItsOperation

-----------------------------------------------------------------------------
(* The loop, where no controller sets the status of a task.                *)

\* A run is open only in the loop, for a task that is not completed.
OpenInTheLoop(s) ==
    \A r \in OpenRuns(s) : s.stage = LoopStage /\ s.status[s.runs[r].task] # "completed"

\* The hook cannot leave the loop over a run that is open.
LEMMA GoesInTheLoop ==
    ASSUME NEW m, Sound(m), OpenInTheLoop(m), NEW u, Goes(m, u)
    PROVE  OpenInTheLoop(u)
<1> SUFFICES ASSUME NEW r \in OpenRuns(u)
             PROVE  u.stage = LoopStage /\ u.status[u.runs[r].task] # "completed"
    BY DEF OpenInTheLoop
<1>1. u.runs = m.runs /\ r \in OpenRuns(m) /\ r \in DOMAIN m.runs
    BY DEF Goes, SameWork, OpenRuns
<1>2. /\ m.stage = LoopStage /\ m.status[m.runs[r].task] # "completed"
      /\ m.runs[r].task \in m.list /\ m.runs[r].task \in Task
    BY <1>1, RunIsThere DEF OpenInTheLoop, Sound
<1>3. u.stage = m.stage
    BY <1>2 DEF Goes, AllTasksCompleted
<1>4. u.status[m.runs[r].task] \in {m.status[m.runs[r].task], "pending"}
    BY <1>2 DEF Goes
<1> QED
    BY <1>1, <1>2, <1>3, <1>4

\* Every step keeps the open run in the loop, as long as no status is set by hand.
LEMMA NextInTheLoop ==
    ASSUME Inv, OpenInTheLoop(session), Next, "controller" \notin Feature
    PROVE  OpenInTheLoop(session')
<1>0. /\ session.runs \in Seq(RunType) /\ session.status \in [Task -> TaskStatus]
      /\ \A r \in DOMAIN session.runs : session.runs[r].task \in Task
    BY Fields, RunIsThere DEF Inv, Sound
<1>1. CASE Continues(session, session')
    <2>1. PICK m : /\ Sound(m) /\ InPlace(session, m) /\ RunsGoOn(session, m)
                   /\ DOMAIN m.runs # DOMAIN session.runs => session.stage = LoopStage
                   /\ Goes(m, session')
        BY <1>1 DEF Continues
    <2>2. ASSUME NEW r \in OpenRuns(m)
          PROVE  m.stage = LoopStage /\ m.status[m.runs[r].task] # "completed"
        <3>1. CASE r \in DOMAIN session.runs
            <4>1. r \in OpenRuns(session) /\ m.runs[r].task = session.runs[r].task
                BY <2>1, <3>1 DEF OpenRuns, RunsGoOn
            <4>2. m.status[m.runs[r].task] \in {session.status[m.runs[r].task], "running"}
                BY <1>0, <2>1, <3>1, <4>1 DEF RunsGoOn
            <4> QED
                BY <2>1, <4>1, <4>2 DEF OpenInTheLoop, InPlace
        <3>2. CASE r \notin DOMAIN session.runs
            BY <2>1, <3>2 DEF OpenRuns, RunsGoOn, InPlace
        <3> QED
            BY <3>1, <3>2
    <2> QED
        BY <2>1, <2>2, GoesInTheLoop DEF OpenInTheLoop
<1>2. ASSUME NEW k \in Call, Returned(k)
      PROVE  OpenInTheLoop(session')
    <2>1. PICK m : /\ Sound(m) /\ Judges(session, m, k) /\ m.stage = session.stage
                   /\ m.list = session.list /\ Goes(m, session')
        BY <1>2 DEF Returned
    <2>2. CASE SameRuns(session, m)
        <3>1. OpenInTheLoop(m)
            BY <2>1, <2>2 DEF SameRuns, OpenInTheLoop, OpenRuns
        <3> QED
            BY <2>1, <3>1, GoesInTheLoop
    <2>3. CASE ~ SameRuns(session, m)
        <3> DEFINE r == session.ops[k].run
        <3>1. r \in OpenRuns(session) /\ r \in DOMAIN session.runs /\ Advances(session, m, r)
            BY <2>1, <2>3 DEF Judges, OpenRuns
        <3>2. PICK x \in RunType :
                /\ x.task = session.runs[r].task /\ m.runs = [session.runs EXCEPT ![r] = x]
                /\ \/ x.status = session.runs[r].status /\ m.status = session.status
                   \/ x.status = "completed"
                   \/ x.status = "awaiting_decision" /\ m.status = session.status
                   \/ x.status = "running" /\ m.status = [session.status EXCEPT ![x.task] = "running"]
            BY <3>1 DEF Advances, ReplacesRun
        <3> HIDE DEF r
        <3>3. /\ DOMAIN m.runs = DOMAIN session.runs /\ m.runs[r] = x
              /\ \A q \in DOMAIN session.runs : q # r => m.runs[q] = session.runs[q]
            BY <1>0, <3>1, <3>2, ReplacedRuns
        <3>4. \A q \in OpenRuns(m) : q = r /\ x.status \in OpenStatus
            BY <2>1, <3>1, <3>3 DEF OpenRuns, Inv, Sound
        <3>5. session.stage = LoopStage /\ session.status[x.task] # "completed" /\ x.task \in Task
            BY <1>0, <3>1, <3>2 DEF OpenInTheLoop
        <3>6. x.status \in OpenStatus => m.status[x.task] # "completed"
            BY <1>0, <3>2, <3>5 DEF OpenStatus
        <3>7. OpenInTheLoop(m)
            BY <2>1, <3>3, <3>4, <3>5, <3>6 DEF OpenInTheLoop
        <3> QED
            BY <2>1, <3>7, GoesInTheLoop
    <2> QED
        BY <2>2, <2>3
<1>3. CASE Relists(session, session')
    BY <1>3 DEF Relists, OpenInTheLoop, OpenRuns
<1>4. CASE Resolves(session, session')
    <2>1. PICK d \in session.decisions, x \in RunType :
            /\ session.runs[d.run].status = "awaiting_decision"
            /\ x.status \in {"running", "failed", "cancelled"}
            /\ session'.runs = [session.runs EXCEPT ![d.run] = x]
            /\ x.task = session.runs[d.run].task
            /\ session'.status = [session.status EXCEPT ![d.task] = x.status]
            /\ session'.stage = session.stage
        BY <1>4 DEF Resolves, Decides, ReplacesRun, SameFrame
    <2>2. d.run \in DOMAIN session.runs /\ d.run \in OpenRuns(session)
        BY <2>1 DEF Inv, Sound, OpenRuns, OpenStatus
    <2>3. /\ DOMAIN session'.runs = DOMAIN session.runs /\ session'.runs[d.run] = x
          /\ \A q \in DOMAIN session.runs : q # d.run => session'.runs[q] = session.runs[q]
        BY <1>0, <2>1, <2>2, ReplacedRuns
    <2>4. \A q \in OpenRuns(session') : q = d.run
        BY <2>2, <2>3 DEF OpenRuns, Inv, Sound
    <2>5. x.task \in Task /\ session.status[x.task] # "completed" /\ session.stage = LoopStage
        BY <1>0, <2>1, <2>2 DEF OpenInTheLoop
    <2>6. session'.status[x.task] # "completed"
        BY <1>0, <2>1, <2>5
    <2> QED
        BY <2>1, <2>3, <2>4, <2>5, <2>6 DEF OpenInTheLoop
<1> QED
    BY <1>1, <1>2, <1>3, <1>4, StepEffects

\* Work is judged as a whole only when none of it is under way: where no
\* controller calls a task completed, the loop is not left over an open run.
THEOREM LoopLeftDone ==
    ASSUME "controller" \notin Feature
    PROVE  Spec => []LoopIsLeftDone
<1>1. Init => OpenInTheLoop(session)
    BY DEF Init, OpenInTheLoop, OpenRuns
<1>2. Inv /\ OpenInTheLoop(session) /\ [Next]_vars => OpenInTheLoop(session)'
    BY NextInTheLoop DEF vars
<1>3. OpenInTheLoop(session) => LoopIsLeftDone
    BY DEF OpenInTheLoop, LoopIsLeftDone
<1> QED
    BY <1>1, <1>2, <1>3, Invariant, PTL DEF Spec

-----------------------------------------------------------------------------
(* What has come to its end says what follows from there.                  *)

\* No call is an edit's.
NoEdits == \A k \in Call : calls[k].kind # "edit"

\* Where no edit begins none is answered either.
LEMMA NextHasNoEdits ==
    ASSUME Inv, NoEdits, Next, "edits" \notin Feature
    PROVE  NoEdits'
<1>1. ASSUME NEW k \in Call, CallStep(k)
      PROVE  NoEdits'
    <2>1. Over(k)[k].kind # "edit"
        <3>1. NoCall.kind = "none" /\ [calls[k] EXCEPT !.state = "over"].kind = calls[k].kind
            BY DEF Inv, CallType, NoCall
        <3> QED
            BY <3>1 DEF Over, Inv, NoEdits
    <2>2. \A j \in Call \ {k} : Over(k)[j] = calls[j]
        BY CallFacts DEF Inv
    <2>3. CASE calls' = Over(k)
        BY <2>1, <2>2, <2>3 DEF NoEdits
    <2>4. CASE calls' = calls
        BY <2>4 DEF NoEdits
    <2>5. ASSUME NEW kind \in {"task", "verifier", "commit"}, NEW run, NEW round,
                 calls' = [calls EXCEPT ![k] = CallRecord(kind, run, round)]
          PROVE  NoEdits'
        BY <2>5 DEF NoEdits, Inv, CallRecord
    <2>6. CASE ErrorEvent(k)
        <3>1. calls' = [calls EXCEPT ![k].state = "failed"]
            BY <2>6 DEF ErrorEvent
        <3>2. calls'[k].kind = calls[k].kind /\ \A j \in Call \ {k} : calls'[j] = calls[j]
            BY <3>1 DEF Inv, CallType
        <3> QED
            BY <3>2 DEF NoEdits
    <2>7. ASSUME NEW t \in Task, NEW agent \in Agent, DispatchTask(k, t, agent)
          PROVE  NoEdits'
        BY <2>5, <2>7 DEF DispatchTask, DispatchNext, DispatchAgain
    <2>8. CASE DispatchVerifier(k) \/ BeginCommit(k)
        BY <2>5, <2>8 DEF DispatchVerifier, BeginCommit
    <2>9. ~ BeginEdit(k)
        BY DEF BeginEdit
    <2> QED
        BY <1>1, <2>3, <2>4, <2>6, <2>7, <2>8, <2>9
        DEF CallStep, Return, FinishEdit, FinishCommit, ToolFailure, Expire
<1>2. CASE ControllerStep
    <2>1. calls' = calls
        BY <1>2, ZenonT(60) DEF ControllerStep, AskPlan, AnswerPlan, SetTasks, SetTaskStatus,
                    IncreaseRetries, GiveUp, OtherTool
    <2> QED
        BY <2>1 DEF NoEdits
<1>3. CASE Archive \/ Restart
    BY <1>3 DEF Archive, Restart, NoEdits, NoCall
<1> QED
    BY <1>1, <1>2, <1>3 DEF Next

\* Every other step writes the outcome of the workflow it ends.
LEMMA NextKeepsOutcome ==
    ASSUME Inv, NoEdits, Next
    PROVE  KeepsOutcome(session, session')
<1>0. Sound(session)
    BY DEF Inv
<1>1. ASSUME NEW k \in Call, CallStep(k)
      PROVE  KeepsOutcome(session, session')
    <2>1. ~ (\E checks \in Verdict : FinishEdit(k, checks))
        BY DEF FinishEdit, NoEdits
    <2>2. ASSUME NEW report \in Reports, NEW checks \in Checks, Return(k, report, checks)
          PROVE  KeepsOutcome(session, session')
        BY <1>0, <2>2, ReturnStep
    <2>3. ASSUME NEW t \in Task, NEW agent \in Agent, DispatchTask(k, t, agent)
          PROVE  KeepsOutcome(session, session')
        BY <1>0, <2>3, DispatchStep
    <2>4. ASSUME BeginEdit(k)
          PROVE  KeepsOutcome(session, session')
        BY <1>0, <2>4, BeginEditStep
    <2>5. ASSUME \/ DispatchVerifier(k) \/ BeginCommit(k)
                 \/ \E head \in {"unmoved", "other", "expected"} : FinishCommit(k, head)
          PROVE  KeepsOutcome(session, session')
        BY <1>0, <2>5, QuietCallSteps
    <2>6. ASSUME ToolFailure(k)
          PROVE  KeepsOutcome(session, session')
        BY <1>0, <2>6, EndSteps
    <2>7. ASSUME ErrorEvent(k) \/ Expire(k)
          PROVE  KeepsOutcome(session, session')
        BY <1>0, <2>7, FailureSteps
    <2> QED
        BY <1>1, <2>1, <2>2, <2>3, <2>4, <2>5, <2>6, <2>7 DEF CallStep
<1>2. ASSUME ControllerStep
      PROVE  KeepsOutcome(session, session')
    <2>1. ASSUME AskPlan \/ (\E grant \in BOOLEAN : AnswerPlan(grant)) \/ OtherTool
          PROVE  KeepsOutcome(session, session')
        BY <1>0, <2>1, PlanSteps
    <2>2. ASSUME NEW n \in 0 .. Cardinality(Task), SetTasks(n)
          PROVE  KeepsOutcome(session, session')
        BY <1>0, <2>2, SetTasksStep DEF Relists, KeepsOutcome
    <2>3. ASSUME NEW t \in Task, NEW status \in TaskStatus, SetTaskStatus(t, status)
          PROVE  KeepsOutcome(session, session')
        BY <1>0, <2>3, SetTaskStatusStep DEF Loosens, SameFrame, KeepsOutcome
    <2>4. ASSUME NEW d \in session.decisions,
                 \/ \E maximum \in 1 .. MaxMaximum : IncreaseRetries(d, maximum)
                 \/ \E how \in {"failed", "cancelled"} : GiveUp(d, how)
          PROVE  KeepsOutcome(session, session')
        BY <1>0, <2>4, DecisionSteps DEF Resolves, SameFrame, KeepsOutcome
    <2> QED
        BY <1>2, <2>1, <2>2, <2>3, <2>4 DEF ControllerStep
<1>3. CASE Archive \/ Restart
    BY <1>3 DEF Archive, Restart, KeepsOutcome
<1> QED
    BY <1>1, <1>2, <1>3 DEF Next

\* A finished workflow says how it finished, whatever else happens: what an
\* edit's own transition ends is the exception.
THEOREM OutcomesAreRecorded ==
    ASSUME "edits" \notin Feature
    PROVE  Spec => []OutcomeRecorded
<1>1. Init => NoEdits /\ OutcomeRecorded
    <2>1. ~ IsTerminal("planning")
        BY GraphFacts DEF StageNames
    <2> QED
        BY <2>1 DEF Init, NoEdits, NoCall, OutcomeRecorded
<1>2. Inv /\ NoEdits /\ OutcomeRecorded /\ [Next]_vars => (NoEdits /\ OutcomeRecorded)'
    BY NextHasNoEdits, NextKeepsOutcome DEF KeepsOutcome, OutcomeRecorded, NoEdits, vars
<1> QED
    BY <1>1, <1>2, Invariant, PTL DEF Spec

\* What a decision and the task that waits for it know of each other.
Decided(s) ==
    /\ \A d \in s.decisions : /\ s.runs[d.run].status = "awaiting_decision"
                              /\ s.runs[d.run].task = d.task
    /\ \A r \in DOMAIN s.runs : s.runs[r].status = "awaiting_decision" =>
         \E d \in s.decisions : d.run = r

\* A call works on its task in a round that has come, and that is over where
\* the task waits: its answer cannot move a task that waits for a decision.
RoundCame(s, r, round) ==
    /\ r \in DOMAIN s.runs
    /\ round <= s.runs[r].round
    /\ s.runs[r].status = "awaiting_decision" => round < s.runs[r].round

RoundsCame ==
    \A k \in Call : HasOp(session, k) /\ session.ops[k].kind = "task" =>
        RoundCame(session, session.ops[k].run, session.ops[k].round)

\* A task's operation is an old one, or of the running round of its run.
LEMMA TaskOps ==
    ASSUME Inv, Next, NEW j \in Call, HasOp(session', j), session'.ops[j].kind = "task"
    PROVE  \/ /\ HasOp(session, j) /\ session.ops[j].kind = "task"
              /\ session'.ops[j].run = session.ops[j].run
              /\ session'.ops[j].round = session.ops[j].round
           \/ /\ session'.ops[j].run \in OpenRuns(session')
              /\ session'.runs[session'.ops[j].run].status = "running"
              /\ session'.ops[j].round = session'.runs[session'.ops[j].run].round
<1> DEFINE Same == /\ HasOp(session, j) /\ session.ops[j].kind = "task"
                   /\ session'.ops[j].run = session.ops[j].run
                   /\ session'.ops[j].round = session.ops[j].round
           New == /\ session'.ops[j].run \in OpenRuns(session')
                  /\ session'.runs[session'.ops[j].run].status = "running"
                  /\ session'.ops[j].round = session'.runs[session'.ops[j].run].round
<1>0. Sound(session)
    BY DEF Inv
<1>1. session'.ops[j] = session.ops[j] => Same
    BY DEF HasOp
<1>2. ASSUME NEW k \in Call, CallStep(k)
      PROVE  Same \/ New
    <2> HIDE DEF Same, New
    <2>1. ASSUME NEW report \in Reports, NEW checks \in Checks, Return(k, report, checks)
          PROVE  Same
        BY <1>0, <1>1, <2>1, ReturnStep
    <2>2. ASSUME NEW t \in Task, NEW agent \in Agent, DispatchTask(k, t, agent)
          PROVE  Same \/ New
        BY <1>0, <1>1, <2>2, DispatchStep DEF New
    <2>3. ASSUME BeginEdit(k)
          PROVE  Same
        BY <1>0, <1>1, <2>3, BeginEditStep
    <2>4. ASSUME \/ DispatchVerifier(k) \/ BeginCommit(k)
                 \/ \E head \in {"unmoved", "other", "expected"} : FinishCommit(k, head)
          PROVE  Same
        BY <1>0, <1>1, <2>4, QuietCallSteps
    <2>5. ASSUME ToolFailure(k) \/ \E checks \in Verdict : FinishEdit(k, checks)
          PROVE  Same
        BY <1>0, <1>1, <2>5, EndSteps
    <2>6. ASSUME ErrorEvent(k) \/ Expire(k)
          PROVE  Same
        BY <1>0, <1>1, <2>6, FailureSteps DEF Same
    <2> QED
        BY <1>2, <2>1, <2>2, <2>3, <2>4, <2>5, <2>6 DEF CallStep
<1>3. ASSUME ControllerStep
      PROVE  Same
    <2>1. ASSUME AskPlan \/ (\E grant \in BOOLEAN : AnswerPlan(grant)) \/ OtherTool
          PROVE  Same
        BY <1>0, <1>1, <2>1, PlanSteps
    <2>2. ASSUME NEW n \in 0 .. Cardinality(Task), SetTasks(n)
          PROVE  Same
        BY <1>0, <1>1, <2>2, SetTasksStep DEF Relists
    <2>3. ASSUME NEW t \in Task, NEW status \in TaskStatus, SetTaskStatus(t, status)
          PROVE  Same
        BY <1>0, <2>3, SetTaskStatusStep DEF Loosens, OpsOf
    <2>4. ASSUME NEW d \in session.decisions,
                 \/ \E maximum \in 1 .. MaxMaximum : IncreaseRetries(d, maximum)
                 \/ \E how \in {"failed", "cancelled"} : GiveUp(d, how)
          PROVE  Same
        BY <1>0, <1>1, <2>4, DecisionSteps DEF Resolves, Decides
    <2> QED
        BY <1>3, <2>1, <2>2, <2>3, <2>4 DEF ControllerStep
<1>4. CASE Archive \/ Restart
    BY <1>1, <1>4 DEF Archive, Restart
<1> QED
    BY <1>2, <1>3, <1>4 DEF Next

\* Each step keeps what is decided and what has come: the answer that puts a
\* task on hold leaves the decision, the one that resolves it takes it away.
LEMMA NextWaits ==
    ASSUME Inv, Decided(session), RoundsCame, Next, "controller" \notin Feature
    PROVE  /\ Decided(session')
           /\ \A r \in Nat, round \in Nat :
                RoundCame(session, r, round) => RoundCame(session', r, round)
<1>0. /\ session.runs \in Seq(RunType)
      /\ session.decisions \in SUBSET [task : Task, run : Nat]
      /\ \A r \in DOMAIN session.runs : session.runs[r].round \in Nat
      /\ \A d \in session.decisions : d.run \in DOMAIN session.runs
      /\ \A r, q \in OpenRuns(session) : r = q
    BY Fields, RunIsThere DEF Inv, Sound
<1>1. CASE Continues(session, session')
    <2>1. PICK m : /\ RunsGoOn(session, m) /\ m.decisions = session.decisions
                   /\ session'.runs = m.runs /\ session'.decisions = m.decisions
        BY <1>1 DEF Continues, Goes, SameWork
    <2>2. \A r \in DOMAIN session.runs : /\ r \in DOMAIN session'.runs
                                         /\ session'.runs[r].task = session.runs[r].task
                                         /\ session'.runs[r].status = session.runs[r].status
                                         /\ session'.runs[r].round = session.runs[r].round
        BY <2>1 DEF RunsGoOn
    <2>3. \A r \in DOMAIN session'.runs \ DOMAIN session.runs : session'.runs[r].status = "running"
        BY <2>1 DEF RunsGoOn
    <2>4. Decided(session')
        BY <1>0, <2>1, <2>2, <2>3 DEF Decided
    <2>5. \A r \in Nat, round \in Nat :
            RoundCame(session, r, round) => RoundCame(session', r, round)
        BY <2>2 DEF RoundCame
    <2> QED
        BY <2>4, <2>5
<1>2. ASSUME NEW k \in Call, Returned(k)
      PROVE  /\ Decided(session')
             /\ \A r \in Nat, round \in Nat :
                  RoundCame(session, r, round) => RoundCame(session', r, round)
    <2>1. PICK m : /\ Judges(session, m, k)
                   /\ session'.runs = m.runs /\ session'.decisions = m.decisions
        BY <1>2 DEF Returned, Goes, SameWork
    <2>2. CASE SameRuns(session, m)
        BY <2>1, <2>2 DEF SameRuns, Decided, RoundCame
    <2>3. CASE ~ SameRuns(session, m)
        <3> DEFINE r == session.ops[k].run
        <3>1. /\ r \in OpenRuns(session) /\ r \in DOMAIN session.runs
              /\ HasOp(session, k) /\ session.ops[k].round = session.runs[r].round
              /\ Advances(session, m, r)
            BY <2>1, <2>3 DEF Judges, OpenRuns
        <3>2. session.ops[k].kind = "task"
            BY <1>2, <3>1 DEF Returned, TaskKind, Inv, Matched
        <3>3. session.runs[r].status # "awaiting_decision"
            BY <1>0, <3>1, <3>2 DEF RoundsCame, RoundCame
        <3>4. PICK x \in RunType :
                /\ x.task = session.runs[r].task /\ m.runs = [session.runs EXCEPT ![r] = x]
                /\ \/ /\ x.status = session.runs[r].status /\ x.round = session.runs[r].round
                      /\ m.decisions = session.decisions
                   \/ /\ x.status = "completed" /\ x.round = session.runs[r].round
                      /\ m.decisions = session.decisions
                   \/ /\ x.status = "awaiting_decision" /\ x.round = session.runs[r].round + 1
                      /\ m.decisions = IF \E d \in session.decisions : d.task = x.task
                                       THEN session.decisions
                                       ELSE session.decisions \cup {[task |-> x.task, run |-> r]}
                   \/ /\ x.status = "running" /\ x.round = session.runs[r].round + 1
                      /\ m.decisions = session.decisions
            BY <3>1 DEF Advances, ReplacesRun
        <3> HIDE DEF r
        <3>5. /\ DOMAIN m.runs = DOMAIN session.runs /\ m.runs[r] = x
              /\ \A q \in DOMAIN session.runs : q # r => m.runs[q] = session.runs[q]
            BY <1>0, <3>1, <3>4, ReplacedRuns
        <3>6. session.decisions = {}
            <4> SUFFICES ASSUME NEW d \in session.decisions
                         PROVE  FALSE
                OBVIOUS
            <4>1. d.run \in OpenRuns(session) /\ session.runs[d.run].status = "awaiting_decision"
                BY <1>0 DEF Decided, OpenRuns, OpenStatus
            <4> QED
                BY <1>0, <3>1, <3>3, <4>1
        <3>7. \A q \in DOMAIN session.runs : session.runs[q].status # "awaiting_decision"
            BY <3>6 DEF Decided
        <3>8. Decided(session')
            <4>1. CASE x.status = "awaiting_decision"
                <5>1. m.decisions = {[task |-> x.task, run |-> r]}
                    BY <3>3, <3>4, <3>6, <4>1
                <5> QED
                    BY <2>1, <3>1, <3>5, <3>7, <4>1, <5>1 DEF Decided
            <4>2. CASE x.status # "awaiting_decision"
                <5>1. m.decisions = {}
                    BY <3>4, <3>6, <4>2
                <5> QED
                    BY <2>1, <3>1, <3>5, <3>7, <4>2, <5>1 DEF Decided
            <4> QED
                BY <4>1, <4>2
        <3>9. ASSUME NEW q \in Nat, NEW round \in Nat, RoundCame(session, q, round)
              PROVE  RoundCame(session', q, round)
            <4>1. CASE q = r
                BY <1>0, <2>1, <3>1, <3>3, <3>4, <3>5, <3>9, <4>1 DEF RoundCame
            <4>2. CASE q # r
                BY <2>1, <3>5, <3>9, <4>2 DEF RoundCame
            <4> QED
                BY <4>1, <4>2
        <3> QED
            BY <3>8, <3>9
    <2> QED
        BY <2>2, <2>3
<1>3. CASE Relists(session, session')
    BY <1>3 DEF Relists, Decided, RoundCame
<1>4. CASE Resolves(session, session')
    <2>1. PICK d \in session.decisions, x \in RunType :
            /\ session.runs[d.run].status = "awaiting_decision"
            /\ x.status \in {"running", "failed", "cancelled"}
            /\ session'.runs = [session.runs EXCEPT ![d.run] = x]
            /\ x.round = session.runs[d.run].round
            /\ session'.decisions = session.decisions \ {d}
        BY <1>4 DEF Resolves, Decides, ReplacesRun
    <2>2. /\ DOMAIN session'.runs = DOMAIN session.runs /\ session'.runs[d.run] = x
          /\ \A q \in DOMAIN session.runs : q # d.run => session'.runs[q] = session.runs[q]
        BY <1>0, <2>1, ReplacedRuns
    <2>3. \A e \in session.decisions : e.run \in OpenRuns(session)
        BY <1>0 DEF Decided, OpenRuns, OpenStatus
    <2>4. \A e \in session.decisions : e = d
        <3> SUFFICES ASSUME NEW e \in session.decisions
                     PROVE  e = d
            OBVIOUS
        <3>1. e.run = d.run
            BY <1>0, <2>3
        <3>2. e.task = d.task
            BY <3>1 DEF Decided
        <3> QED
            BY <1>0, <3>1, <3>2
    <2>5. session'.decisions = {}
        BY <2>1, <2>4
    <2>6. \A q \in DOMAIN session.runs : session'.runs[q].status # "awaiting_decision"
        BY <2>1, <2>2, <2>4 DEF Decided
    <2>7. Decided(session')
        BY <2>2, <2>5, <2>6 DEF Decided
    <2>8. \A r \in Nat, round \in Nat :
            RoundCame(session, r, round) => RoundCame(session', r, round)
        BY <1>0, <2>1, <2>2, <2>6 DEF RoundCame
    <2> QED
        BY <2>7, <2>8
<1> QED
    BY <1>1, <1>2, <1>3, <1>4, StepEffects

\* A task that waits for a decision finds it, and only such a task does.
THEOREM DecisionsAreResolvable ==
    ASSUME "controller" \notin Feature
    PROVE  Spec => []DecisionIsResolvable
<1> DEFINE WaitInv == Decided(session) /\ RoundsCame
<1>1. Init => WaitInv
    BY DEF Init, Decided, RoundsCame, HasOp
<1>2. ASSUME Inv, WaitInv, Next
      PROVE  WaitInv'
    <2>1. /\ Decided(session')
          /\ \A r \in Nat, round \in Nat :
               RoundCame(session, r, round) => RoundCame(session', r, round)
        BY <1>2, NextWaits
    <2>2. ASSUME NEW k \in Call, HasOp(session', k), session'.ops[k].kind = "task"
          PROVE  RoundCame(session', session'.ops[k].run, session'.ops[k].round)
        <3>1. CASE /\ HasOp(session, k) /\ session.ops[k].kind = "task"
                   /\ session'.ops[k].run = session.ops[k].run
                   /\ session'.ops[k].round = session.ops[k].round
            <4>1. session.ops[k] \in OpType
                BY <3>1, <1>2, Fields DEF Inv, Sound, HasOp
            <4>2. session.ops[k].run \in Nat /\ session.ops[k].round \in Nat
                BY <4>1, Zenon DEF OpType
            <4>3. RoundCame(session, session.ops[k].run, session.ops[k].round)
                BY <1>2, <3>1 DEF RoundsCame
            <4> QED
                BY <2>1, <3>1, <4>2, <4>3
        <3>2. CASE /\ session'.ops[k].run \in OpenRuns(session')
                   /\ session'.runs[session'.ops[k].run].status = "running"
                   /\ session'.ops[k].round = session'.runs[session'.ops[k].run].round
            <4>1. session'.ops[k].run \in DOMAIN session'.runs /\ Sound(session')
                BY <1>2, <3>2, NextInv DEF OpenRuns, Inv
            <4>2. session'.ops[k].round \in Nat
                BY <3>2, <4>1, RunIsThere DEF Sound
            <4> QED
                BY <3>2, <4>1, <4>2 DEF RoundCame
        <3> QED
            BY <1>2, <2>2, <3>1, <3>2, TaskOps
    <2> QED
        BY <2>1, <2>2 DEF RoundsCame
<1>3. WaitInv /\ UNCHANGED vars => WaitInv'
    BY DEF vars, RoundsCame
<1>4. WaitInv => DecisionIsResolvable
    BY DEF Decided, DecisionIsResolvable
<1> QED
    BY <1>1, <1>2, <1>3, <1>4, Invariant, PTL DEF Spec

\* Where no edit's transition ends the workflow and no controller cancels a
\* task that waits, what has come to its end says what follows from there.
THEOREM EndsRecorded ==
    ASSUME "edits" \notin Feature, "controller" \notin Feature
    PROVE  Spec => []EndsAreRecorded
<1>1. OutcomeRecorded /\ DecisionIsResolvable => EndsAreRecorded
    BY DEF EndsAreRecorded
<1> QED
    BY <1>1, OutcomesAreRecorded, DecisionsAreResolvable, PTL

-----------------------------------------------------------------------------
(* The verdicts on the stage, where a task's operation lasts as long as    *)
(* its call.                                                               *)

\* A task's call has the operation of its run for as long as it runs.
Owned(k) ==
    /\ calls[k].kind = "task" /\ calls[k].state = "running" =>
         /\ HasOp(session, k)
         /\ session.ops[k].run # NoRun
    /\ HasOp(session, k) => ~ session.ops[k].expired

AllOwned == \A k \in Call : Owned(k)

\* A call that leaves the operations of the others leaves them their own.
LEMMA OthersOwned ==
    ASSUME AllOwned, NEW k \in Call,
           \A j \in Call \ {k} : calls'[j] = calls[j] /\ session'.ops[j] = session.ops[j],
           Owned(k)'
    PROVE  AllOwned'
<1> SUFFICES ASSUME NEW j \in Call \ {k}
             PROVE  Owned(j)'
    BY DEF AllOwned
<1> QED
    BY DEF AllOwned, Owned, HasOp

\* Where nothing ages and no controller closes a run, every step keeps that.
LEMMA NextOwned ==
    ASSUME Inv, AllOwned, Next, "expiry" \notin Feature, "controller" \notin Feature
    PROVE  AllOwned'
<1>0. Sound(session) /\ calls \in [Call -> CallType]
    BY DEF Inv
<1>1. ASSUME NEW k \in Call, CallStep(k)
      PROVE  AllOwned'
    <2>1. ASSUME NEW t \in Task, NEW agent \in Agent, DispatchTask(k, t, agent)
          PROVE  AllOwned'
        <3>1. /\ Sound(session')
              /\ \A j \in Call \ {k} : session'.ops[j] = session.ops[j]
              /\ HasOp(session', k) /\ ~ session'.ops[k].expired
              /\ session'.ops[k].run \in OpenRuns(session')
              /\ session'.ops[k].round = session'.runs[session'.ops[k].run].round
              /\ calls' = [calls EXCEPT ![k] = CallRecord("task", session'.ops[k].run, session'.ops[k].round)]
            BY <1>0, <2>1, DispatchStep
        <3>2. \A j \in Call \ {k} : calls'[j] = calls[j]
            BY <3>1
        <3>3. session'.ops[k].run # NoRun
            BY <3>1, RunIsThere DEF Sound, OpenRuns, NoRun
        <3>4. Owned(k)'
            BY <3>1, <3>3 DEF Owned
        <3> QED
            BY <3>1, <3>2, <3>4, OthersOwned
    <2>2. ASSUME DispatchVerifier(k) \/ BeginCommit(k)
          PROVE  AllOwned'
        <3>1. session'.ops = session.ops
            BY <1>0, <2>2, QuietCallSteps
        <3>2. PICK kind \in {"verifier", "commit"} : calls' = [calls EXCEPT ![k] = CallRecord(kind, NoRun, 0)]
            BY <2>2 DEF DispatchVerifier, BeginCommit
        <3>3. calls'[k].kind # "task" /\ \A j \in Call \ {k} : calls'[j] = calls[j]
            BY <1>0, <3>2, CallFacts DEF NoRun
        <3>4. Owned(k)'
            BY <3>1, <3>3 DEF Owned, AllOwned, HasOp
        <3> QED
            BY <3>1, <3>3, <3>4, OthersOwned
    <2>3. ASSUME calls' = Over(k), session'.ops[k] = session.ops[k] \/ ~ HasOp(session', k),
                 \A j \in Call \ {k} : session'.ops[j] = session.ops[j]
          PROVE  AllOwned'
        <3>1. calls'[k].state # "running" /\ \A j \in Call \ {k} : calls'[j] = calls[j]
            BY <1>0, <2>3, CallFacts
        <3>2. Owned(k)'
            BY <2>3, <3>1 DEF Owned, AllOwned, HasOp
        <3> QED
            BY <2>3, <3>1, <3>2, OthersOwned
    <2>4. ASSUME NEW report \in Reports, NEW checks \in Checks, Return(k, report, checks)
          PROVE  AllOwned'
        BY <1>0, <2>3, <2>4, ReturnStep DEF Return
    <2>5. ASSUME ToolFailure(k) \/ \E checks \in Verdict : FinishEdit(k, checks)
          PROVE  AllOwned'
        BY <1>0, <2>3, <2>5, EndSteps DEF ToolFailure, FinishEdit
    <2>6. ASSUME NEW head \in {"unmoved", "other", "expected"}, FinishCommit(k, head)
          PROVE  AllOwned'
        BY <1>0, <2>3, <2>6, QuietCallSteps DEF FinishCommit
    <2>7. ASSUME BeginEdit(k)
          PROVE  AllOwned'
        <3>1. /\ \A j \in Call \ {k} : HasOp(session', j) =>
                   HasOp(session, j) /\ session'.ops[j] = session.ops[j]
              /\ \A j \in Call \ {k} : HasOp(session, j) /\ ~ HasOp(session', j) =>
                   (session.ops[j].kind = "mutation" /\ j \notin live) \/ session.ops[j].expired
              /\ HasOp(session', k) /\ ~ session'.ops[k].expired
            BY <1>0, <2>7, BeginEditStep
        <3>2. calls' = [calls EXCEPT ![k] = CallRecord("edit", NoRun, 0)]
            BY <2>7 DEF BeginEdit
        <3>3. calls'[k].kind # "task" /\ \A j \in Call \ {k} : calls'[j] = calls[j]
            BY <1>0, <3>2, CallFacts DEF NoRun
        <3>4. Owned(k)'
            BY <3>1, <3>3 DEF Owned
        <3>5. ASSUME NEW j \in Call \ {k}
              PROVE  Owned(j)'
            <4>1. HasOp(session', j) => ~ session'.ops[j].expired
                BY <3>1 DEF Owned, AllOwned
            <4>2. CASE calls[j].kind = "task" /\ calls[j].state = "running"
                <5>1. HasOp(session, j) /\ session.ops[j].run # NoRun /\ ~ session.ops[j].expired
                    BY <4>2 DEF AllOwned, Owned
                <5>2. session.ops[j].kind # "mutation"
                    BY <4>2, <5>1 DEF Inv, Matched
                <5> QED
                    BY <3>1, <4>1, <5>1, <5>2 DEF Owned
            <4> QED
                BY <3>3, <4>1, <4>2 DEF Owned
        <3> QED
            BY <3>4, <3>5 DEF AllOwned
    <2>8. ASSUME ErrorEvent(k)
          PROVE  AllOwned'
        <3>1. /\ \A j \in Call \ {k} : session'.ops[j] = session.ops[j]
              /\ HasOp(session', k) => /\ HasOp(session, k)
                                       /\ session'.ops[k].expired = session.ops[k].expired
            BY <1>0, <2>8, FailureSteps
        <3>2. calls' = [calls EXCEPT ![k].state = "failed"]
            BY <2>8 DEF ErrorEvent
        <3>3. calls'[k].state # "running" /\ \A j \in Call \ {k} : calls'[j] = calls[j]
            BY <1>0, <3>2 DEF CallType
        <3>4. Owned(k)'
            BY <3>1, <3>3 DEF Owned, AllOwned
        <3> QED
            BY <3>1, <3>3, <3>4, OthersOwned
    <2>9. ~ Expire(k)
        BY DEF Expire
    <2> QED
        BY <1>1, <2>1, <2>2, <2>4, <2>5, <2>6, <2>7, <2>8, <2>9 DEF CallStep
<1>2. ASSUME ControllerStep
      PROVE  AllOwned'
    <2>1. ASSUME AskPlan \/ (\E grant \in BOOLEAN : AnswerPlan(grant)) \/ OtherTool
          PROVE  calls' = calls /\ session'.ops = session.ops
        BY <1>0, <2>1, PlanSteps DEF AskPlan, AnswerPlan, OtherTool
    <2>2. ASSUME NEW n \in 0 .. Cardinality(Task), SetTasks(n)
          PROVE  calls' = calls /\ session'.ops = session.ops
        BY <1>0, <2>2, SetTasksStep DEF Relists, SetTasks
    <2>3. ASSUME NEW d \in session.decisions,
                 \/ \E maximum \in 1 .. MaxMaximum : IncreaseRetries(d, maximum)
                 \/ \E how \in {"failed", "cancelled"} : GiveUp(d, how)
          PROVE  calls' = calls /\ session'.ops = session.ops
        BY <1>0, <2>3, DecisionSteps DEF Resolves, Decides, IncreaseRetries, GiveUp
    <2>4. calls' = calls /\ session'.ops = session.ops
        BY <1>2, <2>1, <2>2, <2>3 DEF ControllerStep, SetTaskStatus
    <2> QED
        BY <2>4 DEF AllOwned, Owned, HasOp
<1>3. CASE Archive
    BY <1>3 DEF Archive, AllOwned, Owned
<1>4. CASE Restart
    BY <1>4 DEF Restart, AllOwned, Owned, NoCall
<1> QED
    BY <1>1, <1>2, <1>3, <1>4 DEF Next

\* The stage takes a verdict from nobody but a call that was dispatched for it:
\* where no operation goes before its call does and no answer comes late, what
\* a task's call says is about the task.
THEOREM StageVerdictsBelong ==
    ASSUME Feature \cap {"expiry", "controller", "late"} = {}
    PROVE  Spec => StageVerdictBelongsToTheStage
<1> DEFINE Belongs == session'.gates # session.gates =>
                          \E k \in Call : AnswersFirst(k) /\ calls[k].kind = "verifier"
<1>1. Init => AllOwned
    BY DEF Init, AllOwned, Owned, NoCall, HasOp
<1>2. Inv /\ AllOwned /\ [Next]_vars => AllOwned'
    BY NextOwned DEF vars, AllOwned, Owned
<1>3. Inv /\ AllOwned /\ [Next]_vars => [Belongs]_vars
    <2> SUFFICES ASSUME Inv, AllOwned, Next, session'.gates # session.gates
                 PROVE  \E k \in Call : AnswersFirst(k) /\ calls[k].kind = "verifier"
        OBVIOUS
    <2>1. ~ Continues(session, session')
        BY DEF Continues, InPlace, Goes, SameWork
    <2>2. ~ Relists(session, session') /\ ~ Resolves(session, session')
        BY DEF Relists, Resolves, SameFrame
    <2>3. PICK k \in Call : Returned(k)
        BY <2>1, <2>2, StepEffects
    <2>4. PICK m : /\ Judges(session, m, k)
                   /\ session'.gates = m.gates /\ session'.processed = m.processed
        BY <2>3 DEF Returned, Goes, SameWork
    <2>5. /\ ~ HasOp(session, k) \/ session.ops[k].run = NoRun
          /\ k \notin session.processed /\ k \in m.processed
        BY <2>4 DEF Judges
    <2>6. calls[k].state = "running"
        BY <2>3 DEF Returned, Answered
    <2>7. calls[k].kind = "verifier"
        BY <2>3, <2>5, <2>6 DEF Returned, TaskKind, AllOwned, Owned
    <2> QED
        BY <2>4, <2>5, <2>7 DEF AnswersFirst
<1> QED
    BY <1>1, <1>2, <1>3, Invariant, PTL DEF Spec, StageVerdictBelongsToTheStage

=============================================================================
